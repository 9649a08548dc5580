-------------------------- MODULE ChainClientProofs --------------------------
(***************************************************************************)
(* What the chain client promises for any number of positions, callers and *)
(* writers: ChainClient implements ChainReads, and a write that reports    *)
(* success has happened in full.                                           *)
(***************************************************************************)
EXTENDS ChainClient, TLAPS

Maybe(S) == {{}} \cup {{s} : s \in S}
Snapshot == [Positions -> Reads!Stage]
Txs      == {"empty", "part", "full", "draining", "gone", "claim"}
Op       == [kind : {"none", "deploy", "close", "claim"},
             step : {"idle", "lookup", "inspect", "send", "done"},
             position : Maybe(Positions), txs : Seq(Txs)]
CacheType ==
  /\ asked \in [Callers -> Maybe(Snapshot)] /\ answer \in [Callers -> Maybe(Snapshot)]
  /\ got \in [Callers -> Maybe(Snapshot)] /\ waiting \in [Callers -> Maybe(Callers)]
  /\ value \in Maybe(Snapshot) /\ inflight \in Maybe(Callers)
TypeOK == chain \in Snapshot /\ CacheType /\ op \in [Writers -> Op] /\ made \subseteq Positions

(* Who waits, waits for a load that is under way, and everything asked for *)
(* or seen is a moment of the past.                                        *)
LoadsGoOn ==
  /\ \A c \in Callers : got[c] # {} => waiting[c] = {c}
  /\ \A c, d \in Callers : waiting[c] = {d} => asked[c] # {} /\ waiting[d] = {d}
  /\ \A d \in Callers : inflight = {d} => waiting[d] = {d}
SeenIsPast ==
  /\ \A c \in Callers : \A s \in got[c] \cup asked[c] : Reads!NotAfter(s, chain)
  /\ \A s \in value : Reads!NotAfter(s, chain)

(* What a load has read is recent enough for everyone who awaits it.       *)
RecentEnough ==
  \A c, d \in Callers : waiting[c] = {d} =>
    \A floor \in asked[c], s \in got[d] : Reads!NotAfter(floor, s)

CacheInv == CacheType /\ LoadsGoOn /\ SeenIsPast /\ RecentEnough

---------------------------------------------------------------------------
(* Stages are ordered                                                      *)

(* A stage has its place in the order. *)
LEMMA Ranks ==
  /\ \A x \in Reads!Stage : Reads!Rank[x] \in 0..5
  /\ {"none", "full", "gone"} \subseteq Reads!Stage
  /\ Reads!Rank["none"] = 0 /\ Reads!Rank["full"] = 3 /\ Reads!Rank["gone"] = 5
<1>1. Reads!Stage = {"none", "empty", "part", "full", "draining", "gone"}
  BY DEF Reads!Stage, Reads!Rank
<1>2. /\ Reads!Rank["none"] = 0 /\ Reads!Rank["empty"] = 1 /\ Reads!Rank["part"] = 2
      /\ Reads!Rank["full"] = 3 /\ Reads!Rank["draining"] = 4 /\ Reads!Rank["gone"] = 5
  BY DEF Reads!Rank
<1>3. ASSUME NEW x \in Reads!Stage PROVE Reads!Rank[x] \in 0..5
  BY <1>1, <1>2, <1>3
<1> QED BY <1>1, <1>2, <1>3

(* Before and after, in the order of the stages. *)
LEMMA Ordered ==
  ASSUME NEW s \in Snapshot
  PROVE  /\ Reads!NotAfter(s, s)
         /\ Nothing \in Snapshot /\ Reads!NotAfter(Nothing, s) /\ Reads!Nothing = Nothing
         /\ \A t, u \in Snapshot :
              Reads!NotAfter(s, t) /\ Reads!NotAfter(t, u) => Reads!NotAfter(s, u)
<1>1. \A t \in Snapshot, p \in Positions : Reads!Rank[t[p]] \in 0..5
  BY Ranks DEF Snapshot
<1>2. Nothing \in Snapshot /\ Reads!Nothing = Nothing
      /\ \A p \in Positions : Reads!Rank[Nothing[p]] = 0
  BY Ranks DEF Nothing, Reads!Nothing, Snapshot
<1>3. Reads!NotAfter(s, s) /\ Reads!NotAfter(Nothing, s)
  BY <1>1, <1>2 DEF Reads!NotAfter
<1>4. ASSUME NEW t \in Snapshot, NEW u \in Snapshot, Reads!NotAfter(s, t), Reads!NotAfter(t, u)
      PROVE  Reads!NotAfter(s, u)
  <2>1. ASSUME NEW p \in Positions PROVE Reads!Rank[s[p]] <= Reads!Rank[u[p]]
    <3>1. /\ Reads!Rank[s[p]] <= Reads!Rank[t[p]] /\ Reads!Rank[t[p]] <= Reads!Rank[u[p]]
          /\ Reads!Rank[s[p]] \in Nat /\ Reads!Rank[t[p]] \in Nat /\ Reads!Rank[u[p]] \in Nat
      BY <1>1, <1>4 DEF Reads!NotAfter
    <3> QED BY <3>1
  <2> QED BY <2>1 DEF Reads!NotAfter
<1> QED BY <1>2, <1>3, <1>4

---------------------------------------------------------------------------
(* Writes                                                                  *)

(* What is left of a write leads to what its success says. *)
ToDo(o) ==
  /\ o.kind = "deploy" => o.txs \in {<<"empty", "part", "full">>, <<"part", "full">>, <<"full">>, <<>>}
  /\ o.kind = "close" => o.txs \in {<<"draining", "gone">>, <<"gone">>, <<>>}
Over(o) == o.step = "done" \/ (o.step = "send" /\ o.txs = <<>>)
WriteInv ==
  \A w \in Writers :
    /\ op[w].step \in {"lookup", "inspect"} => op[w].kind # "deploy"
    /\ op[w].step = "send" => ToDo(op[w])
    /\ Over(op[w]) => \A p \in op[w].position :
         /\ op[w].kind = "deploy" => p \in made
         /\ op[w].kind = "close" => chain[p] = "gone"

(* A write changes alone. *)
LEMMA OpMoves ==
  ASSUME op \in [Writers -> Op], NEW w \in Writers, NEW o \in Op, op' = [op EXCEPT ![w] = o]
  PROVE  op' \in [Writers -> Op] /\ op'[w] = o /\ \A v \in Writers : v # w => op'[v] = op[v]
  OBVIOUS

(* No write is none of the others. *)
LEMMA NoOpType == NoOp \in Op /\ NoOp.step = "idle"
  BY DEF NoOp, Op, Maybe

(* The transactions a write is made of. *)
LEMMA Plans ==
  /\ <<>> \in Seq(Txs) /\ <<"full">> \in Seq(Txs) /\ <<"gone">> \in Seq(Txs)
  /\ <<"claim">> \in Seq(Txs) /\ <<"draining", "gone">> \in Seq(Txs)
  /\ <<"empty", "part", "full">> \in Seq(Txs)
  /\ <<"full">> # <<>> /\ <<"gone">> # <<>> /\ <<"claim">> # <<>>
  /\ <<"draining", "gone">> # <<>> /\ <<"empty", "part", "full">> # <<>>
<1> {"full", "gone", "claim", "draining", "empty", "part"} \subseteq Txs
  BY DEF Txs
<1> HIDE DEF Txs
<1>4. <<"full">> # <<>> /\ <<"gone">> # <<>> /\ <<"claim">> # <<>>
  OBVIOUS
<1>5. <<"draining", "gone">> # <<>>
  OBVIOUS
<1>6. <<"empty", "part", "full">> # <<>>
  OBVIOUS
<1>1. <<>> \in Seq(Txs) /\ <<"full">> \in Seq(Txs) /\ <<"gone">> \in Seq(Txs)
      /\ <<"claim">> \in Seq(Txs)
  OBVIOUS
<1>2. <<"draining", "gone">> \in Seq(Txs)
  OBVIOUS
<1>3. <<"empty", "part", "full">> \in Seq(Txs)
  OBVIOUS
<1> QED BY <1>1, <1>2, <1>3, <1>4, <1>5, <1>6

(* One transaction moves the chain forward or not at all. *)
LEMMA SendMoves ==
  ASSUME TypeOK, WriteInv, NEW w \in Writers, Send(w)
  PROVE  /\ chain' \in Snapshot /\ Reads!NotAfter(chain, chain')
         /\ \A p \in Positions : chain[p] = "gone" => chain'[p] = "gone"
         /\ made \subseteq made' /\ made' \subseteq Positions
         /\ op' \in [Writers -> Op] /\ \A v \in Writers : v # w => op'[v] = op[v]
         /\ op'[w].step # "idle" =>
              /\ op'[w].step = "send" /\ op'[w].kind = op[w].kind
              /\ op'[w].position = op[w].position /\ op'[w].txs = Tail(op[w].txs)
              /\ op[w].step = "send" /\ op[w].txs # <<>>
              /\ Head(op[w].txs) = "full" => op[w].position \subseteq made'
              /\ Head(op[w].txs) \notin {"full", "claim"} =>
                   \A p \in op[w].position : chain'[p] = Head(op[w].txs)
         /\ UNCHANGED memory
<1> DEFINE tx == Head(op[w].txs)
           o  == [op[w] EXCEPT !.txs = Tail(op[w].txs)]
<1>1. op[w] \in Op /\ op[w].txs \in Seq(Txs) /\ op[w].txs # <<>> /\ op[w].step = "send"
  BY DEF TypeOK, Op, Send
<1>2. tx \in Txs /\ Tail(op[w].txs) \in Seq(Txs)
  BY <1>1
<1>3. /\ o \in Op /\ o.step = "send" /\ o.kind = op[w].kind /\ o.position = op[w].position
      /\ o.txs = Tail(op[w].txs)
  BY <1>1, <1>2 DEF Op
<1>4. PICK p \in op[w].position, landed \in BOOLEAN :
        /\ landed => Valid(p, tx)
        /\ chain' = IF landed /\ tx # "claim" THEN [chain EXCEPT ![p] = tx] ELSE chain
        /\ made' = IF landed /\ tx = "full" THEN made \cup {p} ELSE made
        /\ \E report \in Reported(landed) :
             op' = [op EXCEPT ![w] = IF report = "ok" THEN o ELSE NoOp]
  BY DEF Send
<1>5. (landed /\ op' = [op EXCEPT ![w] = o]) \/ op' = [op EXCEPT ![w] = NoOp]
  <2>1. PICK report \in Reported(landed) :
          op' = [op EXCEPT ![w] = IF report = "ok" THEN o ELSE NoOp]
    BY <1>4
  <2>2. report = "ok" => landed
    BY DEF Reported
  <2> QED BY <2>1, <2>2
<1>6. p \in Positions /\ op[w].position = {p}
  BY <1>1, <1>4 DEF Op, Maybe
<1> HIDE DEF tx, o
<1>7. /\ chain' \in Snapshot /\ Reads!NotAfter(chain, chain')
      /\ \A q \in Positions : chain[q] = "gone" => chain'[q] = "gone"
      /\ landed /\ tx # "claim" => chain'[p] = tx
  <2>1. chain \in Snapshot
    BY DEF TypeOK
  <2>2. CASE landed /\ tx # "claim"
    <3>1. tx \in Reads!Stage /\ chain[p] # "gone" /\ Reads!Rank[chain[p]] < Reads!Rank[tx]
      <4>1. Rank = Reads!Rank
        BY DEF Rank, Reads!Rank
      <4>2. {"empty", "part", "full", "draining", "gone"} \subseteq Reads!Stage
        BY DEF Reads!Stage, Reads!Rank
      <4>3. Valid(p, tx)
        BY <1>4, <2>2
      <4> QED BY <1>2, <2>2, <4>1, <4>2, <4>3 DEF Valid, Txs
    <3>2. /\ chain' \in Snapshot /\ chain'[p] = tx
          /\ \A q \in Positions : q # p => chain'[q] = chain[q]
      BY <1>4, <1>6, <2>1, <2>2, <3>1 DEF Snapshot
    <3>3. \A q \in Positions : Reads!Rank[chain[q]] \in 0..5 /\ Reads!Rank[chain'[q]] \in 0..5
      BY <2>1, <3>2, Ranks DEF Snapshot
    <3>4. ASSUME NEW q \in Positions PROVE Reads!Rank[chain[q]] <= Reads!Rank[chain'[q]]
      BY <3>1, <3>2, <3>3
    <3> QED BY <3>1, <3>2, <3>4 DEF Reads!NotAfter
  <2>3. CASE ~(landed /\ tx # "claim")
    BY <1>4, <2>1, <2>3, Ordered
  <2> QED BY <2>2, <2>3
<1>8. /\ op' \in [Writers -> Op] /\ \A v \in Writers : v # w => op'[v] = op[v]
      /\ op'[w].step # "idle" => landed /\ op'[w] = o
  BY <1>3, <1>5, OpMoves, NoOpType DEF TypeOK
<1>9. made \subseteq made' /\ made' \subseteq Positions /\ (landed /\ tx = "full" => p \in made')
  BY <1>4, <1>6 DEF TypeOK
<1> QED BY <1>1, <1>3, <1>6, <1>7, <1>8, <1>9 DEF Send, tx

(* Nothing else touches the chain. *)
Quiet == UNCHANGED <<chain, made>>
LEMMA OthersQuiet ==
  ASSUME [Next]_vars, \A w \in Writers : ~Send(w)
  PROVE  Quiet
<1>1. ASSUME NEW c \in Callers, NEW force \in BOOLEAN, Question(c, force) PROVE Quiet
  BY <1>1 DEF Question, Quiet
<1>2. ASSUME NEW w \in Writers, NEW p \in Positions, Close(w, p) \/ Claim(w, p) PROVE Quiet
  BY <1>2 DEF Close, Claim, Target, Question, Quiet
<1>3. ASSUME NEW w \in Writers, Deploy(w) \/ LookedUp(w) \/ Inspect(w) \/ Commit(w) \/ Return(w)
      PROVE  Quiet
  BY <1>3 DEF Deploy, LookedUp, Inspect, Commit, Return, Quiet
<1>4. ASSUME NEW c \in Callers, ReadChain(c) \/ LoadEnds(c) \/ LoadFails(c) PROVE Quiet
  BY <1>4 DEF ReadChain, LoadEnds, LoadFails, Quiet
<1>5. CASE Expire \/ UNCHANGED vars
  BY <1>5 DEF Expire, vars, Quiet
<1> QED
  BY <1>1, <1>2, <1>3, <1>4, <1>5 DEF Next, GetMyPositions, Callers

(* A write that begins has a plan, or no step to send yet. *)
LEMMA BeginMoves ==
  ASSUME op \in [Writers -> Op], NEW w \in Writers, NEW kind \in {"deploy", "close", "claim"},
         NEW p \in Positions, NEW step \in {"lookup", "inspect", "send"}, NEW txs \in Seq(Txs),
         Begin(w, kind, p, step, txs)
  PROVE  /\ op' \in [Writers -> Op] /\ \A v \in Writers : v # w => op'[v] = op[v]
         /\ op'[w].kind = kind /\ op'[w].step = step /\ op'[w].txs = txs
<1> DEFINE o == [kind |-> kind, step |-> step, position |-> {p}, txs |-> txs]
<1>1. o \in Op /\ o.kind = kind /\ o.step = step /\ o.txs = txs
  BY DEF Op, Maybe
<1>2. op' = [op EXCEPT ![w] = o]
  BY DEF Begin
<1> HIDE DEF o
<1> QED BY <1>1, <1>2, OpMoves

(* The other steps of a write: what they leave of it. *)
WriterStep(w) ==
  \/ Deploy(w) \/ LookedUp(w) \/ Inspect(w) \/ Commit(w) \/ Return(w)
  \/ \E p \in Positions : Close(w, p) \/ Claim(w, p)
LEMMA WriterMoves ==
  ASSUME TypeOK, NEW w \in Writers, WriterStep(w),
         op[w].step \in {"lookup", "inspect"} => op[w].kind # "deploy"
  PROVE  /\ op' \in [Writers -> Op] /\ \A v \in Writers : v # w => op'[v] = op[v]
         /\ \/ op'[w].step = "idle"
            \/ op'[w].step \in {"lookup", "inspect"} /\ op'[w].kind # "deploy"
            \/ op'[w].step = "send" /\ ToDo(op'[w]) /\ op'[w].txs # <<>>
            \/ /\ Over(op[w]) /\ op'[w].kind = op[w].kind /\ op'[w].position = op[w].position
               /\ op'[w].step = "done"
<1>0. op \in [Writers -> Op] /\ op[w] \in Op
  BY DEF TypeOK
<1>1. CASE Deploy(w)
  <2>1. PICK p \in Positions, txs \in {<<"empty", "part", "full">>, <<"full">>} :
          Begin(w, "deploy", p, "send", txs)
    BY <1>1 DEF Deploy
  <2>2. txs \in Seq(Txs) /\ txs # <<>>
    BY Plans
  <2> QED BY <1>0, <2>1, <2>2, BeginMoves DEF ToDo
<1>2. CASE LookedUp(w)
  <2> DEFINE o == [op[w] EXCEPT !.step = "inspect"]
  <2>1. o \in Op /\ o.step = "inspect" /\ o.kind = op[w].kind /\ op[w].kind # "deploy"
    BY <1>0, <1>2 DEF Op, LookedUp
  <2>2. op' = [op EXCEPT ![w] = o] \/ op' = [op EXCEPT ![w] = NoOp]
    <3>1. CASE op[w].position \subseteq pools
      <4>1. op' = [op EXCEPT ![w] = [@ EXCEPT !.step = "inspect"]]
        BY <1>2, <3>1 DEF LookedUp
      <4> QED BY <4>1
    <3>2. CASE ~(op[w].position \subseteq pools)
      BY <1>2, <3>2 DEF LookedUp
    <3> QED BY <3>1, <3>2
  <2> HIDE DEF o
  <2> QED BY <1>0, <2>1, <2>2, OpMoves, NoOpType
<1>3. CASE Inspect(w)
  <2>1. ASSUME NEW txs \in {<<"draining", "gone">>, <<"gone">>, <<"claim">>},
               op[w].kind = "close" => txs # <<"claim">>, op[w].kind # "deploy",
               op' = [op EXCEPT ![w].step = "send", ![w].txs = txs]
        PROVE  /\ op' \in [Writers -> Op] /\ \A v \in Writers : v # w => op'[v] = op[v]
               /\ op'[w].step = "send" /\ ToDo(op'[w]) /\ op'[w].txs # <<>>
    <3> DEFINE o == [op[w] EXCEPT !.step = "send", !.txs = txs]
    <3>1. txs \in Seq(Txs) /\ txs # <<>>
      BY Plans
    <3>2. o \in Op /\ o.step = "send" /\ o.txs = txs /\ o.kind = op[w].kind
      BY <1>0, <3>1 DEF Op
    <3>3. op' = [op EXCEPT ![w] = o]
      BY <2>1
    <3> HIDE DEF o
    <3> QED BY <1>0, <2>1, <3>1, <3>2, <3>3, OpMoves DEF ToDo
  <2>2. CASE op' = [op EXCEPT ![w] = NoOp]
    BY <1>0, <2>2, OpMoves, NoOpType
  <2>3. op[w].kind # "deploy"
    BY <1>3 DEF Inspect
  <2>4. \/ op' = [op EXCEPT ![w] = NoOp]
        \/ \E txs \in {<<"draining", "gone">>, <<"gone">>, <<"claim">>} :
             /\ op[w].kind = "close" => txs # <<"claim">>
             /\ op' = [op EXCEPT ![w].step = "send", ![w].txs = txs]
    BY <1>3 DEF Inspect, CloseTxs
  <2> QED BY <2>1, <2>2, <2>3, <2>4
<1>4. CASE Commit(w)
  <2> DEFINE o == [op[w] EXCEPT !.step = "done"]
  <2>1. o \in Op /\ o.step = "done" /\ o.kind = op[w].kind /\ o.position = op[w].position
    BY <1>0 DEF Op
  <2>2. op' = [op EXCEPT ![w] = o] /\ Over(op[w])
    BY <1>4 DEF Commit, Over
  <2> HIDE DEF o
  <2> QED BY <1>0, <2>1, <2>2, OpMoves
<1>5. CASE Return(w)
  BY <1>0, <1>5, OpMoves, NoOpType DEF Return
<1>6. ASSUME NEW p \in Positions, Close(w, p) \/ Claim(w, p)
      PROVE  /\ op' \in [Writers -> Op] /\ \A v \in Writers : v # w => op'[v] = op[v]
             /\ op'[w].step \in {"lookup", "inspect"} /\ op'[w].kind # "deploy"
  <2>1. PICK kind \in {"close", "claim"}, step \in {"lookup", "inspect"} :
          Begin(w, kind, p, step, <<>>)
    BY <1>6 DEF Close, Claim, Target
  <2>2. <<>> \in Seq(Txs)
    OBVIOUS
  <2> QED BY <1>0, <2>1, <2>2, BeginMoves
<1> QED BY <1>1, <1>2, <1>3, <1>4, <1>5, <1>6 DEF WriterStep

(* What is left of them after the first. *)
LEMMA Rests ==
  /\ Tail(<<"full">>) = <<>> /\ Head(<<"full">>) = "full"
  /\ Tail(<<"gone">>) = <<>> /\ Head(<<"gone">>) = "gone"
  /\ Tail(<<"part", "full">>) = <<"full">>
  /\ Tail(<<"empty", "part", "full">>) = <<"part", "full">>
  /\ Tail(<<"draining", "gone">>) = <<"gone">>
  /\ <<"part", "full">> # <<>>
<1>1. Tail(<<"full">>) = <<>> /\ Tail(<<"gone">>) = <<>>
  OBVIOUS
<1>2. Head(<<"full">>) = "full" /\ Head(<<"gone">>) = "gone"
  OBVIOUS
<1>3. Tail(<<"part", "full">>) = <<"full">>
  OBVIOUS
<1>4. Tail(<<"empty", "part", "full">>) = <<"part", "full">>
  OBVIOUS
<1>5. Tail(<<"draining", "gone">>) = <<"gone">>
  OBVIOUS
<1>6. <<"part", "full">> # <<>>
  OBVIOUS
<1> QED BY <1>1, <1>2, <1>3, <1>4, <1>5, <1>6

(* A load that fails ends the writes that wait for it, and nothing more. *)
LEMMA FailMovesOp ==
  ASSUME TypeOK, NEW c \in Callers, LoadFails(c)
  PROVE  op' \in [Writers -> Op] /\ \A w \in Writers : op'[w] = op[w] \/ op'[w].step = "idle"
  BY NoOpType DEF LoadFails, TypeOK

(* Each step of a writer, and the rest. *)
LEMMA NextByWriter ==
  ASSUME [Next]_vars
  PROVE  \/ \E w \in Writers : Send(w) \/ WriterStep(w)
         \/ \E c \in Callers : LoadFails(c)
         \/ op' = op
  BY DEF Next, vars, WriterStep, GetMyPositions, ReadChain, LoadEnds, Expire

(* The writes keep their types and what they lead to. *)
LEMMA WritesKept ==
  ASSUME TypeOK, WriteInv, [Next]_vars
  PROVE  /\ chain' \in Snapshot /\ Reads!NotAfter(chain, chain') /\ made' \subseteq Positions
         /\ op' \in [Writers -> Op] /\ WriteInv'
<1>1. CASE \E w \in Writers : Send(w)
  <2>1. PICK w \in Writers : Send(w)
    BY <1>1
  <2>2. /\ chain' \in Snapshot /\ Reads!NotAfter(chain, chain')
        /\ \A p \in Positions : chain[p] = "gone" => chain'[p] = "gone"
        /\ made \subseteq made' /\ made' \subseteq Positions
        /\ op' \in [Writers -> Op] /\ \A v \in Writers : v # w => op'[v] = op[v]
        /\ op'[w].step # "idle" =>
             /\ op'[w].step = "send" /\ op'[w].kind = op[w].kind
             /\ op'[w].position = op[w].position /\ op'[w].txs = Tail(op[w].txs)
             /\ op[w].step = "send" /\ op[w].txs # <<>>
             /\ Head(op[w].txs) = "full" => op[w].position \subseteq made'
             /\ Head(op[w].txs) \notin {"full", "claim"} =>
                  \A p \in op[w].position : chain'[p] = Head(op[w].txs)
    BY <2>1, SendMoves
  <2>3. \A v \in Writers : op[v].position \subseteq Positions
    BY DEF TypeOK, Op, Maybe
  <2>4. ASSUME op'[w].step = "send"
        PROVE  /\ ToDo(op'[w])
               /\ op'[w].txs = <<>> => \A p \in op'[w].position :
                    /\ op'[w].kind = "deploy" => p \in made'
                    /\ op'[w].kind = "close" => chain'[p] = "gone"
    <3>1. ToDo(op[w]) /\ op[w].txs # <<>>
      BY <2>2, <2>4 DEF WriteInv
    <3>2. CASE op[w].kind = "deploy"
      <4>1. op[w].txs \in {<<"empty", "part", "full">>, <<"part", "full">>, <<"full">>}
        BY <3>1, <3>2 DEF ToDo
      <4>2. /\ Tail(op[w].txs) \in {<<"part", "full">>, <<"full">>, <<>>}
            /\ Tail(op[w].txs) = <<>> => Head(op[w].txs) = "full"
        BY <4>1, Rests, Plans
      <4> QED BY <2>2, <2>4, <3>2, <4>2 DEF ToDo
    <3>3. CASE op[w].kind = "close"
      <4>1. op[w].txs \in {<<"draining", "gone">>, <<"gone">>}
        BY <3>1, <3>3 DEF ToDo
      <4>2. /\ Tail(op[w].txs) \in {<<"gone">>, <<>>}
            /\ Tail(op[w].txs) = <<>> => Head(op[w].txs) = "gone"
        BY <4>1, Rests, Plans
      <4> QED BY <2>2, <2>4, <3>3, <4>2 DEF ToDo
    <3>4. CASE op[w].kind \notin {"deploy", "close"}
      BY <2>2, <2>4, <3>4 DEF ToDo
    <3> QED BY <3>2, <3>3, <3>4
  <2>5. ASSUME NEW v \in Writers, v # w
        PROVE  /\ op'[v].step \in {"lookup", "inspect"} => op'[v].kind # "deploy"
               /\ op'[v].step = "send" => ToDo(op'[v])
               /\ Over(op'[v]) => \A p \in op'[v].position :
                    /\ op'[v].kind = "deploy" => p \in made'
                    /\ op'[v].kind = "close" => chain'[p] = "gone"
    BY <2>2, <2>3, <2>5 DEF WriteInv
  <2>6. /\ op'[w].step \notin {"lookup", "inspect", "done"}
        /\ op'[w].step = "send" => ToDo(op'[w])
        /\ Over(op'[w]) => \A p \in op'[w].position :
             /\ op'[w].kind = "deploy" => p \in made'
             /\ op'[w].kind = "close" => chain'[p] = "gone"
    BY <2>2, <2>4 DEF Over
  <2>7. WriteInv'
    BY <2>5, <2>6 DEF WriteInv
  <2> QED BY <2>2, <2>7
<1>2. CASE \A w \in Writers : ~Send(w)
  <2>1. chain' = chain /\ made' = made
    BY <1>2, OthersQuiet DEF Quiet
  <2>2. chain' \in Snapshot /\ Reads!NotAfter(chain, chain') /\ made' \subseteq Positions
    BY <2>1, Ordered DEF TypeOK
  <2>3. CASE \E w \in Writers : WriterStep(w)
    <3>1. PICK w \in Writers : WriterStep(w)
      BY <2>3
    <3>2. op[w].step \in {"lookup", "inspect"} => op[w].kind # "deploy"
      BY DEF WriteInv
    <3>3. /\ op' \in [Writers -> Op] /\ \A v \in Writers : v # w => op'[v] = op[v]
          /\ \/ op'[w].step = "idle"
             \/ op'[w].step \in {"lookup", "inspect"} /\ op'[w].kind # "deploy"
             \/ op'[w].step = "send" /\ ToDo(op'[w]) /\ op'[w].txs # <<>>
             \/ /\ Over(op[w]) /\ op'[w].kind = op[w].kind /\ op'[w].position = op[w].position
                /\ op'[w].step = "done"
      BY <3>1, <3>2, WriterMoves
    <3>4. ASSUME NEW v \in Writers
          PROVE  /\ op'[v].step \in {"lookup", "inspect"} => op'[v].kind # "deploy"
                 /\ op'[v].step = "send" => ToDo(op'[v])
                 /\ Over(op'[v]) => \A p \in op'[v].position :
                      /\ op'[v].kind = "deploy" => p \in made'
                      /\ op'[v].kind = "close" => chain'[p] = "gone"
      <4>1. CASE v = w
        BY <2>1, <3>3, <4>1 DEF WriteInv, Over
      <4>2. CASE v # w
        BY <2>1, <3>3, <4>2 DEF WriteInv
      <4> QED BY <4>1, <4>2
    <3> QED BY <2>2, <3>3, <3>4 DEF WriteInv
  <2>4. CASE \E c \in Callers : LoadFails(c)
    <3>1. op' \in [Writers -> Op] /\ \A w \in Writers : op'[w] = op[w] \/ op'[w].step = "idle"
      BY <2>4, FailMovesOp
    <3>2. WriteInv'
      <4>1. ASSUME NEW v \in Writers
            PROVE  /\ op'[v].step \in {"lookup", "inspect"} => op'[v].kind # "deploy"
                   /\ op'[v].step = "send" => ToDo(op'[v])
                   /\ Over(op'[v]) => \A p \in op'[v].position :
                        /\ op'[v].kind = "deploy" => p \in made'
                        /\ op'[v].kind = "close" => chain'[p] = "gone"
        <5>1. CASE op'[v] = op[v]
          BY <2>1, <5>1 DEF WriteInv
        <5>2. CASE op'[v].step = "idle"
          BY <5>2 DEF Over
        <5> QED BY <3>1, <5>1, <5>2
      <4> QED BY <4>1 DEF WriteInv
    <3> QED BY <2>2, <3>1, <3>2
  <2>5. CASE op' = op
    BY <2>1, <2>2, <2>5 DEF TypeOK, WriteInv
  <2> QED BY <1>2, <2>3, <2>4, <2>5, NextByWriter
<1> QED BY <1>1, <1>2

---------------------------------------------------------------------------
(* The cache                                                               *)

(* A question answered at once, or one that waits for a load. *)
LEMMA QuestionSteps ==
  ASSUME NEW c \in Callers, NEW force \in BOOLEAN, Question(c, force)
  PROVE  /\ asked[c] = {} /\ UNCHANGED <<chain, value, got>>
         /\ \/ /\ value # {} /\ answer' = [answer EXCEPT ![c] = value]
               /\ UNCHANGED <<asked, waiting, inflight>>
            \/ /\ answer' = [answer EXCEPT ![c] = {}] /\ asked' = [asked EXCEPT ![c] = {Nothing}]
               /\ inflight # {} /\ waiting' = [waiting EXCEPT ![c] = inflight]
               /\ UNCHANGED inflight
            \/ /\ answer' = [answer EXCEPT ![c] = {}]
               /\ \E floor \in {chain, Nothing} : asked' = [asked EXCEPT ![c] = {floor}]
               /\ waiting' = [waiting EXCEPT ![c] = {c}] /\ inflight' = {c}
  BY DEF Question, Shares

(* Either way the promises stand. *)
LEMMA QuestionKeeps ==
  ASSUME TypeOK, CacheInv, NEW c \in Callers, NEW force \in BOOLEAN, Question(c, force)
  PROVE  CacheInv'
<1>1. asked[c] = {} /\ UNCHANGED <<chain, value, got>>
  BY QuestionSteps
<1>2. waiting[c] = {} /\ got[c] = {}
  BY <1>1 DEF CacheInv, CacheType, LoadsGoOn, Maybe
<1>3. chain \in Snapshot /\ Nothing \in Snapshot
      /\ Reads!NotAfter(chain, chain) /\ Reads!NotAfter(Nothing, chain)
  BY Ordered DEF TypeOK
<1>4. /\ {} \in Maybe(Snapshot) /\ {chain} \in Maybe(Snapshot) /\ {Nothing} \in Maybe(Snapshot)
      /\ {c} \in Maybe(Callers)
  BY <1>3 DEF Maybe
<1>5. CASE /\ value # {} /\ answer' = [answer EXCEPT ![c] = value]
           /\ UNCHANGED <<asked, waiting, inflight>>
  <2>1. CacheType'
    BY <1>1, <1>5 DEF CacheInv, CacheType
  <2> QED BY <1>1, <1>5, <2>1 DEF CacheInv, LoadsGoOn, SeenIsPast, RecentEnough
<1>6. CASE /\ answer' = [answer EXCEPT ![c] = {}] /\ asked' = [asked EXCEPT ![c] = {Nothing}]
           /\ inflight # {} /\ waiting' = [waiting EXCEPT ![c] = inflight]
           /\ UNCHANGED inflight
  <2>1. /\ asked'[c] = {Nothing} /\ waiting'[c] = inflight
        /\ \A d \in Callers : d # c => asked'[d] = asked[d] /\ waiting'[d] = waiting[d]
    BY <1>6 DEF CacheInv, CacheType
  <2>2. CacheType'
    BY <1>1, <1>4, <1>6 DEF CacheInv, CacheType
  <2>3. LoadsGoOn'
    BY <1>1, <1>2, <1>6, <2>1 DEF CacheInv, LoadsGoOn
  <2>4. SeenIsPast'
    BY <1>1, <1>3, <2>1 DEF CacheInv, SeenIsPast
  <2>5. \A d \in Callers : \A s \in got[d] : s \in Snapshot
    BY DEF CacheInv, CacheType, Maybe
  <2>6. RecentEnough'
    <3>1. ASSUME NEW d \in Callers, NEW floor \in asked'[c], NEW s \in got'[d]
          PROVE  Reads!NotAfter(floor, s)
      BY <1>1, <2>1, <2>5, <3>1, Ordered
    <3> QED BY <1>1, <2>1, <3>1 DEF CacheInv, RecentEnough
  <2> QED BY <2>2, <2>3, <2>4, <2>6 DEF CacheInv
<1>7. ASSUME NEW floor \in {chain, Nothing}, asked' = [asked EXCEPT ![c] = {floor}],
             answer' = [answer EXCEPT ![c] = {}], waiting' = [waiting EXCEPT ![c] = {c}],
             inflight' = {c}
      PROVE  CacheInv'
  <2>1. /\ asked'[c] = {floor} /\ waiting'[c] = {c}
        /\ \A d \in Callers : d # c => asked'[d] = asked[d] /\ waiting'[d] = waiting[d]
    BY <1>7 DEF CacheInv, CacheType
  <2>2. {floor} \in Maybe(Snapshot) /\ Reads!NotAfter(floor, chain)
    BY <1>3, <1>4
  <2>3. CacheType'
    BY <1>1, <1>4, <1>7, <2>2 DEF CacheInv, CacheType
  <2>4. LoadsGoOn'
    BY <1>1, <1>2, <1>7, <2>1 DEF CacheInv, LoadsGoOn
  <2>5. SeenIsPast'
    BY <1>1, <2>1, <2>2 DEF CacheInv, SeenIsPast
  <2>6. RecentEnough'
    BY <1>1, <1>2, <2>1 DEF CacheInv, RecentEnough
  <2> QED BY <2>3, <2>4, <2>5, <2>6 DEF CacheInv
<1> QED BY <1>5, <1>6, <1>7, QuestionSteps

(* A load reads the chain as it is now. *)
LEMMA ReadKeeps ==
  ASSUME TypeOK, CacheInv, NEW c \in Callers, ReadChain(c)
  PROVE  CacheInv'
<1>1. /\ got'[c] = {chain} /\ waiting[c] = {c} /\ \A d \in Callers : d # c => got'[d] = got[d]
      /\ UNCHANGED <<chain, asked, answer, waiting, value, inflight>>
  BY DEF ReadChain, CacheInv, CacheType
<1>2. chain \in Snapshot /\ Reads!NotAfter(chain, chain)
  BY Ordered DEF TypeOK
<1>3. {chain} \in Maybe(Snapshot)
  BY <1>2 DEF Maybe
<1>4. CacheType'
  BY <1>1, <1>3 DEF CacheInv, CacheType, ReadChain
<1>5. LoadsGoOn'
  BY <1>1 DEF CacheInv, LoadsGoOn
<1>6. SeenIsPast'
  BY <1>1, <1>2 DEF CacheInv, SeenIsPast
<1>7. RecentEnough'
  BY <1>1 DEF CacheInv, RecentEnough, SeenIsPast
<1> QED BY <1>4, <1>5, <1>6, <1>7 DEF CacheInv

(* A load that ends, well or not, releases whoever waits for it. *)
LEMMA EndKeeps ==
  ASSUME TypeOK, CacheInv, NEW c \in Callers, LoadEnds(c) \/ LoadFails(c)
  PROVE  CacheInv'
<1>0. /\ {} \in Maybe(Snapshot) /\ {} \in Maybe(Callers) /\ got[c] \in Maybe(Snapshot)
      /\ got \in [Callers -> Maybe(Snapshot)]
  BY DEF Maybe, CacheInv, CacheType
<1>1. /\ got' = [got EXCEPT ![c] = {}] /\ inflight' = {} /\ UNCHANGED chain
      /\ value' = value \/ value' = got[c]
      /\ \A d \in Callers : /\ waiting'[d] = IF waiting[d] = {c} THEN {} ELSE waiting[d]
                            /\ asked'[d] = IF waiting[d] = {c} THEN {} ELSE asked[d]
  BY DEF LoadEnds, LoadFails, Released, Waiters
<1>2. got'[c] = {} /\ \A d \in Callers : d # c => got'[d] = got[d]
  BY <1>0, <1>1
<1>3. CacheType'
  <2>1. asked' \in [Callers -> Maybe(Snapshot)] /\ waiting' \in [Callers -> Maybe(Callers)]
    BY <1>0 DEF LoadEnds, LoadFails, Released, CacheInv, CacheType
  <2>2. answer' \in [Callers -> Maybe(Snapshot)]
    BY <1>0 DEF LoadEnds, LoadFails, CacheInv, CacheType
  <2> QED BY <1>0, <1>1, <2>1, <2>2 DEF CacheInv, CacheType
<1>4. LoadsGoOn'
  BY <1>1, <1>2 DEF CacheInv, LoadsGoOn
<1>5. SeenIsPast'
  BY <1>1, <1>2 DEF CacheInv, SeenIsPast
<1>6. RecentEnough'
  BY <1>1, <1>2 DEF CacheInv, RecentEnough
<1> QED BY <1>3, <1>4, <1>5, <1>6 DEF CacheInv

(* Time passes, the chain moves on and the cache is dropped. *)
LEMMA DropKeeps ==
  ASSUME TypeOK, CacheInv, chain' \in Snapshot, Reads!NotAfter(chain, chain'),
         UNCHANGED <<asked, answer, waiting, got, inflight>>, value' = value \/ value' = {}
  PROVE  CacheInv'
<1>1. chain \in Snapshot
  BY DEF TypeOK
<1>2. /\ \A c \in Callers : \A s \in got[c] \cup asked[c] : s \in Snapshot
      /\ \A s \in value : s \in Snapshot
  BY DEF CacheInv, CacheType, Maybe
<1>3. ASSUME NEW s \in Snapshot, Reads!NotAfter(s, chain) PROVE Reads!NotAfter(s, chain')
  BY <1>1, <1>3, Ordered
<1>4. /\ \A c \in Callers : \A s \in got[c] \cup asked[c] : Reads!NotAfter(s, chain')
      /\ \A s \in value : Reads!NotAfter(s, chain')
  BY <1>2, <1>3 DEF CacheInv, SeenIsPast
<1>5. SeenIsPast'
  BY <1>4 DEF SeenIsPast
<1>6. CacheType'
  BY DEF CacheInv, CacheType, Maybe
<1> QED BY <1>5, <1>6 DEF CacheInv, LoadsGoOn, RecentEnough

(* A step of the client, as its cache sees it. *)
LEMMA NextByCache ==
  ASSUME [Next]_vars
  PROVE  \/ \E c \in Callers, force \in BOOLEAN : Question(c, force)
         \/ \E c \in Callers : ReadChain(c) \/ LoadEnds(c) \/ LoadFails(c)
         \/ /\ UNCHANGED <<asked, answer, waiting, got, inflight>>
            /\ value' = value \/ value' = {}
<1> DEFINE Idle == /\ UNCHANGED <<asked, answer, waiting, got, inflight>>
                   /\ value' = value \/ value' = {}
<1>1. ASSUME NEW w \in Writers, NEW p \in Positions, Close(w, p) \/ Claim(w, p)
      PROVE  Question(w, TRUE) \/ Idle
  BY <1>1 DEF Close, Claim, Target, memory
<1>2. ASSUME NEW w \in Writers,
             Deploy(w) \/ LookedUp(w) \/ Inspect(w) \/ Send(w) \/ Commit(w) \/ Return(w)
      PROVE  Idle
  BY <1>2 DEF Deploy, LookedUp, Inspect, Send, Commit, Return, memory
<1>3. CASE Expire \/ UNCHANGED vars
  BY <1>3 DEF Expire, vars, memory
<1> QED BY <1>1, <1>2, <1>3 DEF Next, GetMyPositions, Callers

---------------------------------------------------------------------------
(* The theorems                                                            *)

(* All of it holds together. *)
Inv == TypeOK /\ CacheInv /\ WriteInv
LEMMA InvHolds == Spec => []Inv
<1>1. ASSUME Init PROVE Inv
  <2>1. Nothing \in Snapshot
    BY Ranks DEF Nothing, Snapshot
  <2>2. CacheType
    BY <1>1 DEF Init, CacheType, Maybe
  <2>3. TypeOK
    BY <1>1, <2>1, <2>2, NoOpType DEF Init, TypeOK
  <2>4. CacheInv
    BY <1>1, <2>2 DEF Init, CacheInv, LoadsGoOn, SeenIsPast, RecentEnough
  <2>5. \A w \in Writers : op[w].step = "idle"
    BY <1>1, NoOpType DEF Init
  <2>6. WriteInv
    BY <2>5 DEF WriteInv, Over
  <2> QED BY <2>3, <2>4, <2>6 DEF Inv
<1>2. ASSUME Inv, [Next]_vars PROVE Inv'
  <2>1. /\ chain' \in Snapshot /\ Reads!NotAfter(chain, chain') /\ made' \subseteq Positions
        /\ op' \in [Writers -> Op] /\ WriteInv'
    BY <1>2, WritesKept DEF Inv
  <2>2. CacheInv'
    <3>1. ASSUME NEW c \in Callers, NEW force \in BOOLEAN, Question(c, force) PROVE CacheInv'
      BY <1>2, <3>1, QuestionKeeps DEF Inv
    <3>2. ASSUME NEW c \in Callers, ReadChain(c) PROVE CacheInv'
      BY <1>2, <3>2, ReadKeeps DEF Inv
    <3>3. ASSUME NEW c \in Callers, LoadEnds(c) \/ LoadFails(c) PROVE CacheInv'
      BY <1>2, <3>3, EndKeeps DEF Inv
    <3>4. CASE /\ UNCHANGED <<asked, answer, waiting, got, inflight>>
               /\ value' = value \/ value' = {}
      BY <1>2, <2>1, <3>4, DropKeeps DEF Inv
    <3> QED BY <1>2, <3>1, <3>2, <3>3, <3>4, NextByCache
  <2> QED BY <2>1, <2>2 DEF Inv, TypeOK, CacheInv
<1> QED BY <1>1, <1>2, PTL DEF Spec

(* A write that reports success has happened in full: every transaction of *)
(* a deploy landed, and a closed position is gone, for any writers.        *)
THEOREM SuccessHasLanded == Spec => []SuccessLanded
<1>1. Inv => SuccessLanded
  BY DEF Inv, WriteInv, Over, SuccessLanded
<1> QED BY <1>1, InvHolds, PTL

(* A question put is one step of ChainReads, answered at once or not. *)
LEMMA QuestionRefines ==
  ASSUME Inv, NEW c \in Callers, NEW force \in BOOLEAN, Question(c, force)
  PROVE  Reads!Next
<1>1. asked[c] = {} /\ UNCHANGED <<chain, value, got>>
  BY QuestionSteps
<1>2. CASE /\ value # {} /\ answer' = [answer EXCEPT ![c] = value]
           /\ UNCHANGED <<asked, waiting, inflight>>
  <2>1. PICK s \in Snapshot : value = {s}
    BY <1>2 DEF Inv, TypeOK, CacheType, Maybe
  <2>2. Reads!NotAfter(s, chain)
    BY <2>1 DEF Inv, CacheInv, SeenIsPast
  <2>3. /\ asked' = [d \in Callers |-> IF d \in {c} THEN {} ELSE asked[d]]
        /\ answer' = [d \in Callers |-> IF d \in {c} THEN {s} ELSE answer[d]]
        /\ answer'[c] = {s}
    BY <1>1, <1>2, <2>1 DEF Inv, TypeOK, CacheType
  <2>4. Reads!Answer({c}, s)
    BY <1>1, <2>2, <2>3 DEF Reads!Answer
  <2>5. s \in UNION {answer'[d] : d \in {c}}
    BY <2>3
  <2> QED BY <2>4, <2>5 DEF Reads!Next
<1>3. CASE /\ answer' = [answer EXCEPT ![c] = {}]
           /\ \E floor \in {chain, Nothing} : asked' = [asked EXCEPT ![c] = {floor}]
  <2>1. Reads!Nothing = Nothing
    BY Ordered DEF Inv, TypeOK
  <2>2. Reads!Ask(c)
    BY <1>1, <1>3, <2>1 DEF Reads!Ask
  <2> QED BY <2>2 DEF Reads!Next
<1> QED BY <1>2, <1>3, QuestionSteps

(* A load that ends answers everyone who awaits it, or fails them all. *)
LEMMA EndRefines ==
  ASSUME Inv, NEW c \in Callers, LoadEnds(c) \/ LoadFails(c)
  PROVE  Reads!Next
<1> DEFINE R == Waiters(c)
<1>0. R \in SUBSET Callers
  BY DEF Waiters
<1>1. CASE LoadEnds(c)
  <2>1. PICK s \in Snapshot : got[c] = {s}
    BY <1>1 DEF LoadEnds, Inv, TypeOK, CacheType, Maybe
  <2>2. c \in R
    BY <2>1 DEF Inv, CacheInv, LoadsGoOn, Waiters
  <2>3. /\ answer' = [d \in Callers |-> IF d \in R THEN {s} ELSE answer[d]]
        /\ asked' = [d \in Callers |-> IF d \in R THEN {} ELSE asked[d]]
        /\ UNCHANGED chain
    BY <1>1, <2>1 DEF LoadEnds, Released
  <2>4. Reads!NotAfter(s, chain)
    BY <2>1 DEF Inv, CacheInv, SeenIsPast
  <2>5. \A floor \in UNION {asked[d] : d \in R} : Reads!NotAfter(floor, s)
    BY <2>1 DEF Inv, CacheInv, RecentEnough, Waiters
  <2>6. Reads!Answer(R, s)
    BY <2>3, <2>4, <2>5 DEF Reads!Answer
  <2>7. s \in UNION {answer'[d] : d \in R}
    BY <1>0, <2>2, <2>3
  <2> HIDE DEF R
  <2> QED BY <1>0, <2>6, <2>7 DEF Reads!Next
<1>2. CASE LoadFails(c)
  <2>1. Reads!Fail(R)
    BY <1>2 DEF LoadFails, Released, Reads!Fail
  <2> HIDE DEF R
  <2> QED BY <1>0, <2>1 DEF Reads!Next
<1> QED BY <1>1, <1>2

(* Every answer of the client is the chain as it was at some moment, not   *)
(* before a forced question was put, however loads overlap, fail and are   *)
(* stored: ChainClient implements ChainReads.                              *)
THEOREM ClientRefinesChainReads == Spec => ReadsAreTrue
<1>1. Init => Reads!Init
  BY DEF Init, Reads!Init, Nothing, Reads!Nothing
<1>2. ASSUME Inv, [Next]_vars PROVE [Reads!Next]_(Reads!vars)
  <2>1. /\ chain' \in Snapshot /\ Reads!NotAfter(chain, chain')
    BY <1>2, WritesKept DEF Inv
  <2>2. ASSUME NEW c \in Callers, NEW force \in BOOLEAN, Question(c, force) PROVE Reads!Next
    BY <1>2, <2>2, QuestionRefines
  <2>3. ASSUME NEW c \in Callers, LoadEnds(c) \/ LoadFails(c) PROVE Reads!Next
    BY <1>2, <2>3, EndRefines
  <2>4. ASSUME NEW c \in Callers, ReadChain(c) PROVE UNCHANGED Reads!vars
    BY <2>4 DEF ReadChain, Reads!vars
  <2>5. CASE UNCHANGED <<asked, answer>>
    <3>1. Reads!Forward
      BY <2>1, <2>5 DEF Reads!Forward, Snapshot
    <3> QED BY <3>1 DEF Reads!Next
  <2> QED BY <1>2, <2>2, <2>3, <2>4, <2>5, NextByCache
<1> QED BY <1>1, <1>2, InvHolds, PTL DEF Spec, ReadsAreTrue, Reads!Spec
=============================================================================
