----------------------------- MODULE MCServices -----------------------------
(***************************************************************************)
(* The services on small sets, one part at a time.                          *)
(***************************************************************************)
EXTENDS Services

(* Each behaviour moves one part.                                          *)
MCMoving == {{"learning"}, {"review"}, {"bot"}, {"wallet"}, {"loop"}}

(* Which jobs start how often, besides the review: all of them once would    *)
(* be too many interleavings, so each behaviour takes one of these sets.     *)
MCJobs == {"review", "backfill", "mirror", "append", "settle", "bounce", "edit", "import"}
Starting(jobs) == [w \in MCJobs |-> IF w \in jobs THEN 1 ELSE 0]
(* What the daemon finds: a lesson of the operator, one of the community or   *)
(* not, and closes in the order of the file that cite all of them; a position *)
(* may have two rows.                                                        *)
Hand     == <<"hand", "c", 0>>
Imported == <<"community", "c", 0>>
Closed(ps, ids) ==
  [i \in DOMAIN ps |-> [pos |-> ps[i], win |-> i = 1, settled |-> FALSE, mirror |-> FALSE,
                        cites |-> ids, review |-> {}, bounced |-> FALSE]]
From(ps, ids, budget) == [rows |-> Closed(ps, ids), ids |-> ids, left |-> budget]
Imports == [Starting({"import"}) EXCEPT !["import"] = 2]
MCStarts ==
  {From(<<>>, {Hand}, Starting({"append", other})) : other \in {"settle", "backfill", "mirror", "bounce"}}
  \cup {From(<<"p">>, {Hand}, Starting({"settle", "edit"})), From(<<"p">>, {Hand}, Starting({"append"})),
        From(<<"p">>, {Hand, Imported}, Imports), From(<<>>, {Hand}, [Imports EXCEPT !["edit"] = 1]),
        From(<<"q", "p", "p">>, {Hand}, Starting({})), From(<<"q", "p", "p", "p">>, {Hand}, Starting({}))}

(* Trades whose entry knew a volatility, a trend, a strategy or not.         *)
Trade(id, pnl, vol, trend, strategy) ==
  [id |-> id, pnl |-> pnl, win |-> pnl > 0, volatility |-> vol, trend |-> {trend},
   strategy |-> {strategy}, holders |-> {}]
MCTrades == {
  Trade(1, -9, {3}, "DOWN", "spot"), Trade(2, -2, {3}, "DOWN", "bid_ask"),
  Trade(3, -1, {2}, "DOWN", "spot"), Trade(4, 8, {3}, "DOWN", "bid_ask"),
  Trade(5, 2, {}, "UP", "spot"), Trade(6, 1, {1}, "DOWN", "spot")}
Cond(field, op, value) == [field |-> field, op |-> op, value |-> value]
MCConds == {Cond("volatility", ">", 1), Cond("volatility", "!=", 2),
            Cond("trend", "=", "DOWN"), Cond("trend", "<", "UP"), Cond("hype", ">", 1)}
MCProposals ==
  {<<c>> : c \in MCConds} \cup {<<c, d>> : c, d \in MCConds}
  \cup {<<c, d, Cond("strategy", "=", "spot")>> : c, d \in MCConds}
  \cup {<<c, Cond("strategy", "!=", "spot")>> : c \in MCConds}
(* A caution, a preference, one of a pinned copy, one its deploys belie.     *)
Listed(pinned, prefer, conds, wins, losses) ==
  [pinned |-> pinned, prefer |-> prefer, match |-> {conds}, wins |-> wins, losses |-> losses]
MCCommunity == {
  Listed(FALSE, FALSE, <<Cond("volatility", ">", 1), Cond("trend", "=", "DOWN")>>, 0, 0),
  Listed(FALSE, TRUE, <<Cond("trend", "=", "DOWN"), Cond("strategy", "=", "spot")>>, 1, 1),
  Listed(TRUE, FALSE, <<Cond("volatility", ">", 1), Cond("volatility", "!=", 2)>>, 0, 0),
  Listed(FALSE, FALSE, <<Cond("volatility", "!=", 3), Cond("trend", "=", "UP")>>, 3, 0),
  Listed(FALSE, FALSE, <<Cond("hype", ">", 1), Cond("trend", "=", "DOWN")>>, 0, 0)}

Msg(cmd, n, known) == [cmd |-> cmd, n |-> n, known |-> known]
MCMessages ==
  {Msg("/close", 1, TRUE), Msg("/help", 0, FALSE)}
  \cup {Msg(c, 0, TRUE) : c \in {"/status", "/pause", "/resume", "/stop", "/closeall", "/deploy", "agent"}}

MCProgram == [m \in {"a", "b"} |-> IF m = "a" THEN "classic" ELSE "2022"]
MCWorths ==
  {[m \in {"a", "b"} |-> IF m = "a" THEN w ELSE "worth"] : w \in {"none", "crumb", "unpriced"}}

MCCallers == {[forced |-> f, filter |-> {"read"}, max |-> m] : f \in BOOLEAN, m \in {1, 3}}
Entry(name) == [fresh |-> TRUE, name |-> name]
Rest        == [fresh |-> FALSE, name |-> ""]
MCReplies == {
  <<>>, <<Rest>>, <<Entry("")>>, <<Entry("deploy"), Entry("deploy")>>,
  <<Entry("read"), Rest, Entry("deploy")>>, <<Entry("ghost"), Entry("close")>>,
  <<Entry("close"), Rest, Rest>>}

MCHistories == SUBSET MCTrades
=============================================================================
