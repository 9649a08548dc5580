------------------------------ MODULE MCStore ------------------------------
(***************************************************************************)
(* What is stored and shown, on small sets, one part at a time.             *)
(***************************************************************************)
EXTENDS Store

(* Each behaviour moves one part.                                           *)
MCMoving ==
  {{"client"}, {"hands"}, {"dry"}, {"files"}, {"lone"}, {"watch"}, {"settings"}, {"page"}, {"chat"}}

MCRanges == {34, 69, 70}

(* A wallet of up to five pools.                                            *)
MCLists == {SubSeq(<<"a", "b", "c", "d", "e">>, 1, n) : n \in 0 .. 5}

(* A setting read once and one read at every tick; the daemon of production *)
(* and a demo, and an environment it refuses.                               *)
MCDefault == [k \in {"sweep", "limit"} |-> "off"]
Prod == [chain |-> {"meteora"}, price |-> {}, market |-> {}, keys |-> TRUE, llmKey |-> TRUE,
         demo |-> FALSE, sage |-> TRUE, loop |-> FALSE, bridge |-> TRUE, autonomous |-> TRUE,
         telegram |-> TRUE, inbound |-> FALSE]
MCEnvs == {Prod, [Prod EXCEPT !.chain = {}, !.llmKey = FALSE, !.autonomous = FALSE],
           [Prod EXCEPT !.market = {"none"}]}
=============================================================================
