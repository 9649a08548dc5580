----------------------------- MODULE ChainReads -----------------------------
(***************************************************************************)
(* What a reader of our positions is promised, whatever is cached: the     *)
(* chain only moves forward, and every answer is the chain as it was at    *)
(* some moment.  A forced read is answered with a moment not before it was *)
(* asked.                                                                  *)
(***************************************************************************)
EXTENDS Integers

CONSTANTS Positions, Readers

VARIABLES
  chain,   \* stage of every position
  asked,   \* per reader, the nullable moment its answer may not precede
  answer   \* per reader, the nullable answer to its last question

vars == <<chain, asked, answer>>

(* Stages in the order a position goes through them. *)
Rank == [none |-> 0, empty |-> 1, part |-> 2, full |-> 3, draining |-> 4, gone |-> 5]
Stage == DOMAIN Rank
NotAfter(s, t) == \A p \in Positions : Rank[s[p]] <= Rank[t[p]]
Nothing == [p \in Positions |-> "none"]

Init ==
  /\ chain = Nothing
  /\ asked = [r \in Readers |-> {}] /\ answer = [r \in Readers |-> {}]

Forward ==
  /\ chain' \in [Positions -> Stage] /\ NotAfter(chain, chain')
  /\ UNCHANGED <<asked, answer>>

Ask(r) ==
  /\ asked[r] = {} /\ \E floor \in {chain, Nothing} : asked' = [asked EXCEPT ![r] = {floor}]
  /\ answer' = [answer EXCEPT ![r] = {}]
  /\ UNCHANGED chain

(* Several readers can be answered by one load; an unforced read may be     *)
(* answered on the spot.                                                    *)
Answer(R, s) ==
  /\ NotAfter(s, chain)
  /\ \A r \in R, floor \in UNION {asked[q] : q \in R} : NotAfter(floor, s)
  /\ asked' = [r \in Readers |-> IF r \in R THEN {} ELSE asked[r]]
  /\ answer' = [r \in Readers |-> IF r \in R THEN {s} ELSE answer[r]]
  /\ UNCHANGED chain

Fail(R) ==
  /\ asked' = [r \in Readers |-> IF r \in R THEN {} ELSE asked[r]]
  /\ UNCHANGED <<chain, answer>>

Next ==
  \/ Forward \/ \E r \in Readers : Ask(r)
  \/ \E R \in SUBSET Readers :
       Fail(R) \/ \E s \in UNION {answer'[r] : r \in R} : Answer(R, s)
Spec == Init /\ [][Next]_vars
=============================================================================
