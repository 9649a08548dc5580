------------------------------ MODULE Reviewer ------------------------------
(***************************************************************************)
(* The conversation that writes a lesson (matched-lesson.ts): the model      *)
(* proposes a condition on the entry of a trade, the condition is tested      *)
(* against the trades there were (lesson-match.ts), and one that catches too   *)
(* many of the other outcome goes back to be narrowed.  Afterwards the lesson  *)
(* is shown for the candidates it fits, and where none of our own fits, those  *)
(* of the community that our trades do not contradict.                         *)
(*                                                                            *)
(* A nullable value is a set of at most one element.                          *)
(***************************************************************************)
EXTENDS Integers, FiniteSets, SequencesExt

CONSTANTS
  Trades,      \* closed trades: [win, strategy, and what was known at the entry]
  Histories,   \* sets of trades the reviewer may be given
  Proposals,   \* MATCH lines: sequences of [field, op, value]
  Community,   \* lessons imported: [pinned, prefer, match, wins, losses]
  MinTrades,   \* MIN_OWN_TRADES: 8 in the code
  MinApplied,  \* MIN_OWN_APPLIED
  MaxRefines   \* MATCHED_LESSON_MAX_REFINES

VARIABLES
  self,      \* the trade under review
  history,
  phase,     \* "ask", "lesson", "none", "rejected" or "failed"
  refines,
  lesson     \* the accepted condition

vars == <<self, history, phase, refines, lesson>>

MIN_CONDITIONS == 2
MAX_CONDITIONS == 4
NumberFields == {"volatility", "holders"}
TextFields   == {"trend", "strategy"}
Ordered      == {"<", ">"}

---------------------------------------------------------------------------
(* parseMatch: known fields only, and no order on a text.                   *)
ParseMatch(conds) ==
  /\ Len(conds) \in MIN_CONDITIONS .. MAX_CONDITIONS
  /\ \A i \in DOMAIN conds :
       /\ conds[i].field \in NumberFields \cup TextFields
       /\ conds[i].field \in TextFields => conds[i].op \notin Ordered

(* What was not known at the entry meets no condition, not even "!=".       *)
Test(actual, op, value) ==
  \E a \in actual : CASE op = "<" -> a < value
                      [] op = ">" -> a > value
                      [] op = "=" -> a = value
                      [] op = "!=" -> a # value
MatchesRecord(conds, trade) ==
  \A i \in DOMAIN conds : Test(trade[conds[i].field], conds[i].op, conds[i].value)

BacktestMatch(conds, trades) ==
  LET hit == {t \in trades : MatchesRecord(conds, t)}
  IN  [wins |-> Cardinality({t \in hit : t.win}), losses |-> Cardinality({t \in hit : ~t.win})]
AcceptBacktest(win, bt) ==
  LET against == IF win THEN bt.losses ELSE bt.wins
      for     == IF win THEN bt.wins ELSE bt.losses
  IN  (against = 0 /\ for >= 1) \/ (against = 1 /\ for >= 3)

(* Mutant: tested against the trade itself only.                            *)
CheckAlone(conds, trade, trades) == ParseMatch(conds) /\ MatchesRecord(conds, trade)
CheckMatch(conds, trade, trades) ==
  /\ ParseMatch(conds) /\ MatchesRecord(conds, trade)
  /\ AcceptBacktest(trade.win, BacktestMatch(conds, trades \cup {trade}))

---------------------------------------------------------------------------
Init ==
  /\ history \in Histories /\ self \in Trades
  /\ phase = "ask" /\ refines = 0 /\ lesson = {}

(* The first reply is unusable: the caller asks again later.  An unusable   *)
(* refinement only drops the rule.                                          *)
Unusable ==
  /\ phase = "ask" /\ phase' = IF refines = 0 THEN "failed" ELSE "rejected"
  /\ UNCHANGED <<self, history, refines, lesson>>
NoRule ==
  /\ phase = "ask" /\ phase' = "none" /\ UNCHANGED <<self, history, refines, lesson>>
Propose ==
  /\ phase = "ask"
  /\ \E conds \in Proposals :
       IF CheckMatch(conds, self, history)
       THEN phase' = "lesson" /\ lesson' = {conds} /\ UNCHANGED refines
       ELSE /\ UNCHANGED lesson
            /\ IF refines >= MaxRefines THEN phase' = "rejected" /\ UNCHANGED refines
               ELSE refines' = refines + 1 /\ UNCHANGED phase
  /\ UNCHANGED <<self, history>>

Next == Unusable \/ NoRule \/ Propose
Spec == Init /\ [][Next]_vars

---------------------------------------------------------------------------
(* lessonsForCandidate: the strategy is not chosen yet, so its conditions   *)
(* are set aside and the first of them, if it names one, is shown instead.   *)
OnStrategy(cond) == cond.field = "strategy"
Shown(conds, candidate) ==
  LET rest == {i \in DOMAIN conds : ~OnStrategy(conds[i])}
  IN  /\ rest # {}
      /\ \A i \in rest : Test(candidate[conds[i].field], conds[i].op, conds[i].value)
ShownStrategy(conds) ==
  {conds[i].value : i \in {n \in DOMAIN conds :
     /\ OnStrategy(conds[n]) /\ conds[n].op = "="
     /\ \A k \in 1 .. n - 1 : ~OnStrategy(conds[k])}}
CandidateAsRecord(trade) == [trade EXCEPT !.strategy = {}]

---------------------------------------------------------------------------
(* The lessons of others (community-lessons.ts): pinning one makes it ours.  *)
IsCommunityBackup(l) == ~l.pinned
Total(trades) == FoldSet(LAMBDA t, sum : sum + t.pnl, 0, trades)

(* A caution claims that its bucket does worse than all our trades, a       *)
(* preference that it does better.  Deploys that cited it speak too.         *)
JudgeCommunityLesson(l, trades) ==
  LET Verdict(conds) ==
        LET hit    == {t \in trades : MatchesRecord(conds, t)}
            inside == Total(hit) * Cardinality(trades)
            all    == Total(trades) * Cardinality(hit)
        IN  IF ~ParseMatch(conds) THEN {"contradicted"}
            ELSE IF Cardinality(hit) < MinTrades \/ hit = trades THEN {}
            ELSE IF IF l.prefer THEN inside > all ELSE inside < all THEN {"supported"} ELSE {"contradicted"}
      against == IF l.prefer THEN l.losses ELSE l.wins
      for     == IF l.prefer THEN l.wins ELSE l.losses
      cited   == IF l.wins + l.losses < MinApplied \/ against = for THEN {}
                 ELSE IF against > for THEN {"contradicted"} ELSE {"supported"}
      said    == cited \cup UNION {Verdict(conds) : conds \in l.match}
  IN  IF "contradicted" \in said THEN "contradicted"
      ELSE IF "supported" \in said THEN "supported" ELSE "untested"

SelectCommunityLessons(ls, trades) ==
  {l \in ls : IsCommunityBackup(l) /\ JudgeCommunityLesson(l, trades) # "contradicted"}

(* What stands beside a candidate: every own lesson that fits it, pinned     *)
(* ones included; the community's only when none does.                       *)
SplitMatchedLessons(ls) == {l \in ls : ~IsCommunityBackup(l) /\ l.match # {}}
LessonLine(own, community, candidate) ==
  LET Fits(ls) == {l \in ls : \E conds \in l.match : Shown(conds, candidate)}
  IN  IF Fits(own) # {} THEN Fits(own) ELSE Fits(community)

---------------------------------------------------------------------------
(* The screener is shown a lesson for the candidate a past trade was, and     *)
(* for the strategy it took, only when that trade is one of those the lesson   *)
(* was tested on as its own: at most one of the other outcome, against three.  *)
(* One of the community it is shown only where that lesson is silent, and not  *)
(* when enough of our trades it would have spoken of did the other way.  A      *)
(* condition that excludes a strategy, or a second one on it, is tested but    *)
(* not shown (lesson-match.ts:234-238): of such a lesson nothing is promised.  *)
Plain(conds) ==
  LET on == {i \in DOMAIN conds : OnStrategy(conds[i])}
  IN  Cardinality(on) <= 1 /\ \A i \in on : conds[i].op = "="
Applies(conds, trade) ==
  /\ Shown(conds, CandidateAsRecord(trade))
  /\ \A s \in ShownStrategy(conds) : s \in trade.strategy
Ours == {[pinned |-> TRUE, prefer |-> self.win, match |-> {conds}, wins |-> 0, losses |-> 0] :
           conds \in lesson}
Beside(trade) ==
  LessonLine(SplitMatchedLessons(Community \cup Ours),
             SelectCommunityLessons(Community, history \cup {self}), CandidateAsRecord(trade))
Misled(l, conds) ==
  LET all     == history \cup {self}
      advised == {t \in all : Applies(conds, t)}
      inside  == Total(advised) * Cardinality(all)
      overall == Total(all) * Cardinality(advised)
  IN  /\ Cardinality(advised) >= MinTrades /\ advised # all
      /\ IF l.prefer THEN ~(inside > overall) ELSE ~(inside < overall)

AdviceIsNarrow ==
  /\ \A conds \in {c \in lesson : Plain(c)} :
       LET advised == {t \in history : Applies(conds, t)}
           against == {t \in advised : t.win # self.win}
       IN  against = {} \/ (Cardinality(against) = 1 /\ Cardinality(advised \cup {self}) >= 4)
  /\ \A t \in history : \A l \in {b \in Beside(t) : IsCommunityBackup(b)} :
       /\ \A own \in lesson : ~Shown(own, CandidateAsRecord(t))
       /\ \A conds \in {c \in l.match : Plain(c)} : ~Misled(l, conds)
=============================================================================
