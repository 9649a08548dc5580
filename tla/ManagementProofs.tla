-------------------------- MODULE ManagementProofs --------------------------
(***************************************************************************)
(* What holds of the position book for all positions, callers and faults.  *)
(***************************************************************************)
EXTENDS Management, SequenceTheorems, TLAPS

---------------------------------------------------------------------------
(* Typing                                                                  *)

LEMMA RecordTypes ==
  /\ NoRecord \in Record /\ Tracked \in Record
  /\ \A r \in Record, b \in BOOLEAN :
       MarkClosed(r) \in Record /\ MarkGhost(r) \in Record /\ Watched(r, b) \in Record
  BY DEF Record, NoRecord, Tracked, MarkClosed, MarkGhost, Watched

LEMMA BlankTypes ==
  /\ Blank \in [Positions -> Record] /\ AllStay \in [Positions -> Decision]
  /\ NoJob \in CloseJob
  BY DEF Blank, NoRecord, Record, AllStay, Decision, NoJob, CloseJob, JobStep

(* What the steps of a close_position call make of a job. *)
LEMMA JobTypes ==
  ASSUME NEW j \in CloseJob, NEW s \in JobStep, NEW r \in Record
  PROVE  /\ [j EXCEPT !.step = s] \in CloseJob
         /\ [j EXCEPT !.step = s, !.copy = r] \in CloseJob
         /\ j.position \subseteq Positions /\ j.copy \in Record /\ j.step \in JobStep
  BY DEF CloseJob

(* Appending a row keeps the others where they are. *)
LEMMA AppendRow ==
  ASSUME NEW h \in Seq(Row), NEW p \in Positions, NEW by \in {"close_position", "reconcile"}
  PROVE  LET g == AppendPerformance(h, p, by)
         IN  /\ g \in Seq(Row) /\ Len(g) = Len(h) + 1
             /\ \A i \in 1..Len(h) : g[i] = h[i]
             /\ g[Len(h) + 1].position = p /\ g[Len(h) + 1].by = by
  BY DEF AppendPerformance, Row

(* The same, over the indices the invariants speak of. *)
Grown(h, p, by, g) ==
  /\ DOMAIN g = DOMAIN h \cup {Len(h) + 1}
  /\ Len(h) + 1 \notin DOMAIN h
  /\ \A i \in DOMAIN h : g[i] = h[i]
  /\ g[Len(h) + 1].position = p /\ g[Len(h) + 1].by = by

LEMMA AppendGrows ==
  ASSUME NEW h \in Seq(Row), NEW p \in Positions, NEW by \in {"close_position", "reconcile"}
  PROVE  Grown(h, p, by, AppendPerformance(h, p, by))
<1> DEFINE g == AppendPerformance(h, p, by)
<1>1. /\ g \in Seq(Row) /\ Len(g) = Len(h) + 1
      /\ \A i \in 1..Len(h) : g[i] = h[i]
      /\ g[Len(h) + 1].position = p /\ g[Len(h) + 1].by = by
  BY DEF AppendPerformance, Row
<1> HIDE DEF g
<1>2. DOMAIN g = 1 .. Len(g) /\ DOMAIN h = 1 .. Len(h) /\ Len(h) \in Nat
  BY <1>1
<1>3. DOMAIN g = DOMAIN h \cup {Len(h) + 1} /\ Len(h) + 1 \notin DOMAIN h
  BY <1>1, <1>2
<1>4. Grown(h, p, by, g)
  BY <1>1, <1>2, <1>3 DEF Grown
<1> QED BY <1>4 DEF g

(* Settling a row changes neither whose row it is nor who wrote it. *)
LEMMA SettleKeepsRows ==
  ASSUME NEW h \in Seq(Row), NEW p \in Positions
  PROVE  LET g == SettleRow(h, p)
         IN  /\ g \in Seq(Row) /\ DOMAIN g = DOMAIN h
             /\ \A i \in DOMAIN h : g[i].position = h[i].position /\ g[i].by = h[i].by
<1> DEFINE g == SettleRow(h, p)
<1>1. \A i \in DOMAIN h : h[i] \in Row
  OBVIOUS
<1>2. DOMAIN g = DOMAIN h
  BY DEF SettleRow
<1>3. \A i \in DOMAIN h : /\ g[i] \in Row
                          /\ g[i].position = h[i].position /\ g[i].by = h[i].by
  BY <1>1 DEF SettleRow, Row
<1>4. g \in [1..Len(h) -> Row]
  BY <1>3 DEF SettleRow
<1>5. g \in Seq(Row)
  BY <1>4, SeqDef
<1> QED BY <1>2, <1>3, <1>5

LEMMA RowSetsType ==
  ASSUME NEW h \in Seq(Row)
  PROVE  WithRow(h) \subseteq Positions /\ Unsettled(h) \subseteq Positions
<1>1. \A i \in DOMAIN h : h[i] \in Row
  OBVIOUS
<1>2. \A r \in Row : r.position \in Positions
  BY DEF Row
<1> QED BY <1>1, <1>2 DEF WithRow, Unsettled

LEMMA TypeInit == ASSUME Init PROVE TypeOK
<1>1. /\ history \in Seq(Row) /\ book \in [Positions -> Record]
      /\ copies \in [Positions -> Record]
  BY BlankTypes DEF Init
<1>2. jobs \in [Actors -> CloseJob]
  BY BlankTypes DEF Init
<1>3. /\ plan \in [Positions -> Decision] /\ acts \in [Positions -> Decision]
      /\ copy \in Record /\ pcopy \in Record
  BY BlankTypes, RecordTypes DEF Init
<1> QED BY <1>1, <1>2, <1>3 DEF Init, TypeOK

LEMMA EndTickType ==
  ASSUME EndTick
  PROVE  /\ pc' = "idle" /\ view' = {} /\ copies' \in [Positions -> Record]
         /\ recorded' = {} /\ todo' = {} /\ plan' \in [Positions -> Decision]
         /\ armed' \in BOOLEAN /\ at' = {} /\ copy' \in Record
  BY BlankTypes, RecordTypes DEF EndTick

LEMMA TypeMgmt == ASSUME TypeOK, MgmtStep PROVE TypeOK'
<1> USE DEF TypeOK, outsideMgmt, chain, world, poller, files
<1> USE RecordTypes
<1>1. CASE ReadChain
  BY <1>1 DEF ReadChain, ChainViews
<1>2. CASE ReadTracked
  BY <1>2 DEF ReadTracked, Ghosts, InState
<1>3. CASE LoadRows
  BY <1>3, BlankTypes, RowSetsType DEF LoadRows
<1>4. CASE ReadGhosts
  BY <1>4 DEF ReadGhosts, Rowless, InState
<1>5. CASE AppendFails
  BY <1>5 DEF AppendFails
<1>6. CASE LoadUnsettled
  BY <1>6, RowSetsType DEF LoadUnsettled
<1>7. CASE NothingOpen
  BY <1>7, EndTickType DEF NothingOpen
<1>8. CASE StartForward
  BY <1>8 DEF StartForward
<1>9. CASE ReadRange
  BY <1>9 DEF ReadRange
<1>10. CASE MakePlans
  BY <1>10 DEF MakePlans
<1>11. CASE Exempt
  <2>1. PICK owned \in OwnedViews :
          plan' = [p \in Positions |-> IF p \in owned THEN "stay" ELSE plan[p]]
    BY <1>11, Zenon DEF Exempt
  <2>2. plan' \in [Positions -> Decision]
    BY <2>1 DEF Decision
  <2>3. todo' \subseteq Positions
    BY <1>11 DEF Exempt, InState
  <2> QED BY <1>11, <2>2, <2>3, BlankTypes DEF Exempt
<1>12. CASE ArmWrite
  <2>1. PICK p \in at : /\ book' = [book EXCEPT ![p] = Watched(copy, armed)]
                        /\ plan' = [plan EXCEPT ![p] = IF armed THEN "stay" ELSE @]
    BY <1>12, Zenon DEF ArmWrite
  <2>2. book' \in [Positions -> Record]
    BY <2>1
  <2>3. plan' \in [Positions -> Decision]
    BY <2>1 DEF Decision
  <2> QED BY <1>12, <2>2, <2>3 DEF ArmWrite
<1>13. CASE StartEscalations
  BY <1>13 DEF StartEscalations
<1>14. CASE AdvisorAnswers
  BY <1>14 DEF AdvisorAnswers, Decision
<1>15. CASE StartActions
  BY <1>15 DEF StartActions
<1>16. CASE ActionsDone
  BY <1>16, EndTickType DEF ActionsDone
<1>17. ASSUME NEW p \in Positions, CloseGhost(p) PROVE TypeOK'
  BY <1>17 DEF CloseGhost
<1>18. ASSUME NEW p \in Positions, AppendReconciled(p) PROVE TypeOK'
  BY <1>18, AppendRow DEF AppendReconciled
<1>19. ASSUME NEW p \in Positions, SettleFound(p) PROVE TypeOK'
  BY <1>19, SettleKeepsRows DEF SettleFound
<1>20. ASSUME NEW p \in Positions, SettleNotYet(p) PROVE TypeOK'
  BY <1>20 DEF SettleNotYet
<1>21. ASSUME NEW p \in Positions, TrackUntracked(p) PROVE TypeOK'
  BY <1>21 DEF TrackUntracked, Forward
<1>22. ASSUME NEW p \in Positions, WriteRange(p) PROVE TypeOK'
  BY <1>22 DEF WriteRange
<1>23. ASSUME NEW p \in Positions, ArmSkip(p) PROVE TypeOK'
  BY <1>23 DEF ArmSkip, Decision
<1>24. ASSUME NEW p \in Positions, ArmRead(p) PROVE TypeOK'
  BY <1>24 DEF ArmRead
<1>25. ASSUME NEW p \in Positions, DecideAlone(p) PROVE TypeOK'
  BY <1>25 DEF DecideAlone, Decision
<1>26. ASSUME NEW p \in Positions, AskAdvisor(p) PROVE TypeOK'
  BY <1>26 DEF AskAdvisor
<1>27. ASSUME NEW p \in Positions, SendClose(p) PROVE TypeOK'
  BY <1>27, BlankTypes DEF SendClose, StartClose, CloseJob, JobStep, Actors
<1> QED BY <1>1, <1>2, <1>3, <1>4, <1>5, <1>6, <1>7, <1>8, <1>9, <1>10, <1>11, <1>12, <1>13, <1>14, <1>15, <1>16, <1>17, <1>18, <1>19, <1>20, <1>21, <1>22, <1>23, <1>24, <1>25, <1>26, <1>27 DEF MgmtStep

LEMMA TypePoll == ASSUME TypeOK, PollStep PROVE TypeOK'
<1> USE DEF TypeOK, outsidePoller, chain, world, mgmt
<1> USE RecordTypes
<1>1. CASE PollReadChain
  BY <1>1 DEF PollReadChain, ChainViews
<1>2. CASE PollFilter
  BY <1>2 DEF PollFilter
<1>3. CASE PollDecide
  BY <1>3 DEF PollDecide
<1>4. CASE PollArmWrite
  BY <1>4 DEF PollArmWrite
<1>5. CASE PollDone
  BY <1>5 DEF PollDone
<1>6. ASSUME NEW p \in Positions, PollArmRead(p) PROVE TypeOK'
  BY <1>6 DEF PollArmRead, Decision
<1>7. ASSUME NEW p \in Positions, PollClose(p) PROVE TypeOK'
  BY <1>7, BlankTypes DEF PollClose, StartClose, CloseJob, JobStep, Decision, Actors
<1> QED BY <1>1, <1>2, <1>3, <1>4, <1>5, <1>6, <1>7 DEF PollStep

LEMMA TypeJob ==
  ASSUME TypeOK, NEW a \in Actors, Job(a)
  PROVE  TypeOK'
<1> USE DEF TypeOK, chain, world, mgmt, poller, files
<1> USE RecordTypes, BlankTypes
<1>s. {"idle", "mark", "marking", "record"} \subseteq JobStep
  BY DEF JobStep
<1>a. jobs[a] \in CloseJob
  OBVIOUS
<1>1. CASE CloseLands(a)
  BY <1>1, <1>a, <1>s, JobTypes DEF CloseLands
<1>2. CASE CloseFails(a)
  BY <1>2 DEF CloseFails
<1>3. CASE MarkRead(a)
  <2>1. PICK p \in jobs[a].position :
          jobs' = IF book[p].state = "none"
                  THEN [jobs EXCEPT ![a].step = "record"]
                  ELSE [jobs EXCEPT ![a].step = "marking", ![a].copy = book[p]]
    BY <1>3 DEF MarkRead
  <2>2. p \in Positions /\ book[p] \in Record
    BY <1>a, JobTypes, <1>s
  <2>3. [jobs[a] EXCEPT !.step = "record"] \in CloseJob
    BY <1>a, <1>s, JobTypes
  <2>4. [jobs[a] EXCEPT !.step = "marking", !.copy = book[p]] \in CloseJob
    BY <1>a, <1>s, <2>2, JobTypes
  <2>5. jobs' \in [Actors -> CloseJob]
    BY <2>1, <2>3, <2>4
  <2> QED BY <1>3, <2>5 DEF MarkRead
<1>4. CASE MarkWrite(a)
  <2>1. PICK p \in jobs[a].position : book' = [book EXCEPT ![p] = MarkClosed(jobs[a].copy)]
    BY <1>4 DEF MarkWrite
  <2>2. p \in Positions /\ jobs[a].copy \in Record
    BY <1>a, <1>s, JobTypes
  <2>3. book' \in [Positions -> Record]
    BY <2>1, <2>2
  <2>4. [jobs[a] EXCEPT !.step = "record", !.copy = NoRecord] \in CloseJob
    BY <1>a, <1>s, JobTypes
  <2>5. jobs' \in [Actors -> CloseJob]
    BY <1>4, <2>4 DEF MarkWrite
  <2> QED BY <1>4, <2>3, <2>5 DEF MarkWrite
<1>5. CASE RecordPerformance(a)
  <2>1. \A p \in jobs[a].position :
          AppendPerformance(history, p, "close_position") \in Seq(Row)
    BY <1>a, <1>s, JobTypes, AppendRow
  <2> QED BY <1>5, <2>1 DEF RecordPerformance
<1> QED BY <1>1, <1>2, <1>3, <1>4, <1>5 DEF Job

LEMMA TypeNext == ASSUME TypeOK, [Next]_vars PROVE TypeOK'
<1> USE DEF TypeOK
<1>1. CASE MgmtStep
  BY <1>1, TypeMgmt
<1>2. CASE PollStep
  BY <1>2, TypePoll
<1>3. ASSUME NEW a \in Actors, Job(a) PROVE TypeOK'
  BY <1>3, TypeJob
<1>4. CASE Crash
  BY <1>4, EndTickType, BlankTypes, RecordTypes DEF Crash, chain, files
<1>5. CASE FlipBounce
  BY <1>5 DEF FlipBounce, chain, files, mgmt, poller
<1>6. ASSUME NEW p \in Positions,
             \/ Deploy(p) \/ Track(p) \/ DashboardReconcile(p) \/ Settle(p)
             \/ OutsideClose(p) \/ MirrorOwnership(p)
      PROVE  TypeOK'
  BY <1>6, RecordTypes
     DEF Deploy, Track, DashboardReconcile, Settle, OutsideClose, MirrorOwnership,
         chain, files, world, mgmt, poller
<1>7. ASSUME NEW p \in Positions, NEW a \in Hands, HandClose(a, p) PROVE TypeOK'
  BY <1>7, RecordTypes DEF HandClose, StartClose, CloseJob, JobStep, Actors,
                           chain, files, world, mgmt, poller
<1>8. CASE UNCHANGED vars
  BY <1>8 DEF vars, chain, files, world, mgmt, poller
<1> QED BY <1>1, <1>2, <1>3, <1>4, <1>5, <1>6, <1>7, <1>8 DEF Next

(* Every variable keeps its type. *)
THEOREM TypeCorrect == Spec => []TypeOK
  BY TypeInit, TypeNext, PTL DEF Spec

---------------------------------------------------------------------------
(* One row per writer                                                      *)

(* Positions whose close has landed in a call that has yet to record it. *)
Hooked(a) == IF jobs[a].step \in {"mark", "marking", "record"} THEN jobs[a].position ELSE {}

(* The hook's rows are of positions that are gone, and so never closed      *)
(* again.                                                                  *)
HookRows ==
  \A i \in DOMAIN history :
    history[i].by = "close_position" => history[i].position \in Gone

(* A close that is still to be recorded is of a position that is gone, has  *)
(* no such row, and is in no other call.                                    *)
HookJobs ==
  \A a \in Actors : \A p \in Hooked(a) :
    /\ p \in Gone
    /\ \A i \in DOMAIN history : history[i].by = "close_position" => history[i].position # p
    /\ \A b \in Actors : p \in Hooked(b) => a = b

(* The tick knows every reconciled row when it looks for closes without     *)
(* one, and is about to write none a second time.                           *)
ReconcileRows ==
  \A i \in DOMAIN history : history[i].by = "reconcile" =>
    /\ pc = "ghosts" => history[i].position \in recorded
    /\ pc = "append" => history[i].position \notin todo

RowInv == TypeOK /\ RowPerWriter /\ HookRows /\ HookJobs /\ ReconcileRows

SameRows ==
  /\ DOMAIN history' = DOMAIN history
  /\ \A i \in DOMAIN history :
       history'[i].position = history[i].position /\ history'[i].by = history[i].by

(* A step that writes no row, revives no position and lands no close.       *)
LEMMA RowFrame ==
  ASSUME RowInv, TypeOK', SameRows, Gone \subseteq Gone',
         \A a \in Actors : Hooked(a)' \subseteq Hooked(a), ReconcileRows'
  PROVE  RowInv'
<1>1. RowPerWriter'
  BY DEF RowInv, RowPerWriter, SameRows
<1>2. HookRows'
  BY DEF RowInv, HookRows, SameRows
<1>3. HookJobs'
  <2> SUFFICES ASSUME NEW a \in Actors, NEW p \in Hooked(a)'
               PROVE  /\ p \in Gone'
                      /\ \A i \in DOMAIN history' :
                           history'[i].by = "close_position" => history'[i].position # p
                      /\ \A b \in Actors : p \in Hooked(b)' => a = b
    BY DEF HookJobs
  <2>1. p \in Hooked(a)
    OBVIOUS
  <2> QED BY <2>1 DEF RowInv, HookJobs, SameRows
<1> QED BY <1>1, <1>2, <1>3 DEF RowInv

(* The common case: nothing it speaks of changes. *)
LEMMA RowStutter ==
  ASSUME RowInv, TypeOK', UNCHANGED <<chain, history, jobs>>,
         pc' \notin {"ghosts", "append"} \/ (pc' = pc /\ recorded' = recorded /\ todo' \subseteq todo)
  PROVE  RowInv'
<1>1. SameRows
  BY DEF SameRows
<1>2. Gone' = Gone
  BY DEF Gone, chain
<1>3. \A a \in Actors : Hooked(a)' = Hooked(a)
  BY DEF Hooked
<1>4. ReconcileRows'
  BY DEF RowInv, ReconcileRows
<1> QED BY <1>1, <1>2, <1>3, <1>4, RowFrame

(* A step of one job that lands no close. *)
LEMMA JobFrame ==
  ASSUME RowInv, TypeOK', NEW a \in Actors, NEW j,
         jobs' = [jobs EXCEPT ![a] = j],
         j.step \in {"idle", "sent"} \/
           (j.position = jobs[a].position /\ jobs[a].step \in {"mark", "marking"}),
         UNCHANGED <<history, mgmt>>, Gone \subseteq Gone'
  PROVE  RowInv'
<1>1. SameRows
  BY DEF SameRows
<1>2. \A b \in Actors : jobs'[b] = IF b = a THEN j ELSE jobs[b]
  BY DEF RowInv, TypeOK
<1>3. \A b \in Actors : Hooked(b)' \subseteq Hooked(b)
  BY <1>2 DEF Hooked
<1>4. ReconcileRows'
  BY DEF RowInv, ReconcileRows, mgmt
<1> QED BY <1>1, <1>3, <1>4, RowFrame

LEMMA RowInit == ASSUME Init PROVE RowInv
<1>1. TypeOK
  BY TypeInit
<1>2. DOMAIN history = {}
  BY DEF Init
<1>3. \A a \in Actors : Hooked(a) = {}
  BY DEF Init, Hooked, NoJob
<1> QED BY <1>1, <1>2, <1>3 DEF RowInv, RowPerWriter, HookRows, HookJobs, ReconcileRows

(* The reconcile's own row: the position is one it still had to do, so it   *)
(* has no row of this kind, and it is struck off.                           *)
LEMMA RowReconciled ==
  ASSUME RowInv, TypeOK', NEW p \in Positions, AppendReconciled(p)
  PROVE  RowInv'
<1>s. history \in Seq(Row)
  BY DEF RowInv, TypeOK
<1>1. /\ pc = "append" /\ pc' = "append" /\ p \in todo /\ todo' = todo \ {p}
      /\ history' = AppendPerformance(history, p, "reconcile")
      /\ Gone' = Gone /\ jobs' = jobs
  BY DEF AppendReconciled, outsideMgmt, chain, Gone
<1>2. Grown(history, p, "reconcile", history')
  BY <1>1, <1>s, AppendGrows
<1>3. \A i \in DOMAIN history : history[i].by = "reconcile" => history[i].position # p
  BY <1>1 DEF RowInv, ReconcileRows
<1>4. RowPerWriter'
  BY <1>2, <1>3 DEF RowInv, RowPerWriter, Grown
<1>5. HookRows'
  BY <1>1, <1>2 DEF RowInv, HookRows, Grown
<1>6. HookJobs'
  BY <1>1, <1>2 DEF RowInv, HookJobs, Hooked, Grown
<1>7. ReconcileRows'
  BY <1>1, <1>2 DEF RowInv, ReconcileRows, Grown
<1> QED BY <1>4, <1>5, <1>6, <1>7 DEF RowInv

LEMMA RowMgmt == ASSUME RowInv, TypeOK', MgmtStep PROVE RowInv'
<1> USE DEF outsideMgmt, chain, files, world, poller
<1>1. CASE ReadChain
  BY <1>1, RowStutter DEF ReadChain
<1>2. CASE ReadTracked
  BY <1>2, RowStutter DEF ReadTracked
<1>3. CASE LoadRows
  <2>1. SameRows /\ Gone' = Gone /\ \A a \in Actors : Hooked(a)' = Hooked(a)
    BY <1>3 DEF LoadRows, SameRows, Gone, Hooked
  <2>2. ReconcileRows'
    BY <1>3 DEF LoadRows, ReconcileRows, WithRow
  <2> QED BY <2>1, <2>2, RowFrame
<1>4. CASE ReadGhosts
  <2>1. SameRows /\ Gone' = Gone /\ \A a \in Actors : Hooked(a)' = Hooked(a)
    BY <1>4 DEF ReadGhosts, SameRows, Gone, Hooked
  <2>2. ReconcileRows'
    BY <1>4 DEF RowInv, ReadGhosts, ReconcileRows, Rowless
  <2> QED BY <2>1, <2>2, RowFrame
<1>5. CASE AppendFails
  BY <1>5, RowStutter DEF AppendFails
<1>6. CASE LoadUnsettled
  BY <1>6, RowStutter DEF LoadUnsettled
<1>7. CASE NothingOpen
  BY <1>7, RowStutter DEF NothingOpen, EndTick
<1>8. CASE StartForward
  BY <1>8, RowStutter DEF StartForward
<1>9. CASE ReadRange
  BY <1>9, RowStutter DEF ReadRange
<1>10. CASE MakePlans
  BY <1>10, RowStutter DEF MakePlans
<1>11. CASE Exempt
  BY <1>11, RowStutter DEF Exempt
<1>12. CASE ArmWrite
  BY <1>12, RowStutter DEF ArmWrite
<1>13. CASE StartEscalations
  BY <1>13, RowStutter DEF StartEscalations
<1>14. CASE AdvisorAnswers
  BY <1>14, RowStutter DEF AdvisorAnswers
<1>15. CASE StartActions
  BY <1>15, RowStutter DEF StartActions
<1>16. CASE ActionsDone
  BY <1>16, RowStutter DEF ActionsDone, EndTick
<1>17. ASSUME NEW p \in Positions, CloseGhost(p) PROVE RowInv'
  BY <1>17, RowStutter DEF CloseGhost
<1>18. ASSUME NEW p \in Positions, AppendReconciled(p) PROVE RowInv'
  BY <1>18, RowReconciled
<1>19. ASSUME NEW p \in Positions, SettleFound(p) PROVE RowInv'
  <2>1. /\ history' = SettleRow(history, p) /\ pc = "settle" /\ pc' = "settle"
        /\ Gone' = Gone /\ \A a \in Actors : Hooked(a)' = Hooked(a)
    BY <1>19 DEF SettleFound, Gone, Hooked
  <2>2. SameRows
    BY <2>1, SettleKeepsRows DEF RowInv, TypeOK, SameRows
  <2>3. ReconcileRows'
    BY <2>1 DEF ReconcileRows
  <2> QED BY <2>1, <2>2, <2>3, RowFrame
<1>20. ASSUME NEW p \in Positions, SettleNotYet(p) PROVE RowInv'
  BY <1>20, RowStutter DEF SettleNotYet
<1>21. ASSUME NEW p \in Positions, TrackUntracked(p) PROVE RowInv'
  BY <1>21, RowStutter DEF TrackUntracked
<1>22. ASSUME NEW p \in Positions, WriteRange(p) PROVE RowInv'
  BY <1>22, RowStutter DEF WriteRange
<1>23. ASSUME NEW p \in Positions, ArmSkip(p) PROVE RowInv'
  BY <1>23, RowStutter DEF ArmSkip
<1>24. ASSUME NEW p \in Positions, ArmRead(p) PROVE RowInv'
  BY <1>24, RowStutter DEF ArmRead
<1>25. ASSUME NEW p \in Positions, DecideAlone(p) PROVE RowInv'
  BY <1>25, RowStutter DEF DecideAlone
<1>26. ASSUME NEW p \in Positions, AskAdvisor(p) PROVE RowInv'
  BY <1>26, RowStutter DEF AskAdvisor
<1>27. ASSUME NEW p \in Positions, SendClose(p) PROVE RowInv'
  <2>1. /\ pc = "act" /\ pc' = "act" /\ history' = history /\ Gone' = Gone
        /\ StartClose("management", p, plan[p])
    BY <1>27 DEF SendClose, Gone
  <2>2. \A a \in Actors : Hooked(a)' \subseteq Hooked(a)
    BY <2>1 DEF StartClose, Hooked, RowInv, TypeOK
  <2> QED BY <2>1, <2>2, RowFrame DEF SameRows, ReconcileRows
<1> QED
  BY <1>1, <1>2, <1>3, <1>4, <1>5, <1>6, <1>7, <1>8, <1>9, <1>10, <1>11, <1>12, <1>13,
     <1>14, <1>15, <1>16, <1>17, <1>18, <1>19, <1>20, <1>21, <1>22, <1>23, <1>24, <1>25,
     <1>26, <1>27, Zenon DEF MgmtStep

LEMMA RowPoll == ASSUME RowInv, TypeOK', PollStep PROVE RowInv'
<1> USE DEF outsidePoller, mgmt, chain, RowInv, ReconcileRows
<1>1. CASE PollReadChain \/ PollFilter \/ PollDecide \/ PollArmWrite \/ PollDone
  BY <1>1, RowStutter DEF PollReadChain, PollFilter, PollDecide, PollArmWrite, PollDone
<1>2. ASSUME NEW p \in Positions, PollArmRead(p) PROVE RowInv'
  BY <1>2, RowStutter DEF PollArmRead
<1>3. ASSUME NEW p \in Positions, PollClose(p) PROVE RowInv'
  <2>1. Gone' = Gone
    BY <1>3 DEF PollClose, Gone
  <2> QED BY <1>3, <2>1, JobFrame DEF PollClose, StartClose, Actors
<1> QED BY <1>1, <1>2, <1>3 DEF PollStep

(* A close lands on positions that were live: no call had closed them and   *)
(* no hook had recorded them before.                                        *)
LEMMA RowLands == ASSUME RowInv, TypeOK', NEW a \in Actors, CloseLands(a) PROVE RowInv'
<1>1. /\ jobs[a].step = "sent" /\ jobs[a].position \subseteq live
      /\ Gone' = Gone \cup jobs[a].position
      /\ jobs' = [jobs EXCEPT ![a].step = "mark"]
      /\ UNCHANGED <<history, mgmt>>
  BY DEF CloseLands, Gone, files, RowInv, TypeOK
<1>2. jobs[a] \in CloseJob
  BY DEF RowInv, TypeOK
<1>3. Hooked(a)' = jobs[a].position /\ Hooked(a) = {}
  BY <1>1, <1>2 DEF Hooked, CloseJob, RowInv, TypeOK
<1>4. \A b \in Actors \ {a} : Hooked(b)' = Hooked(b)
  BY <1>1 DEF Hooked, RowInv, TypeOK
<1>5. \A b \in Actors : Hooked(b) \subseteq Gone
  BY DEF RowInv, HookJobs
<1>6. jobs[a].position \cap Gone = {}
  BY <1>1 DEF Gone
<1>7. HookJobs'
  <2> SUFFICES ASSUME NEW b \in Actors, NEW p \in Hooked(b)'
               PROVE  /\ p \in Gone'
                      /\ \A i \in DOMAIN history' :
                           history'[i].by = "close_position" => history'[i].position # p
                      /\ \A c \in Actors : p \in Hooked(c)' => b = c
    BY DEF HookJobs
  <2>1. CASE b = a
    BY <1>1, <1>3, <1>4, <1>5, <1>6, <2>1 DEF RowInv, HookRows
  <2>2. CASE b # a
    BY <1>1, <1>3, <1>4, <1>5, <1>6, <2>2 DEF RowInv, HookJobs
  <2> QED BY <2>1, <2>2
<1>8. HookRows'
  BY <1>1 DEF RowInv, HookRows
<1>9. RowPerWriter' /\ ReconcileRows'
  BY <1>1 DEF RowInv, RowPerWriter, ReconcileRows, mgmt
<1> QED BY <1>7, <1>8, <1>9 DEF RowInv

(* The hook's row: its position is in no other call and had no such row.    *)
LEMMA RowRecorded ==
  ASSUME RowInv, TypeOK', NEW a \in Actors, RecordPerformance(a)
  PROVE  RowInv'
<1>s. history \in Seq(Row)
  BY DEF RowInv, TypeOK
<1>1. /\ jobs[a].step = "record" /\ jobs' = [jobs EXCEPT ![a] = NoJob]
      /\ Gone' = Gone /\ UNCHANGED mgmt
  BY DEF RecordPerformance, chain, Gone
<1>2. Hooked(a)' = {} /\ \A b \in Actors \ {a} : Hooked(b)' = Hooked(b)
  BY <1>1 DEF Hooked, NoJob, RowInv, TypeOK
<1>3. CASE UNCHANGED history
  BY <1>1, <1>2, <1>3, RowFrame DEF SameRows, RowInv, ReconcileRows, mgmt
<1>4. ASSUME NEW p \in jobs[a].position,
             history' = AppendPerformance(history, p, "close_position")
      PROVE  RowInv'
  <2>1. p \in Hooked(a) /\ p \in Positions
    BY <1>1, <1>4 DEF Hooked, RowInv, TypeOK, CloseJob
  <2>2. Grown(history, p, "close_position", history')
    BY <1>4, <1>s, <2>1, AppendGrows
  <2>3. /\ p \in Gone /\ \A b \in Actors : p \in Hooked(b) => a = b
        /\ \A i \in DOMAIN history : history[i].by = "close_position" => history[i].position # p
    BY <2>1 DEF RowInv, HookJobs
  <2>4. RowPerWriter'
    BY <2>2, <2>3 DEF Grown, RowInv, RowPerWriter
  <2>5. HookRows'
    BY <1>1, <2>2, <2>3 DEF Grown, RowInv, HookRows
  <2>6. HookJobs'
    BY <1>1, <1>2, <2>2, <2>3 DEF Grown, RowInv, HookJobs
  <2>7. ReconcileRows'
    BY <1>1, <2>2 DEF Grown, RowInv, ReconcileRows, mgmt
  <2> QED BY <2>4, <2>5, <2>6, <2>7 DEF RowInv
<1> QED BY <1>3, <1>4 DEF RecordPerformance

LEMMA RowJob == ASSUME RowInv, TypeOK', NEW a \in Actors, Job(a) PROVE RowInv'
<1>a. jobs[a] \in CloseJob
  BY DEF RowInv, TypeOK
<1>1. CASE CloseLands(a)
  BY <1>1, RowLands
<1>2. CASE CloseFails(a)
  <2>1. Gone \subseteq Gone' /\ UNCHANGED <<history, mgmt>>
    BY <1>2 DEF CloseFails, Gone, files
  <2> QED BY <1>2, <2>1, JobFrame DEF CloseFails, NoJob
<1>3. CASE MarkRead(a)
  <2>1. Gone' = Gone /\ UNCHANGED <<history, mgmt>> /\ jobs[a].step = "mark"
    BY <1>3 DEF MarkRead, Gone, files, chain
  <2>2. PICK r : \/ jobs' = [jobs EXCEPT ![a] = [jobs[a] EXCEPT !.step = "record"]]
                 \/ jobs' = [jobs EXCEPT ![a] = [jobs[a] EXCEPT !.step = "marking", !.copy = r]]
    BY <1>3 DEF MarkRead, RowInv, TypeOK
  <2> QED BY <1>a, <2>1, <2>2, JobFrame DEF CloseJob
<1>4. CASE MarkWrite(a)
  <2>1. Gone' = Gone /\ UNCHANGED <<history, mgmt>> /\ jobs[a].step = "marking"
    BY <1>4 DEF MarkWrite, Gone, chain
  <2>2. jobs' = [jobs EXCEPT ![a] = [jobs[a] EXCEPT !.step = "record", !.copy = NoRecord]]
    BY <1>4 DEF MarkWrite, RowInv, TypeOK
  <2> QED BY <1>a, <2>1, <2>2, JobFrame DEF CloseJob
<1>5. CASE RecordPerformance(a)
  BY <1>5, RowRecorded
<1> QED BY <1>1, <1>2, <1>3, <1>4, <1>5 DEF Job

LEMMA RowNext == ASSUME RowInv, [Next]_vars PROVE RowInv'
<1>t. TypeOK'
  BY TypeNext DEF RowInv
<1>1. CASE MgmtStep
  BY <1>1, <1>t, RowMgmt
<1>2. CASE PollStep
  BY <1>2, <1>t, RowPoll
<1>3. ASSUME NEW a \in Actors, Job(a) PROVE RowInv'
  BY <1>3, <1>t, RowJob
<1>4. CASE Crash
  <2>1. SameRows /\ Gone' = Gone /\ \A a \in Actors : Hooked(a)' = {}
    BY <1>4 DEF Crash, SameRows, Gone, Hooked, NoJob, chain, files
  <2>2. ReconcileRows'
    BY <1>4 DEF Crash, EndTick, ReconcileRows
  <2> QED BY <1>t, <2>1, <2>2, RowFrame
<1>5. CASE FlipBounce
  BY <1>5, <1>t, RowStutter DEF FlipBounce, files, mgmt
<1>6. ASSUME NEW p \in Positions,
             Track(p) \/ DashboardReconcile(p) \/ MirrorOwnership(p)
      PROVE  RowInv'
  BY <1>6, <1>t, RowStutter
    DEF Track, DashboardReconcile, MirrorOwnership, files, mgmt, RowInv, ReconcileRows
<1>7. ASSUME NEW p \in Positions, Deploy(p) \/ Settle(p) \/ OutsideClose(p) PROVE RowInv'
  <2>1. Gone \subseteq Gone' /\ UNCHANGED <<history, jobs, mgmt>>
    BY <1>7 DEF Deploy, Settle, OutsideClose, Gone, files, RowInv, TypeOK
  <2> QED BY <1>t, <2>1, RowFrame DEF SameRows, Hooked, RowInv, ReconcileRows, mgmt
<1>8. ASSUME NEW p \in Positions, NEW a \in Hands, HandClose(a, p) PROVE RowInv'
  <2>1. Gone' = Gone /\ UNCHANGED <<history, mgmt>>
    BY <1>8 DEF HandClose, Gone, chain, files
  <2> QED BY <1>8, <1>t, <2>1, JobFrame DEF HandClose, StartClose, Actors
<1>9. CASE UNCHANGED vars
  BY <1>9, <1>t, RowStutter DEF vars, files, mgmt, RowInv, ReconcileRows
<1> QED BY <1>1, <1>2, <1>3, <1>4, <1>5, <1>6, <1>7, <1>8, <1>9 DEF Next

(* A position never has two History rows from one writer, whoever closes it *)
(* and wherever the process is killed.                                      *)
THEOREM OneRowPerWriter == Spec => []RowPerWriter
<1>1. RowInv => RowPerWriter
  BY DEF RowInv
<1> QED BY <1>1, RowInit, RowNext, PTL DEF Spec

---------------------------------------------------------------------------
(* Closed records and rows are of positions that are gone                  *)

LEMMA RecordStates ==
  /\ NoRecord.state = "none" /\ Tracked.state = "open"
  /\ \A p \in Positions : Blank[p].state = "none"
  /\ \A r \in Record, b \in BOOLEAN :
       MarkClosed(r).state = "closed" /\ MarkGhost(r).state = "closed" /\ Watched(r, b).state = r.state
  BY DEF Record, NoRecord, Tracked, Blank, MarkClosed, MarkGhost, Watched

(* What a record may say of a position: it is there only once the position  *)
(* is, and is closed only when the position is gone.                        *)
Honest(s, p) == (s = "closed" => p \in Gone) /\ (s # "none" => p \in deployed)

HonestBook   == \A p \in Positions : Honest(book[p].state, p)
HonestCopies == \A p \in Positions : Honest(copies[p].state, p)
HonestCopy   == \A p \in at : Honest(copy.state, p)
HonestPoller == \A p \in pat : Honest(pcopy.state, p)
HonestJobs   == \A a \in Actors : \A p \in jobs[a].position : Honest(jobs[a].copy.state, p)
RowsGone     == \A i \in DOMAIN history : history[i].position \in Gone

(* What the tick is about to close is gone; what it is about to track was   *)
(* deployed.                                                                *)
TickAims ==
  /\ pc = "tracked" => live \subseteq view
  /\ pc \in {"reverse", "append"} => todo \subseteq Gone
  /\ pc = "forward" => todo \subseteq deployed

GoneInv ==
  /\ RowInv /\ HonestBook /\ HonestCopies /\ HonestCopy /\ HonestPoller /\ HonestJobs
  /\ RowsGone /\ TickAims

(* No position comes back, so what is left alone stays honest. *)
LEMMA GoneGrows ==
  ASSUME TypeOK, [Next]_vars PROVE Gone \subseteq Gone' /\ deployed \subseteq deployed'
<1> USE DEF Gone, TypeOK, chain, outsideMgmt, outsidePoller
<1>1. CASE MgmtStep
  BY <1>1 DEF MgmtStep, ReadChain, ReadTracked, LoadRows, ReadGhosts, AppendFails, LoadUnsettled,
     NothingOpen, StartForward, ReadRange, MakePlans, Exempt, ArmWrite, StartEscalations,
     AdvisorAnswers, StartActions, ActionsDone, CloseGhost, AppendReconciled, SettleFound,
     SettleNotYet, TrackUntracked, WriteRange, ArmSkip, ArmRead, DecideAlone, AskAdvisor, SendClose
<1>2. CASE PollStep
  BY <1>2 DEF PollStep, PollReadChain, PollFilter, PollDecide, PollArmWrite, PollDone,
     PollArmRead, PollClose
<1>3. ASSUME NEW a \in Actors, Job(a) PROVE Gone \subseteq Gone' /\ deployed \subseteq deployed'
  BY <1>3 DEF Job, CloseLands, CloseFails, MarkRead, MarkWrite, RecordPerformance
<1>4. CASE Crash \/ FlipBounce \/ UNCHANGED vars
  BY <1>4 DEF Crash, FlipBounce, vars
<1>5. ASSUME NEW p \in Positions,
             \/ Deploy(p) \/ Track(p) \/ DashboardReconcile(p) \/ Settle(p)
             \/ OutsideClose(p) \/ MirrorOwnership(p)
             \/ \E a \in Hands : HandClose(a, p)
      PROVE  Gone \subseteq Gone' /\ deployed \subseteq deployed'
  BY <1>5 DEF Deploy, Track, DashboardReconcile, Settle, OutsideClose, MirrorOwnership, HandClose
<1> QED BY <1>1, <1>2, <1>3, <1>4, <1>5 DEF Next

LEMMA GoneFrame ==
  ASSUME GoneInv, Gone \subseteq Gone', deployed \subseteq deployed'
  PROVE  /\ UNCHANGED book => HonestBook'
         /\ UNCHANGED copies => HonestCopies'
         /\ UNCHANGED <<at, copy>> => HonestCopy'
         /\ UNCHANGED <<pat, pcopy>> => HonestPoller'
         /\ UNCHANGED jobs => HonestJobs'
         /\ UNCHANGED history => RowsGone'
  BY DEF GoneInv, HonestBook, HonestCopies, HonestCopy, HonestPoller, HonestJobs, RowsGone, Honest

LEMMA GoneInit == ASSUME Init PROVE GoneInv
<1>1. RowInv
  BY RowInit
<1>2. /\ \A p \in Positions : book[p].state = "none" /\ copies[p].state = "none"
      /\ at = {} /\ pat = {} /\ DOMAIN history = {} /\ pc = "idle"
      /\ \A a \in Actors : jobs[a].position = {}
  BY RecordStates DEF Init, NoJob
<1> QED
  BY <1>1, <1>2 DEF GoneInv, HonestBook, HonestCopies, HonestCopy, HonestPoller, HonestJobs,
     RowsGone, TickAims, Honest

(* Every record the tick writes is one it read, so as honest as the book.   *)
LEMMA GoneMgmt ==
  ASSUME GoneInv, "read_lag" \notin Faults, RowInv', MgmtStep PROVE GoneInv'
<1>g. Gone \subseteq Gone' /\ deployed \subseteq deployed' /\ TypeOK /\ TypeOK'
  BY GoneGrows DEF GoneInv, RowInv, Next
<1>b. /\ \A p \in Positions : book[p] \in Record /\ copies[p] \in Record
      /\ copy \in Record /\ at \subseteq Positions
  BY <1>g DEF TypeOK
<1> USE <1>g, GoneFrame
<1> USE DEF GoneInv, outsideMgmt, files, poller, chain, TickAims
<1>1. CASE ReadChain
  <2>1. live' \subseteq view'
    BY <1>1 DEF ReadChain, ChainViews
  <2> QED BY <1>1, <2>1 DEF ReadChain
<1>2. CASE ReadTracked
  <2>1. HonestCopies'
    BY <1>2 DEF ReadTracked, HonestCopies, HonestBook, Honest
  <2>2. todo' \subseteq Gone'
    BY <1>2 DEF ReadTracked, Ghosts, InState, HonestBook, Honest, Gone
  <2> QED BY <1>2, <2>1, <2>2 DEF ReadTracked
<1>3. CASE LoadRows
  <2>1. HonestCopies'
    BY <1>3, RecordStates DEF LoadRows, HonestCopies, Honest
  <2> QED BY <1>3, <2>1 DEF LoadRows
<1>4. CASE ReadGhosts
  <2>1. todo' \subseteq Gone'
    BY <1>4 DEF ReadGhosts, Rowless, InState, HonestBook, Honest
  <2> QED BY <1>4, <2>1 DEF ReadGhosts
<1>5. CASE AppendFails \/ LoadUnsettled
  BY <1>5 DEF AppendFails, LoadUnsettled
<1>6. CASE NothingOpen \/ ActionsDone
  <2>1. HonestCopies' /\ HonestCopy'
    BY <1>6, RecordStates DEF NothingOpen, ActionsDone, EndTick, HonestCopies, HonestCopy, Honest
  <2> QED BY <1>6, <2>1 DEF NothingOpen, ActionsDone, EndTick
<1>7. CASE StartForward
  BY <1>7 DEF StartForward, TypeOK
<1>8. CASE ReadRange
  <2>1. HonestCopies'
    BY <1>8 DEF ReadRange, HonestCopies, HonestBook, Honest
  <2> QED BY <1>8, <2>1 DEF ReadRange
<1>9. CASE MakePlans
  <2>1. HonestCopies'
    BY <1>9 DEF MakePlans, HonestCopies, HonestBook, Honest
  <2> QED BY <1>9, <2>1 DEF MakePlans
<1>10. CASE Exempt
  <2>1. HonestCopies'
    BY <1>10, RecordStates DEF Exempt, HonestCopies, Honest
  <2> QED BY <1>10, <2>1 DEF Exempt
<1>11. CASE ArmWrite
  <2>1. PICK p \in at : book' = [book EXCEPT ![p] = Watched(copy, armed)]
    BY <1>11, Zenon DEF ArmWrite
  <2>2. Watched(copy, armed).state = copy.state
    BY <1>b, RecordStates DEF TypeOK
  <2>3. HonestBook'
    BY <2>1, <2>2, <1>b DEF HonestBook, HonestCopy, Honest, TypeOK
  <2>4. HonestCopy'
    BY <1>11 DEF ArmWrite, HonestCopy
  <2> QED BY <1>11, <2>3, <2>4 DEF ArmWrite
<1>12. CASE StartEscalations \/ StartActions
  BY <1>12 DEF StartEscalations, StartActions
<1>13. CASE AdvisorAnswers
  <2>1. PICK p \in at : book' = IF copy.state = "none" THEN book ELSE [book EXCEPT ![p] = copy]
    BY <1>13, Zenon DEF AdvisorAnswers
  <2>2. HonestBook'
    BY <2>1, <1>b DEF HonestBook, HonestCopy, Honest, TypeOK
  <2>3. HonestCopy'
    BY <1>13 DEF AdvisorAnswers, HonestCopy
  <2> QED BY <1>13, <2>2, <2>3 DEF AdvisorAnswers
<1>14. ASSUME NEW p \in Positions, CloseGhost(p) PROVE GoneInv'
  <2>1. p \in Gone /\ MarkGhost(copies[p]).state = "closed"
    BY <1>14, <1>b, RecordStates DEF CloseGhost
  <2>2. HonestBook'
    BY <1>14, <2>1 DEF CloseGhost, HonestBook, Honest, TypeOK, Gone
  <2> QED BY <1>14, <2>2 DEF CloseGhost
<1>15. ASSUME NEW p \in Positions, AppendReconciled(p) PROVE GoneInv'
  <2>1. Grown(history, p, "reconcile", history')
    BY <1>15, AppendGrows DEF AppendReconciled, TypeOK
  <2>2. RowsGone'
    BY <1>15, <2>1 DEF AppendReconciled, RowsGone, Grown
  <2> QED BY <1>15, <2>2 DEF AppendReconciled
<1>16. ASSUME NEW p \in Positions, SettleFound(p) PROVE GoneInv'
  <2>1. /\ DOMAIN history' = DOMAIN history
        /\ \A i \in DOMAIN history : history'[i].position = history[i].position
    BY <1>16, SettleKeepsRows DEF SettleFound, TypeOK
  <2>2. RowsGone'
    BY <2>1 DEF RowsGone
  <2> QED BY <1>16, <2>2 DEF SettleFound
<1>17. ASSUME NEW p \in Positions, SettleNotYet(p) \/ ArmSkip(p) \/ DecideAlone(p) PROVE GoneInv'
  BY <1>17 DEF SettleNotYet, ArmSkip, DecideAlone
<1>18. ASSUME NEW p \in Positions, TrackUntracked(p) PROVE GoneInv'
  <2>1. HonestBook'
    BY <1>18, RecordStates DEF TrackUntracked, Forward, HonestBook, Honest, TypeOK
  <2> QED BY <1>18, <2>1 DEF TrackUntracked
<1>19. ASSUME NEW p \in Positions, WriteRange(p) PROVE GoneInv'
  <2>1. HonestBook'
    BY <1>19 DEF WriteRange, HonestBook, HonestCopies, Honest, TypeOK
  <2> QED BY <1>19, <2>1 DEF WriteRange
<1>20. ASSUME NEW p \in Positions, ArmRead(p) \/ AskAdvisor(p) PROVE GoneInv'
  <2>1. HonestCopy'
    BY <1>20 DEF ArmRead, AskAdvisor, HonestBook, HonestCopy, Honest
  <2> QED BY <1>20, <2>1 DEF ArmRead, AskAdvisor
<1>21. ASSUME NEW p \in Positions, SendClose(p) PROVE GoneInv'
  <2>1. HonestJobs'
    BY <1>21, RecordStates DEF SendClose, StartClose, HonestJobs, Honest, TypeOK
  <2> QED BY <1>21, <2>1 DEF SendClose
<1> QED
  BY <1>1, <1>2, <1>3, <1>4, <1>5, <1>6, <1>7, <1>8, <1>9, <1>10, <1>11, <1>12, <1>13,
     <1>14, <1>15, <1>16, <1>17, <1>18, <1>19, <1>20, <1>21, Zenon DEF MgmtStep

LEMMA GonePoll == ASSUME GoneInv, RowInv', PollStep PROVE GoneInv'
<1>g. Gone \subseteq Gone' /\ deployed \subseteq deployed' /\ TypeOK /\ TypeOK'
  BY GoneGrows DEF GoneInv, RowInv, Next
<1> USE <1>g, GoneFrame
<1> USE DEF GoneInv, outsidePoller, mgmt, chain, TickAims
<1>1. CASE PollReadChain \/ PollFilter \/ PollDecide \/ PollDone
  BY <1>1 DEF PollReadChain, PollFilter, PollDecide, PollDone
<1>2. CASE PollArmWrite
  <2>1. PICK p \in pat : book' = [book EXCEPT ![p] = Watched(pcopy, TRUE)]
    BY <1>2, Zenon DEF PollArmWrite
  <2>2. Watched(pcopy, TRUE).state = pcopy.state
    BY RecordStates DEF TypeOK
  <2>3. HonestBook'
    BY <2>1, <2>2 DEF HonestBook, HonestPoller, Honest, TypeOK
  <2>4. HonestPoller'
    BY <1>2 DEF PollArmWrite, HonestPoller
  <2> QED BY <1>2, <2>3, <2>4 DEF PollArmWrite
<1>3. ASSUME NEW p \in Positions, PollArmRead(p) PROVE GoneInv'
  <2>1. HonestPoller'
    BY <1>3 DEF PollArmRead, HonestBook, HonestPoller, Honest
  <2> QED BY <1>3, <2>1 DEF PollArmRead
<1>4. ASSUME NEW p \in Positions, PollClose(p) PROVE GoneInv'
  <2>1. HonestJobs'
    BY <1>4, RecordStates DEF PollClose, StartClose, HonestJobs, Honest, TypeOK
  <2> QED BY <1>4, <2>1 DEF PollClose
<1> QED BY <1>1, <1>2, <1>3, <1>4 DEF PollStep

(* A call closes the record of, and gives a row to, the position whose      *)
(* close has landed, which HookJobs knows to be gone.                       *)
LEMMA GoneJob == ASSUME GoneInv, RowInv', NEW a \in Actors, Job(a) PROVE GoneInv'
<1>g. Gone \subseteq Gone' /\ deployed \subseteq deployed' /\ TypeOK /\ TypeOK'
  <2>1. Next
    BY DEF Next
  <2> QED BY <2>1, GoneGrows DEF GoneInv, RowInv
<1>b. /\ jobs[a] \in CloseJob /\ jobs[a].position \subseteq Positions
      /\ jobs[a].copy \in Record
  BY <1>g DEF TypeOK, CloseJob
<1>c. live' \subseteq live
  BY DEF Job, CloseLands, CloseFails, MarkRead, MarkWrite, RecordPerformance, chain
<1> USE <1>g, GoneFrame
<1> USE DEF GoneInv, mgmt, poller, chain, files, TickAims
<1>1. CASE CloseLands(a)
  <2>1. HonestJobs'
    BY <1>1, <1>b DEF CloseLands, HonestJobs, Honest, TypeOK, CloseJob
  <2> QED BY <1>1, <1>c, <2>1 DEF CloseLands
<1>2. CASE CloseFails(a)
  <2>1. HonestJobs'
    BY <1>2 DEF CloseFails, NoJob, HonestJobs, Honest, TypeOK
  <2> QED BY <1>2, <1>c, <2>1 DEF CloseFails
<1>3. CASE MarkRead(a)
  <2>1. PICK p \in jobs[a].position :
          jobs' = IF book[p].state = "none"
                  THEN [jobs EXCEPT ![a].step = "record"]
                  ELSE [jobs EXCEPT ![a].step = "marking", ![a].copy = book[p]]
    BY <1>3, Zenon DEF MarkRead
  <2>2. jobs[a].position \subseteq Gone
    BY <1>3 DEF MarkRead, RowInv, HookJobs, Hooked
  <2>3. /\ \A b \in Actors : b # a => jobs'[b] = jobs[b]
        /\ jobs'[a].position = jobs[a].position
    BY <1>b, <2>1 DEF TypeOK, CloseJob
  <2>4. \A q \in Gone' : q \in deployed'
    BY DEF Gone
  <2>5. HonestJobs'
    <3> SUFFICES ASSUME NEW b \in Actors, NEW q \in jobs'[b].position
                 PROVE  /\ jobs'[b].copy.state = "closed" => q \in Gone'
                        /\ jobs'[b].copy.state # "none" => q \in deployed'
      BY DEF HonestJobs, Honest
    <3>1. CASE b = a
      BY <2>2, <2>3, <2>4, <3>1
    <3>2. CASE b # a
      BY <2>3, <3>2 DEF HonestJobs, Honest
    <3> QED BY <3>1, <3>2
  <2> QED BY <1>3, <2>5 DEF MarkRead
<1>4. CASE MarkWrite(a)
  <2>1. PICK p \in jobs[a].position : book' = [book EXCEPT ![p] = MarkClosed(jobs[a].copy)]
    BY <1>4, Zenon DEF MarkWrite
  <2>2. p \in Gone /\ MarkClosed(jobs[a].copy).state = "closed"
    BY <1>4, <1>b, RecordStates DEF MarkWrite, RowInv, HookJobs, Hooked
  <2>3. HonestBook'
    BY <2>1, <2>2 DEF HonestBook, Honest, TypeOK, Gone
  <2>4. \A b \in Actors : b # a => jobs'[b] = jobs[b]
    BY <1>4 DEF MarkWrite, TypeOK
  <2>5. jobs'[a].copy = NoRecord
    BY <1>4, <1>b DEF MarkWrite, TypeOK, CloseJob
  <2>6. HonestJobs'
    BY <2>4, <2>5, RecordStates DEF HonestJobs, Honest
  <2> QED BY <1>4, <2>3, <2>6 DEF MarkWrite
<1>5. CASE RecordPerformance(a)
  <2>1. HonestJobs'
    BY <1>5 DEF RecordPerformance, NoJob, HonestJobs, Honest, TypeOK
  <2>2. ASSUME NEW p \in jobs[a].position,
               history' = AppendPerformance(history, p, "close_position")
        PROVE  RowsGone'
    <3>1. p \in Gone /\ p \in Positions
      BY <1>5, <1>b DEF RecordPerformance, RowInv, HookJobs, Hooked
    <3>2. Grown(history, p, "close_position", history')
      <4>1. history \in Seq(Row)
        BY DEF TypeOK
      <4> QED BY <2>2, <3>1, <4>1, AppendGrows
    <3> QED BY <3>1, <3>2 DEF RowsGone, Grown
  <2>3. RowsGone'
    BY <1>5, <2>2 DEF RecordPerformance
  <2> QED BY <1>5, <2>1, <2>3 DEF RecordPerformance
<1> QED BY <1>1, <1>2, <1>3, <1>4, <1>5 DEF Job

LEMMA GoneNext ==
  ASSUME GoneInv, "read_lag" \notin Faults, [Next]_vars PROVE GoneInv'
<1>r. RowInv'
  BY RowNext DEF GoneInv
<1>g. Gone \subseteq Gone' /\ deployed \subseteq deployed' /\ TypeOK /\ TypeOK'
  BY <1>r, GoneGrows DEF GoneInv, RowInv
<1>1. CASE MgmtStep
  BY <1>1, <1>r, GoneMgmt
<1>2. CASE PollStep
  BY <1>2, <1>r, GonePoll
<1>3. ASSUME NEW a \in Actors, Job(a) PROVE GoneInv'
  BY <1>3, <1>r, GoneJob
<1> USE <1>r, <1>g, GoneFrame
<1> USE DEF GoneInv, TickAims
<1>4. CASE Crash
  <2>1. /\ book' = book /\ history' = history /\ pc' = "idle" /\ at' = {} /\ pat' = {}
        /\ copies' = Blank /\ \A a \in Actors : jobs'[a].position = {}
    BY <1>4 DEF Crash, EndTick, NoJob, files
  <2>2. HonestCopies' /\ HonestCopy' /\ HonestPoller' /\ HonestJobs'
    BY <2>1, RecordStates DEF HonestCopies, HonestCopy, HonestPoller, HonestJobs, Honest
  <2> QED BY <2>1, <2>2
<1>5. CASE FlipBounce
  BY <1>5 DEF FlipBounce, files, mgmt, poller, chain
<1>6. ASSUME NEW p \in Positions, Track(p) \/ DashboardReconcile(p) PROVE GoneInv'
  <2>1. /\ p \in deployed /\ book' = [book EXCEPT ![p] = Tracked]
        /\ UNCHANGED <<live, history, jobs, mgmt, poller>>
    BY <1>6 DEF Track, DashboardReconcile, TypeOK, chain
  <2>2. HonestBook'
    BY <2>1, RecordStates DEF HonestBook, Honest, TypeOK
  <2> QED BY <2>1, <2>2 DEF mgmt, poller
<1>7. ASSUME NEW p \in Positions, MirrorOwnership(p) \/ Settle(p) \/ OutsideClose(p) PROVE GoneInv'
  <2>1. live' \subseteq live /\ UNCHANGED <<files, jobs, mgmt, poller>>
    BY <1>7 DEF MirrorOwnership, Settle, OutsideClose, files, chain
  <2> QED BY <2>1 DEF files, mgmt, poller
<1>8. ASSUME NEW p \in Positions, Deploy(p) PROVE GoneInv'
  <2>1. pc # "tracked" /\ UNCHANGED <<files, jobs, mgmt, poller>>
    BY <1>8 DEF Deploy, files
  <2> QED BY <2>1 DEF files, mgmt, poller
<1>9. ASSUME NEW p \in Positions, NEW a \in Hands, HandClose(a, p) PROVE GoneInv'
  <2>1. a \in Actors
    BY DEF Actors
  <2>2. HonestJobs'
    BY <1>9, <2>1, RecordStates DEF HandClose, StartClose, HonestJobs, Honest, TypeOK
  <2> QED BY <1>9, <2>2 DEF HandClose, files, mgmt, poller, chain
<1>10. CASE UNCHANGED vars
  BY <1>10 DEF vars, files, mgmt, poller, chain
<1> QED BY <1>1, <1>2, <1>3, <1>4, <1>5, <1>6, <1>7, <1>8, <1>9, <1>10 DEF Next

(* As long as no chain read misses a deploy already made, a record is       *)
(* closed, and a History row written, only for a position off the chain.    *)
THEOREM NothingLiveIsClosed == "read_lag" \notin Faults => (Spec => []ClosedIsGone)
<1> SUFFICES ASSUME "read_lag" \notin Faults PROVE Spec => []ClosedIsGone
  OBVIOUS
<1>1. GoneInv => ClosedIsGone
  BY DEF GoneInv, ClosedIsGone, HonestBook, Honest, RowsGone, InState, WithRow
<1>2. Init => GoneInv
  BY GoneInit
<1>3. GoneInv /\ [Next]_vars => GoneInv'
  BY GoneNext
<1> QED BY <1>1, <1>2, <1>3, PTL DEF Spec

---------------------------------------------------------------------------
(* One row per position, when only the management cycle closes positions   *)

OneCloser == "read_lag" \notin Faults /\ ~Smart /\ Hands = {}

(* The poller is off, and the cycle is in a call only while it acts.        *)
QuietPoller == ppc = "idle" /\ jobs["poller"].step = "idle"
ActsLast    == jobs["management"].step # "idle" => pc = "act"

(* No row yet of a close the hook is about to record, nor of one the        *)
(* reconcile is about to.                                                   *)
HookUnrecorded == \A p \in Hooked("management") : \A i \in DOMAIN history : history[i].position # p
TickUnrecorded ==
  \A i \in DOMAIN history :
    /\ pc = "ghosts" => history[i].position \in recorded
    /\ pc = "append" => history[i].position \notin todo

OnceInv ==
  GoneInv /\ RowOnce /\ QuietPoller /\ ActsLast /\ HookUnrecorded /\ TickUnrecorded

(* A step that writes no row and lands no close. *)
LEMMA OnceFrame ==
  ASSUME OnceInv, GoneInv', SameRows, ppc' = ppc, jobs' = jobs,
         pc' \notin {"ghosts", "append"} \/ (pc' = pc /\ recorded' = recorded /\ todo' \subseteq todo),
         pc' = pc \/ pc # "act"
  PROVE  OnceInv'
<1>1. RowOnce' /\ QuietPoller' /\ ActsLast'
  BY DEF OnceInv, RowOnce, QuietPoller, ActsLast, SameRows
<1>2. HookUnrecorded' /\ TickUnrecorded'
  BY DEF OnceInv, HookUnrecorded, TickUnrecorded, Hooked, SameRows
<1> QED BY <1>1, <1>2 DEF OnceInv

LEMMA OnceMgmt == ASSUME OnceInv, OneCloser, GoneInv', MgmtStep PROVE OnceInv'
<1> USE DEF outsideMgmt, files, poller
<1>1. CASE \/ ReadChain \/ ReadTracked \/ AppendFails \/ LoadUnsettled \/ NothingOpen
           \/ StartForward \/ ReadRange \/ MakePlans \/ Exempt \/ ArmWrite
           \/ StartEscalations \/ AdvisorAnswers \/ StartActions
  BY <1>1, OnceFrame DEF SameRows, ReadChain, ReadTracked, AppendFails, LoadUnsettled, NothingOpen,
     StartForward, ReadRange, MakePlans, Exempt, ArmWrite, StartEscalations, AdvisorAnswers,
     StartActions, EndTick
<1>2. CASE LoadRows
  <2>1. RowOnce' /\ QuietPoller' /\ ActsLast' /\ HookUnrecorded'
    BY <1>2 DEF OnceInv, LoadRows, RowOnce, QuietPoller, ActsLast, HookUnrecorded, Hooked
  <2>2. TickUnrecorded'
    BY <1>2 DEF LoadRows, TickUnrecorded, WithRow
  <2> QED BY <2>1, <2>2 DEF OnceInv
<1>3. CASE ReadGhosts
  <2>1. RowOnce' /\ QuietPoller' /\ ActsLast' /\ HookUnrecorded'
    BY <1>3 DEF OnceInv, ReadGhosts, RowOnce, QuietPoller, ActsLast, HookUnrecorded, Hooked
  <2>2. TickUnrecorded'
    BY <1>3 DEF OnceInv, ReadGhosts, TickUnrecorded, Rowless
  <2> QED BY <2>1, <2>2 DEF OnceInv
<1>4. CASE ActionsDone
  <2>1. jobs["management"].step = "idle"
    BY <1>4 DEF ActionsDone, NoJob
  <2>2. RowOnce' /\ QuietPoller' /\ ActsLast'
    BY <1>4, <2>1 DEF OnceInv, ActionsDone, RowOnce, QuietPoller, ActsLast
  <2>3. HookUnrecorded' /\ TickUnrecorded'
    BY <1>4 DEF OnceInv, ActionsDone, EndTick, HookUnrecorded, TickUnrecorded, Hooked
  <2> QED BY <2>2, <2>3 DEF OnceInv
<1>5. ASSUME NEW p \in Positions, AppendReconciled(p) PROVE OnceInv'
  <2>s. history \in Seq(Row)
    BY DEF OnceInv, GoneInv, RowInv, TypeOK
  <2>1. /\ pc = "append" /\ pc' = "append" /\ p \in todo /\ todo' = todo \ {p}
        /\ history' = AppendPerformance(history, p, "reconcile") /\ UNCHANGED <<jobs, ppc>>
    BY <1>5 DEF AppendReconciled
  <2>2. Grown(history, p, "reconcile", history')
    BY <2>1, <2>s, AppendGrows
  <2>3. \A i \in DOMAIN history : history[i].position # p
    BY <2>1 DEF OnceInv, TickUnrecorded
  <2>4. RowOnce'
    BY <2>2, <2>3 DEF OnceInv, RowOnce, Grown
  <2>5. TickUnrecorded'
    BY <2>1, <2>2 DEF OnceInv, TickUnrecorded, Grown
  <2>6. QuietPoller' /\ ActsLast' /\ HookUnrecorded'
    BY <2>1 DEF OnceInv, QuietPoller, ActsLast, HookUnrecorded, Hooked
  <2> QED BY <2>4, <2>5, <2>6 DEF OnceInv
<1>6. ASSUME NEW p \in Positions, SettleFound(p) PROVE OnceInv'
  <2>1. SameRows
    BY <1>6, SettleKeepsRows DEF SettleFound, SameRows, OnceInv, GoneInv, RowInv, TypeOK
  <2> QED BY <1>6, <2>1, OnceFrame DEF SettleFound
<1>7. ASSUME NEW p \in Positions,
             \/ CloseGhost(p) \/ SettleNotYet(p) \/ TrackUntracked(p) \/ WriteRange(p)
             \/ ArmSkip(p) \/ ArmRead(p) \/ DecideAlone(p) \/ AskAdvisor(p)
      PROVE  OnceInv'
  BY <1>7, OnceFrame DEF SameRows, CloseGhost, SettleNotYet, TrackUntracked, WriteRange, ArmSkip,
     ArmRead, DecideAlone, AskAdvisor
<1>8. ASSUME NEW p \in Positions, SendClose(p) PROVE OnceInv'
  <2>1. /\ pc = "act" /\ pc' = "act" /\ UNCHANGED <<history, ppc>>
        /\ jobs'["management"].step = "sent" /\ jobs'["poller"] = jobs["poller"]
    BY <1>8 DEF SendClose, StartClose, OnceInv, GoneInv, RowInv, TypeOK, Actors
  <2> QED BY <2>1 DEF OnceInv, RowOnce, QuietPoller, ActsLast, HookUnrecorded, TickUnrecorded, Hooked
<1> QED
  BY <1>1, <1>2, <1>3, <1>4, <1>5, <1>6, <1>7, <1>8, Zenon DEF MgmtStep

(* The only call there is is the cycle's own. *)
LEMMA OnceJob == ASSUME OnceInv, OneCloser, GoneInv', NEW a \in Actors, Job(a) PROVE OnceInv'
<1>t. /\ jobs \in [Actors -> CloseJob] /\ history \in Seq(Row) /\ TypeOK'
      /\ pc = pc' /\ recorded' = recorded /\ todo' = todo /\ ppc' = ppc
  BY DEF OnceInv, GoneInv, RowInv, TypeOK, Job, CloseLands, CloseFails, MarkRead, MarkWrite,
     RecordPerformance, mgmt, poller
<1>a. a = "management"
  <2>1. jobs[a].step # "idle"
    BY DEF Job, CloseLands, CloseFails, MarkRead, MarkWrite, RecordPerformance
  <2> QED BY <2>1 DEF OnceInv, QuietPoller, Actors, OneCloser
<1>p. pc = "act"
  BY <1>a DEF OnceInv, ActsLast, Job, CloseLands, CloseFails, MarkRead, MarkWrite, RecordPerformance
<1>q. jobs'["poller"] = jobs["poller"]
  BY <1>a, <1>t DEF Job, CloseLands, CloseFails, MarkRead, MarkWrite, RecordPerformance, Actors
<1>1. QuietPoller' /\ ActsLast'
  BY <1>t, <1>p, <1>q DEF OnceInv, QuietPoller, ActsLast
<1>2. TickUnrecorded'
  BY <1>t, <1>p DEF TickUnrecorded
<1>3. CASE CloseLands(a)
  <2>1. history' = history /\ jobs'[a].position \subseteq live
    BY <1>3, <1>t DEF CloseLands, files, CloseJob
  <2>2. HookUnrecorded'
    BY <1>a, <2>1 DEF OnceInv, GoneInv, RowsGone, HookUnrecorded, Hooked, Gone
  <2> QED BY <1>1, <1>2, <2>1, <2>2 DEF OnceInv, RowOnce
<1>4. CASE CloseFails(a) \/ MarkRead(a) \/ MarkWrite(a)
  <2>1. history' = history
    BY <1>4 DEF CloseFails, MarkRead, MarkWrite, files
  <2>2. Hooked(a)' \subseteq Hooked(a)
    <3>1. CASE CloseFails(a)
      BY <1>t, <3>1 DEF CloseFails, Hooked, NoJob
    <3>2. CASE MarkRead(a)
      <4>1. jobs[a].step = "mark" /\ jobs'[a].position = jobs[a].position
        BY <1>t, <3>2 DEF MarkRead, CloseJob
      <4> QED BY <4>1 DEF Hooked
    <3>3. CASE MarkWrite(a)
      <4>1. jobs[a].step = "marking" /\ jobs'[a].position = jobs[a].position
        BY <1>t, <3>3 DEF MarkWrite, CloseJob
      <4> QED BY <4>1 DEF Hooked
    <3> QED BY <1>4, <3>1, <3>2, <3>3
  <2>3. HookUnrecorded'
    BY <1>a, <2>1, <2>2 DEF OnceInv, HookUnrecorded
  <2> QED BY <1>1, <1>2, <2>1, <2>3 DEF OnceInv, RowOnce
<1>5. CASE RecordPerformance(a)
  <2>1. Hooked(a)' = {} /\ jobs[a].position \subseteq Hooked(a)
    BY <1>5, <1>t DEF RecordPerformance, Hooked, NoJob
  <2>2. HookUnrecorded'
    BY <1>a, <2>1 DEF HookUnrecorded
  <2>3. ASSUME NEW p \in jobs[a].position,
               history' = AppendPerformance(history, p, "close_position")
        PROVE  RowOnce'
    <3>1. p \in Positions /\ \A i \in DOMAIN history : history[i].position # p
      BY <1>a, <1>t, <2>1 DEF OnceInv, HookUnrecorded, CloseJob
    <3>2. Grown(history, p, "close_position", history')
      BY <1>t, <2>3, <3>1, AppendGrows
    <3> QED BY <3>1, <3>2 DEF OnceInv, RowOnce, Grown
  <2>4. RowOnce'
    BY <1>5, <2>3 DEF RecordPerformance, OnceInv, RowOnce
  <2> QED BY <1>1, <1>2, <2>2, <2>4 DEF OnceInv
<1> QED BY <1>3, <1>4, <1>5 DEF Job

LEMMA OnceNext == ASSUME OnceInv, OneCloser, [Next]_vars PROVE OnceInv'
<1>g. GoneInv'
  BY GoneNext DEF OnceInv, OneCloser
<1>1. CASE MgmtStep
  BY <1>1, <1>g, OnceMgmt
<1>2. CASE PollStep
  BY <1>2 DEF OnceInv, QuietPoller, OneCloser, PollStep, PollReadChain, PollFilter, PollDecide,
     PollArmWrite, PollDone, PollArmRead, PollClose
<1>3. ASSUME NEW a \in Actors, Job(a) PROVE OnceInv'
  BY <1>3, <1>g, OnceJob
<1>4. CASE Crash
  <2>1. /\ history' = history /\ ppc' = "idle" /\ pc' = "idle"
        /\ jobs'["poller"].step = "idle" /\ jobs'["management"].step = "idle"
    BY <1>4 DEF Crash, files, EndTick, NoJob, Actors
  <2> QED
    BY <1>g, <2>1 DEF OnceInv, RowOnce, QuietPoller, ActsLast, HookUnrecorded, TickUnrecorded, Hooked
<1>5. CASE FlipBounce \/ UNCHANGED vars
  BY <1>5, <1>g, OnceFrame DEF FlipBounce, vars, SameRows, files, mgmt, poller
<1>6. ASSUME NEW p \in Positions,
             \/ Deploy(p) \/ Track(p) \/ DashboardReconcile(p) \/ Settle(p)
             \/ OutsideClose(p) \/ MirrorOwnership(p)
      PROVE  OnceInv'
  BY <1>6, <1>g, OnceFrame DEF Deploy, Track, DashboardReconcile, Settle, OutsideClose,
     MirrorOwnership, SameRows, files, mgmt, poller
<1> QED BY <1>1, <1>2, <1>3, <1>4, <1>5, <1>6 DEF Next, OneCloser

(* recordReconciledCloses does what its comment says when the management    *)
(* cycle is the only caller of close_position, smart exits are off and no   *)
(* chain read lags: a position never has a second History row.              *)
THEOREM OneRowForOneCloser == OneCloser => (Spec => []RowOnce)
<1> SUFFICES ASSUME OneCloser PROVE Spec => []RowOnce
  OBVIOUS
<1>1. OnceInv => RowOnce
  BY DEF OnceInv
<1>2. Init => OnceInv
  <2> SUFFICES ASSUME Init PROVE OnceInv
    OBVIOUS
  <2>1. GoneInv
    BY GoneInit
  <2>2. /\ DOMAIN history = {} /\ ppc = "idle"
        /\ jobs["poller"].step = "idle" /\ jobs["management"].step = "idle"
    BY DEF Init, NoJob, Actors
  <2> QED
    BY <2>1, <2>2 DEF OnceInv, RowOnce, QuietPoller, ActsLast, HookUnrecorded, TickUnrecorded
<1>3. OnceInv /\ [Next]_vars => OnceInv'
  BY OnceNext
<1> QED BY <1>1, <1>2, <1>3, PTL DEF Spec
=============================================================================
