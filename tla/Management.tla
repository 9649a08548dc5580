----------------------------- MODULE Management -----------------------------
(***************************************************************************)
(* The life of our own positions after they are opened: the management     *)
(* cycle (src/src/app/management/cycle.ts), the PnL poller (pnl-poller.ts) *)
(* and the other callers of close_position, over the book of PositionBook. *)
(*                                                                         *)
(* Every action ends where the code awaits something another actor can     *)
(* change.  A single upsert or append (read, change, write) is one step; a *)
(* record read first and written back later is two, with the copy kept     *)
(* between them.  What the rules decide from prices and ages is left open: *)
(* any decision they can return may be taken.                              *)
(***************************************************************************)
EXTENDS PositionBook

CONSTANTS
  Hands,        \* who else calls close_position: Telegram, dashboard, follow cycle
  Smart,        \* management.smartExitEnabled
  Faults,       \* what the surroundings may do, see FaultKinds
  MaxFlips,     \* bound: changes of management.bounceExitEnabled
  MaxCrashes    \* bound: restarts of the process

FaultKinds ==
  {"read_lag",       \* a chain read can be older than a deploy already made
   "partial_write",  \* a close can take effect on chain and still report failure
   "file_read",      \* the follow file can be unreadable
   "append_fails",   \* a History row can fail to be written
   "outside_close",  \* a position is closed from outside the agent
   "outside_open"}   \* a position is opened from outside the agent

ASSUME HandsAssumption == Hands \cap {"management", "poller"} = {}
ASSUME SwitchAssumption == Smart \in BOOLEAN /\ Faults \subseteq FaultKinds
ASSUME BoundAssumption == MaxFlips \in Nat /\ MaxCrashes \in Nat

Actors == Hands \cup {"management", "poller"}

VARIABLES
  live,         \* our positions on chain
  deployed,     \* every position there ever was
  fresh,        \* those a lagging read may still miss
  untracked,    \* deploys whose tracking hook has yet to write
  book,         \* state.json: a record per position
  history,      \* lessons.json: the performance list
  mirrors,      \* positions a followed wallet owns the exit of
  bounce,       \* config management.bounceExitEnabled
  jobs,         \* per actor, the close_position call it is in
  \* ---- locals of the management tick ----
  pc, view, copies, recorded, todo, plan, armed, at, copy,
  \* ---- locals of the poller tick ----
  ppc, pview, acts, pat, pcopy,
  \* ---- bounds ----
  flips, crashes

chain   == <<live, deployed, fresh>>
files   == <<book, history>>
mgmt    == <<pc, view, copies, recorded, todo, plan, armed, at, copy>>
poller  == <<ppc, pview, acts, pat, pcopy>>
world   == <<untracked, mirrors, bounce, flips, crashes>>
vars    == <<chain, files, world, jobs, mgmt, poller>>

Decision == {"stay", "rule", "deep", "watch", "escalate"}
JobStep  == {"idle", "sent", "mark", "marking", "record"}
NoJob    == [step |-> "idle", position |-> {}, why |-> "none", copy |-> NoRecord]
AllStay  == [p \in Positions |-> "stay"]
Blank    == [p \in Positions |-> NoRecord]
Gone     == deployed \ live

(* getMyPositions({force}). *)
ChainViews ==
  {V \in SUBSET live : live \ V \subseteq (IF "read_lag" \in Faults THEN fresh ELSE {})}

(* Mirrors whose wallet owns the exit; an unreadable follow file lists none. *)
OwnedViews == {mirrors} \cup (IF "file_read" \in Faults THEN {{}} ELSE {})

---------------------------------------------------------------------------
(* Chain, configuration and deploys                                        *)

Init ==
  /\ live = {} /\ deployed = {} /\ fresh = {} /\ untracked = {}
  /\ book = Blank /\ history = <<>>
  /\ mirrors = {} /\ bounce \in BOOLEAN
  /\ jobs = [a \in Actors |-> NoJob]
  /\ pc = "idle" /\ view = {} /\ copies = Blank /\ recorded = {} /\ todo = {}
  /\ plan = AllStay /\ armed = FALSE /\ at = {} /\ copy = NoRecord
  /\ ppc = "idle" /\ pview = {} /\ acts = AllStay /\ pat = {} /\ pcopy = NoRecord
  /\ flips = 0 /\ crashes = 0

(* A deploy lands.  Ours is tracked by a hook that first waits for candles;  *)
(* one made in another client never is.  Without read_lag no deploy falls   *)
(* inside the management cycle's chain read.                                *)
Deploy(p) ==
  /\ p \in Positions \ deployed
  /\ "read_lag" \in Faults \/ pc # "tracked"
  /\ live' = live \cup {p}
  /\ deployed' = deployed \cup {p}
  /\ fresh' = fresh \cup (IF "read_lag" \in Faults THEN {p} ELSE {})
  /\ \/ untracked' = untracked \cup {p}
     \/ "outside_open" \in Faults /\ UNCHANGED untracked
  /\ UNCHANGED <<files, mirrors, bounce, flips, crashes, jobs, mgmt, poller>>

(* trackDeployedPosition: the record is written over whatever is there. *)
Track(p) ==
  /\ p \in untracked
  /\ untracked' = untracked \ {p}
  /\ book' = [book EXCEPT ![p] = Tracked]
  /\ UNCHANGED <<chain, history, mirrors, bounce, flips, crashes, jobs, mgmt, poller>>

(* The dashboard's position list tracks what it finds without a record, off *)
(* a cached read of the chain.                                              *)
DashboardReconcile(p) ==
  /\ p \in deployed /\ book[p].state = "none"
  /\ book' = [book EXCEPT ![p] = Tracked]
  /\ UNCHANGED <<chain, history, world, jobs, mgmt, poller>>

Settle(p) ==
  /\ p \in fresh
  /\ fresh' = fresh \ {p}
  /\ UNCHANGED <<live, deployed, files, world, jobs, mgmt, poller>>

OutsideClose(p) ==
  /\ "outside_close" \in Faults
  /\ p \in live
  /\ live' = live \ {p} /\ fresh' = fresh \ {p}
  /\ UNCHANGED <<deployed, files, world, jobs, mgmt, poller>>

(* The follow cycle records a mirror, or its wallet stops being followed. *)
MirrorOwnership(p) ==
  /\ p \in live
  /\ mirrors' = IF p \in mirrors THEN mirrors \ {p} ELSE mirrors \cup {p}
  /\ UNCHANGED <<chain, files, untracked, bounce, flips, crashes, jobs, mgmt, poller>>

FlipBounce ==
  /\ flips < MaxFlips
  /\ bounce' = ~bounce /\ flips' = flips + 1
  /\ UNCHANGED <<chain, files, untracked, mirrors, crashes, jobs, mgmt, poller>>

---------------------------------------------------------------------------
(* close_position: the write, then its post hooks, one after the other.     *)

StartClose(a, p, why) ==
  jobs' = [jobs EXCEPT ![a] = [step |-> "sent", position |-> {p}, why |-> why, copy |-> NoRecord]]

CloseLands(a) ==
  /\ jobs[a].step = "sent" /\ jobs[a].position \subseteq live
  /\ live' = live \ jobs[a].position
  /\ fresh' = fresh \ jobs[a].position
  /\ jobs' = [jobs EXCEPT ![a].step = "mark"]
  /\ UNCHANGED <<deployed, files, world, mgmt, poller>>

(* The tool throws: nothing was sent, the position was already gone, or the *)
(* confirmation was lost.  No hook runs.                                    *)
CloseFails(a) ==
  /\ jobs[a].step = "sent"
  /\ \/ UNCHANGED <<live, fresh>>
     \/ /\ "partial_write" \in Faults
        /\ live' = live \ jobs[a].position
        /\ fresh' = fresh \ jobs[a].position
  /\ jobs' = [jobs EXCEPT ![a] = NoJob]
  /\ UNCHANGED <<deployed, files, world, mgmt, poller>>

(* markClosedInRepoHook: read, then write.  An untracked one is left alone. *)
MarkRead(a) ==
  /\ jobs[a].step = "mark"
  /\ \E p \in jobs[a].position :
       jobs' = IF book[p].state = "none"
               THEN [jobs EXCEPT ![a].step = "record"]
               ELSE [jobs EXCEPT ![a].step = "marking", ![a].copy = book[p]]
  /\ UNCHANGED <<chain, files, world, mgmt, poller>>

MarkWrite(a) ==
  /\ jobs[a].step = "marking"
  /\ \E p \in jobs[a].position : book' = [book EXCEPT ![p] = MarkClosed(jobs[a].copy)]
  /\ jobs' = [jobs EXCEPT ![a].step = "record", ![a].copy = NoRecord]
  /\ UNCHANGED <<chain, history, world, mgmt, poller>>

(* recordPerformanceHook, after the candles and prices it waits for.  It    *)
(* does not look whether the position has a row.                            *)
RecordPerformance(a) ==
  /\ jobs[a].step = "record"
  /\ \/ \E p \in jobs[a].position : history' = AppendPerformance(history, p, "close_position")
     \/ "append_fails" \in Faults /\ UNCHANGED history
  /\ jobs' = [jobs EXCEPT ![a] = NoJob]
  /\ UNCHANGED <<chain, book, world, mgmt, poller>>

HandClose(a, p) ==
  /\ a \in Hands /\ jobs[a] = NoJob /\ p \in live
  /\ StartClose(a, p, "hand")
  /\ UNCHANGED <<chain, files, world, mgmt, poller>>

Job(a) ==
  CloseLands(a) \/ CloseFails(a) \/ MarkRead(a) \/ MarkWrite(a) \/ RecordPerformance(a)

---------------------------------------------------------------------------
(* runManagementCycle                                                      *)

outsideMgmt == <<chain, world, poller>>

EndTick ==
  /\ pc' = "idle" /\ view' = {} /\ copies' = Blank /\ recorded' = {} /\ todo' = {}
  /\ plan' = AllStay /\ armed' = FALSE /\ at' = {} /\ copy' = NoRecord

ReadChain ==
  /\ pc = "idle"
  /\ view' \in ChainViews
  /\ pc' = "tracked"
  /\ UNCHANGED <<outsideMgmt, files, jobs, copies, recorded, todo, plan, armed, at, copy>>

(* Every record is read once; the open ones the read does not show are the  *)
(* ghosts to close.                                                         *)
GhostsUnseen(seen, tracked) == InState(tracked, "open")       \* mutant: whatever is seen
Ghosts(seen, tracked) == InState(tracked, "open") \ seen
ReadTracked ==
  /\ pc = "tracked"
  /\ copies' = book
  /\ todo' = Ghosts(view, book)
  /\ pc' = "reverse"
  /\ UNCHANGED <<outsideMgmt, files, jobs, view, recorded, plan, armed, at, copy>>

(* The record written is the copy, whatever the record has become. *)
CloseGhost(p) ==
  /\ pc = "reverse" /\ p \in todo
  /\ book' = [book EXCEPT ![p] = MarkGhost(copies[p])]
  /\ todo' = todo \ {p}
  /\ UNCHANGED <<outsideMgmt, history, jobs, pc, view, copies, recorded, plan, armed, at, copy>>

(* recordReconciledCloses: the rows first, then the records without one.    *)
LoadRows ==
  /\ pc = "reverse" /\ todo = {}
  /\ recorded' = WithRow(history)
  /\ copies' = Blank
  /\ pc' = "ghosts"
  /\ UNCHANGED <<outsideMgmt, files, jobs, view, todo, plan, armed, at, copy>>

RowlessOrNot(b, withRow) == {p \in InState(b, "closed") : b[p].ghost}  \* mutant: again
Rowless(b, withRow) == {p \in InState(b, "closed") \ withRow : b[p].ghost}
ReadGhosts ==
  /\ pc = "ghosts"
  /\ todo' = Rowless(book, recorded)
  /\ recorded' = {}
  /\ pc' = "append"
  /\ UNCHANGED <<outsideMgmt, files, jobs, view, copies, plan, armed, at, copy>>

AppendReconciled(p) ==
  /\ pc = "append" /\ p \in todo
  /\ history' = AppendPerformance(history, p, "reconcile")
  /\ todo' = todo \ {p}
  /\ UNCHANGED <<outsideMgmt, book, jobs, pc, view, copies, recorded, plan, armed, at, copy>>

(* An append throws: the rest waits for the next tick. *)
AppendFails ==
  /\ "append_fails" \in Faults
  /\ pc = "append" /\ todo # {}
  /\ todo' = {}
  /\ UNCHANGED <<outsideMgmt, files, jobs, pc, view, copies, recorded, plan, armed, at, copy>>

(* finalizeClosedPerformance. *)
LoadUnsettled ==
  /\ pc = "append" /\ todo = {}
  /\ todo' = Unsettled(history)
  /\ pc' = "settle"
  /\ UNCHANGED <<outsideMgmt, files, jobs, view, copies, recorded, plan, armed, at, copy>>

SettleFound(p) ==
  /\ pc = "settle" /\ p \in todo \ live
  /\ history' = SettleRow(history, p)
  /\ todo' = todo \ {p}
  /\ UNCHANGED <<outsideMgmt, book, jobs, pc, view, copies, recorded, plan, armed, at, copy>>

SettleNotYet(p) ==
  /\ pc = "settle" /\ p \in todo
  /\ todo' = todo \ {p}
  /\ UNCHANGED <<outsideMgmt, files, jobs, pc, view, copies, recorded, plan, armed, at, copy>>

NothingOpen ==
  /\ pc = "settle" /\ todo = {} /\ view = {}
  /\ EndTick
  /\ UNCHANGED <<outsideMgmt, files, jobs>>

StartForward ==
  /\ pc = "settle" /\ todo = {} /\ view # {}
  /\ todo' = view
  /\ pc' = "forward"
  /\ UNCHANGED <<outsideMgmt, files, jobs, view, copies, recorded, plan, armed, at, copy>>

(* The forward reconcile: only a position with no record at all gets one.   *)
Forward(r) == IF r.state = "none" THEN Tracked ELSE r
TrackUntracked(p) ==
  /\ pc = "forward" /\ p \in todo
  /\ book' = [book EXCEPT ![p] = Forward(book[p])]
  /\ todo' = todo \ {p}
  /\ UNCHANGED <<outsideMgmt, history, jobs, pc, view, copies, recorded, plan, armed, at, copy>>

(* Range bookkeeping: the open records whose price crossed the range are    *)
(* read together and written back side by side, in any order.               *)
ReadRange ==
  /\ pc = "forward" /\ todo = {}
  /\ \E crossed \in SUBSET (view \cap InState(book, "open")) : todo' = crossed
  /\ copies' = book
  /\ pc' = "range"
  /\ UNCHANGED <<outsideMgmt, files, jobs, view, recorded, plan, armed, at, copy>>

WriteRange(p) ==
  /\ pc = "range" /\ p \in todo
  /\ book' = [book EXCEPT ![p] = copies[p]]
  /\ todo' = todo \ {p}
  /\ UNCHANGED <<outsideMgmt, history, jobs, pc, view, copies, recorded, plan, armed, at, copy>>

(* planForPosition, for any prices; claiming fees changes nothing here.     *)
Decisions(r) ==
  IF Smart /\ bounce /\ r.watch THEN {"stay", "watch"}
  ELSE IF Smart THEN {"stay", "rule", "deep", "escalate"}
  ELSE {"stay", "rule"}

MakePlans ==
  /\ pc = "range" /\ todo = {}
  /\ copies' = book
  /\ armed' = (Smart /\ bounce)
  /\ plan' \in [Positions -> Decision]
  /\ \A p \in Positions :
       plan'[p] \in (IF p \in view THEN Decisions(book[p]) ELSE {"stay"})
  /\ pc' = "exempt"
  /\ UNCHANGED <<outsideMgmt, files, jobs, view, recorded, todo, at, copy>>

(* Followed positions are left to their wallet.  Then the bounce loop: the  *)
(* deep losses that have an open record, or, with the feature off, the      *)
(* records a watch was left on.                                             *)
Exempt ==
  /\ pc = "exempt"
  /\ \E owned \in OwnedViews :
       plan' = [p \in Positions |-> IF p \in owned THEN "stay" ELSE plan[p]]
  /\ todo' = {p \in InState(copies, "open") :
                IF armed THEN plan'[p] = "deep" ELSE copies[p].watch}
  /\ copies' = Blank
  /\ pc' = "arm"
  /\ UNCHANGED <<outsideMgmt, files, jobs, view, recorded, armed, at, copy>>

(* The record is read again, and the watch written on that copy.  With the  *)
(* feature off the watch of any record is dropped.                          *)
ArmSkip(p) ==
  /\ pc = "arm" /\ p \in todo
  /\ IF armed THEN book[p].state # "open" \/ book[p].watch ELSE ~book[p].watch
  /\ plan' = [plan EXCEPT ![p] = IF armed /\ book[p].state = "open" THEN "stay" ELSE @]
  /\ todo' = todo \ {p}
  /\ UNCHANGED <<outsideMgmt, files, jobs, pc, view, copies, recorded, armed, at, copy>>

ArmRead(p) ==
  /\ pc = "arm" /\ p \in todo
  /\ IF armed THEN book[p].state = "open" /\ ~book[p].watch ELSE book[p].watch
  /\ copy' = book[p]
  /\ at' = {p}
  /\ todo' = todo \ {p}
  /\ pc' = "arming"
  /\ UNCHANGED <<outsideMgmt, files, jobs, view, copies, recorded, plan, armed>>

ArmWrite ==
  /\ pc = "arming"
  /\ \E p \in at :
       /\ book' = [book EXCEPT ![p] = Watched(copy, armed)]
       /\ plan' = [plan EXCEPT ![p] = IF armed THEN "stay" ELSE @]
  /\ at' = {} /\ copy' = NoRecord
  /\ pc' = "arm"
  /\ UNCHANGED <<outsideMgmt, history, jobs, view, copies, recorded, todo, armed>>

StartEscalations ==
  /\ pc = "arm" /\ todo = {}
  /\ todo' = {p \in Positions : plan[p] = "escalate"}
  /\ pc' = "escalate"
  /\ UNCHANGED <<outsideMgmt, files, jobs, view, copies, recorded, plan, armed, at, copy>>

(* Within its cooldown, or with no advisor: decided at once. *)
DecideAlone(p) ==
  /\ pc = "escalate" /\ p \in todo
  /\ \E d \in {"stay", "rule"} : plan' = [plan EXCEPT ![p] = d]
  /\ todo' = todo \ {p}
  /\ UNCHANGED <<outsideMgmt, files, jobs, pc, view, copies, recorded, armed, at, copy>>

(* The advisor may take half a minute; the record read before is then       *)
(* written back to note when it was asked.                                  *)
AskAdvisor(p) ==
  /\ pc = "escalate" /\ p \in todo
  /\ at' = {p} /\ copy' = book[p]
  /\ todo' = todo \ {p}
  /\ pc' = "advice"
  /\ UNCHANGED <<outsideMgmt, files, jobs, view, copies, recorded, plan, armed>>

AdvisorAnswers ==
  /\ pc = "advice"
  /\ \E p \in at, d \in {"stay", "rule"} :
       /\ book' = IF copy.state = "none" THEN book ELSE [book EXCEPT ![p] = copy]
       /\ plan' = [plan EXCEPT ![p] = d]
  /\ at' = {} /\ copy' = NoRecord
  /\ pc' = "escalate"
  /\ UNCHANGED <<outsideMgmt, history, jobs, view, copies, recorded, todo, armed>>

StartActions ==
  /\ pc = "escalate" /\ todo = {}
  /\ todo' = {p \in Positions : plan[p] # "stay"}
  /\ pc' = "act"
  /\ UNCHANGED <<outsideMgmt, files, jobs, view, copies, recorded, plan, armed, at, copy>>

SendClose(p) ==
  /\ pc = "act" /\ p \in todo /\ jobs["management"] = NoJob
  /\ StartClose("management", p, plan[p])
  /\ todo' = todo \ {p}
  /\ UNCHANGED <<outsideMgmt, files, pc, view, copies, recorded, plan, armed, at, copy>>

ActionsDone ==
  /\ pc = "act" /\ todo = {} /\ jobs["management"] = NoJob
  /\ EndTick
  /\ UNCHANGED <<outsideMgmt, files, jobs>>

MgmtStep ==
  \/ ReadChain \/ ReadTracked \/ LoadRows \/ ReadGhosts \/ AppendFails \/ LoadUnsettled
  \/ NothingOpen \/ StartForward \/ ReadRange \/ MakePlans \/ Exempt \/ ArmWrite
  \/ StartEscalations \/ AdvisorAnswers \/ StartActions \/ ActionsDone
  \/ \E p \in Positions :
       \/ CloseGhost(p) \/ AppendReconciled(p) \/ SettleFound(p) \/ SettleNotYet(p)
       \/ TrackUntracked(p) \/ WriteRange(p) \/ ArmSkip(p) \/ ArmRead(p)
       \/ DecideAlone(p) \/ AskAdvisor(p) \/ SendClose(p)

---------------------------------------------------------------------------
(* createPnlPoller: runTick.  The trailing take-profit is left out: no code *)
(* ever raises the peak it needs above zero.                                *)

outsidePoller == <<chain, world, mgmt, history>>

PollReadChain ==
  /\ ppc = "idle" /\ Smart
  /\ pview' \in ChainViews /\ pview' # {}
  /\ ppc' = "filter"
  /\ UNCHANGED <<outsidePoller, book, jobs, acts, pat, pcopy>>

PollFilter ==
  /\ ppc = "filter"
  /\ \E owned \in OwnedViews : pview' = pview \ owned
  /\ ppc' = "decide"
  /\ UNCHANGED <<outsidePoller, book, jobs, acts, pat, pcopy>>

(* tickPnlPoller: a watched position is its watch's, any other may be cut,  *)
(* except one without a record: it is taken for new, and its PnL not read.  *)
PollDecisions(r) ==
  IF r.state = "none" THEN {"stay"}
  ELSE IF bounce /\ r.state = "open" /\ r.watch THEN {"stay", "watch"}
  ELSE {"stay", IF bounce THEN "deep" ELSE "rule"}

PollDecide ==
  /\ ppc = "decide"
  /\ acts' \in [Positions -> Decision]
  /\ \A p \in Positions :
       acts'[p] \in (IF p \in pview THEN PollDecisions(book[p]) ELSE {"stay"})
  /\ pview' = {}
  /\ ppc' = "act"
  /\ UNCHANGED <<outsidePoller, book, jobs, pat, pcopy>>

(* armWatch reads the record first: with no open one the position is sold. *)
PollArmRead(p) ==
  /\ ppc = "act" /\ acts[p] = "deep" /\ jobs["poller"] = NoJob
  /\ IF book[p].state # "open"
     THEN /\ acts' = [acts EXCEPT ![p] = "rule"]
          /\ UNCHANGED <<ppc, pat, pcopy>>
     ELSE /\ acts' = [acts EXCEPT ![p] = "stay"]
          /\ IF book[p].watch
             THEN UNCHANGED <<ppc, pat, pcopy>>
             ELSE ppc' = "arming" /\ pat' = {p} /\ pcopy' = book[p]
  /\ UNCHANGED <<outsidePoller, book, jobs, pview>>

PollArmWrite ==
  /\ ppc = "arming"
  /\ \E p \in pat : book' = [book EXCEPT ![p] = Watched(pcopy, TRUE)]
  /\ ppc' = "act" /\ pat' = {} /\ pcopy' = NoRecord
  /\ UNCHANGED <<outsidePoller, jobs, pview, acts>>

PollClose(p) ==
  /\ ppc = "act" /\ acts[p] \in {"rule", "watch"} /\ jobs["poller"] = NoJob
  /\ StartClose("poller", p, acts[p])
  /\ acts' = [acts EXCEPT ![p] = "stay"]
  /\ UNCHANGED <<outsidePoller, book, ppc, pview, pat, pcopy>>

PollDone ==
  /\ ppc = "act" /\ acts = AllStay /\ jobs["poller"] = NoJob
  /\ ppc' = "idle"
  /\ UNCHANGED <<outsidePoller, book, jobs, pview, acts, pat, pcopy>>

PollStep ==
  \/ PollReadChain \/ PollFilter \/ PollDecide \/ PollArmWrite \/ PollDone
  \/ \E p \in Positions : PollArmRead(p) \/ PollClose(p)

---------------------------------------------------------------------------
(* The process is killed and started again: only chain and files survive.   *)
Crash ==
  /\ crashes < MaxCrashes
  /\ crashes' = crashes + 1
  /\ untracked' = {}
  /\ jobs' = [a \in Actors |-> NoJob]
  /\ EndTick
  /\ ppc' = "idle" /\ pview' = {} /\ acts' = AllStay /\ pat' = {} /\ pcopy' = NoRecord
  /\ UNCHANGED <<chain, files, mirrors, bounce, flips>>

Next ==
  \/ MgmtStep \/ PollStep \/ Crash \/ FlipBounce
  \/ \E a \in Actors : Job(a)
  \/ \E p \in Positions :
       \/ Deploy(p) \/ Track(p) \/ DashboardReconcile(p) \/ Settle(p)
       \/ OutsideClose(p) \/ MirrorOwnership(p)
       \/ \E a \in Hands : HandClose(a, p)

Spec == Init /\ [][Next]_vars

(* A tick and a call of close_position run to their end, and a management   *)
(* tick starts every interval.  Meteora indexes a close in the end.         *)
FairSpec ==
  /\ Spec
  /\ WF_vars(MgmtStep)
  /\ \A a \in Actors : WF_vars(Job(a))
  /\ \A p \in Positions : WF_vars(Track(p)) /\ SF_vars(SettleFound(p))

---------------------------------------------------------------------------
(* Properties                                                              *)

CloseJob == [step: JobStep, position: SUBSET Positions,
         why: {"none", "hand"} \cup Decision, copy: Record]

(* Every variable has its type. *)
TypeOK ==
  /\ live \subseteq deployed /\ fresh \subseteq live /\ deployed \subseteq Positions
  /\ untracked \subseteq deployed /\ mirrors \subseteq Positions
  /\ book \in [Positions -> Record] /\ history \in Seq(Row)
  /\ bounce \in BOOLEAN /\ jobs \in [Actors -> CloseJob]
  /\ pc \in {"idle", "tracked", "reverse", "ghosts", "append", "settle", "forward", "range",
             "exempt", "arm", "arming", "escalate", "advice", "act"}
  /\ view \subseteq deployed /\ copies \in [Positions -> Record]
  /\ recorded \subseteq Positions /\ todo \subseteq Positions
  /\ plan \in [Positions -> Decision] /\ armed \in BOOLEAN
  /\ at \subseteq Positions /\ copy \in Record
  /\ ppc \in {"idle", "filter", "decide", "act", "arming"}
  /\ pview \subseteq Positions /\ acts \in [Positions -> Decision]
  /\ pat \subseteq Positions /\ pcopy \in Record
  /\ flips \in Nat /\ crashes \in Nat

(* A position never has two History rows from the close hook, nor two from  *)
(* the reconcile, whoever closes it and wherever the process is killed.     *)
RowPerWriter ==
  \A i, j \in DOMAIN history :
    history[i].position = history[j].position /\ history[i].by = history[j].by => i = j

(* A position has one History row: recordReconciledCloses gives one only to *)
(* a close that its hook will not record.                                   *)
RowOnce ==
  \A i, j \in DOMAIN history : history[i].position = history[j].position => i = j

(* A record is closed, and a History row exists, only for a position that   *)
(* is off the chain.                                                        *)
ClosedIsGone == InState(book, "closed") \cup WithRow(history) \subseteq Gone

(* Every record of a position that is gone ends up closed for good, however *)
(* often a copy read before the close is written back over it.              *)
GhostsEndClosed ==
  \A p \in Positions :
    (p \in Gone /\ book[p].state # "none") ~> [](book[p].state = "closed")

(* Every tracked position that is gone ends up with a History row, and the  *)
(* row with settled numbers.                                                *)
ClosesRecorded ==
  \A p \in Positions : (p \in Gone /\ book[p].state # "none") ~> (p \in WithRow(history))
RowsSettle ==
  \A p \in Positions : (p \in WithRow(history)) ~> (p \notin Unsettled(history))
=============================================================================
