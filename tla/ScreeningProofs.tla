-------------------------- MODULE ScreeningProofs --------------------------
(***************************************************************************)
(* What Screening keeps for any pools, requests, caps, funds and faults,   *)
(* and however many cycles there are.                                      *)
(***************************************************************************)
EXTENDS Screening, FiniteSetTheorems, TLAPS

USE DEF settings

Active(r) == calls[r].step # "idle"
Early(r)  == calls[r].step \in {"gates", "cap", "send"}
Landed(r) == calls[r].step \in {"track", "log"} \/ (calls[r].step = "done" /\ calls[r].ok)

(* The bridge is in one deploy at a time, each decider works alone, and of *)
(* the other routes those deploy that are there.                           *)
OneAtATime ==
  /\ \A g, h \in Handlers : Active(g) /\ Active(h) => g = h
  /\ \A h \in Handlers : Active(h) => busy
  /\ Active("loop") => pc = "loop"
  /\ pc = "loop" => decider = "loop"
  /\ pc = "sage" \/ thinking # {} => decider = "sage"
  /\ \A r \in Others : Active(r) => r \in company

(* For whose cycle a call deploys: one still deciding, or none.            *)
CycleOf ==
  /\ \A h \in Handlers : Active(h) => calls[h].cycle \in thinking \cup {NoCycle}
  /\ Active("loop") => calls["loop"].cycle = cycle
  /\ \A r \in Others : Active(r) => calls[r].cycle = NoCycle

(* Who is still deciding, and whose a position is: none is a later cycle's, *)
(* nor that of a cycle still looking.                                       *)
Deciding ==
  /\ \A c \in thinking : c <= cycle
  /\ pc \in {"candidates", "gates"} => cycle \notin thinking
PositionOf ==
  /\ \A i \in DOMAIN made : made[i].cycle <= cycle
  /\ pc \in {"candidates", "gates"} => \A i \in DOMAIN made : made[i].cycle # cycle
  /\ pc # "idle" => \A i \in before : made[i].cycle # cycle

(* What the loop and the bridge have opened for the cycles they know.      *)
LoopOnce ==
  pc = "loop" =>
    /\ Early("loop") => ~locked
    /\ \A i \in DOMAIN made : made[i].cycle = cycle =>
         /\ locked \/ (Active("loop") /\ ~Early("loop"))
         /\ made[i].ok => fired \/ Landed("loop")
BridgeOnce ==
  decider = "sage" =>
    /\ \A h \in Handlers : Early(h) => calls[h].cycle \notin seen
    /\ \A i \in DOMAIN made : made[i].ok /\ made[i].cycle # NoCycle =>
         \/ made[i].cycle \in seen
         \/ \E h \in Handlers : calls[h].cycle = made[i].cycle /\ Landed(h)

(* A cycle that declined is over, and so is its Sage session.              *)
DeclinedIsOver ==
  \A e \in log : e.kind = "declined" =>
    /\ e.cycle \in 1..cycle /\ e.cycle \notin thinking
    /\ pc # "idle" => e.cycle # cycle

(* A call past its deploy names the position it opened.                    *)
AtIsMade ==
  \A r \in Routes : calls[r].step \in {"track", "log"} =>
    /\ calls[r].at \in DOMAIN made
    /\ calls[r].cycle = made[calls[r].at].cycle

CycleInv ==
  /\ TypeOK /\ OneAtATime /\ CycleOf /\ Deciding /\ PositionOf
  /\ LoopOnce /\ BridgeOnce /\ DeclinedIsOver /\ AtIsMade
  /\ OnePerCycle /\ DeclineIsTrue /\ LandedIsLogged

(* The calls the cap has let through, that have not deployed yet.          *)
Sending == {r \in Routes : calls[r].step = "send"}

---------------------------------------------------------------------------
(* What a step does to the calls                                           *)

CallSteps == {"idle", "gates", "cap", "send", "track", "log", "done"}

(* A call changes alone. *)
LEMMA CallMoves ==
  ASSUME calls \in [Routes -> CallType], NEW r \in Routes, NEW v \in CallType,
         calls' = [calls EXCEPT ![r] = v]
  PROVE  /\ calls' \in [Routes -> CallType] /\ calls'[r] = v
         /\ \A q \in Routes : q # r => calls'[q] = calls[q]
  OBVIOUS

(* Moving on keeps everything else of the call. *)
LEMMA StepMoves ==
  ASSUME calls \in [Routes -> CallType], NEW r \in Routes, NEW s \in CallSteps, Step(r, s)
  PROVE  /\ calls' \in [Routes -> CallType]
         /\ calls'[r].step = s /\ calls'[r].cycle = calls[r].cycle
         /\ calls'[r].pool = calls[r].pool /\ calls'[r].at = calls[r].at
         /\ \A q \in Routes : q # r => calls'[q] = calls[q]
<1> DEFINE v == [calls[r] EXCEPT !.step = s]
<1>1. v \in CallType /\ v.step = s /\ v.cycle = calls[r].cycle /\ v.pool = calls[r].pool
      /\ v.at = calls[r].at
  BY DEF CallType, CallSteps
<1>2. calls' = [calls EXCEPT ![r] = v]
  BY DEF Step
<1> HIDE DEF v
<1> QED BY <1>1, <1>2, CallMoves

(* Failing too. *)
LEMMA FailMoves ==
  ASSUME calls \in [Routes -> CallType], NEW r \in Routes, Fail(r)
  PROVE  /\ calls' \in [Routes -> CallType]
         /\ calls'[r].step = "done" /\ ~calls'[r].ok /\ calls'[r].cycle = calls[r].cycle
         /\ \A q \in Routes : q # r => calls'[q] = calls[q]
<1> DEFINE v == [calls[r] EXCEPT !.step = "done", !.ok = FALSE]
<1>1. v \in CallType /\ v.step = "done" /\ ~v.ok /\ v.cycle = calls[r].cycle
  BY DEF CallType
<1>2. calls' = [calls EXCEPT ![r] = v]
  BY DEF Fail
<1> HIDE DEF v
<1> QED BY <1>1, <1>2, CallMoves

(* A deploy that confirmed goes on to the hooks, naming its position. *)
LEMMA LandMoves ==
  ASSUME calls \in [Routes -> CallType], NEW r \in Routes, NEW n \in 0..MaxDeploys,
         calls' = [calls EXCEPT ![r].step = "track", ![r].at = n]
  PROVE  /\ calls' \in [Routes -> CallType]
         /\ calls'[r].step = "track" /\ calls'[r].at = n /\ calls'[r].cycle = calls[r].cycle
         /\ \A q \in Routes : q # r => calls'[q] = calls[q]
<1> DEFINE v == [calls[r] EXCEPT !.step = "track", !.at = n]
<1>1. v \in CallType /\ v.step = "track" /\ v.at = n /\ v.cycle = calls[r].cycle
  BY DEF CallType
<1>2. calls' = [calls EXCEPT ![r] = v]
  OBVIOUS
<1> HIDE DEF v
<1> QED BY <1>1, <1>2, CallMoves

(* The last hook succeeds, and the call with it. *)
LEMMA DoneMoves ==
  ASSUME calls \in [Routes -> CallType], NEW r \in Routes,
         calls' = [calls EXCEPT ![r].step = "done", ![r].ok = TRUE]
  PROVE  /\ calls' \in [Routes -> CallType]
         /\ calls'[r].step = "done" /\ calls'[r].ok
         /\ calls'[r].cycle = calls[r].cycle
         /\ \A q \in Routes : q # r => calls'[q] = calls[q]
<1> DEFINE v == [calls[r] EXCEPT !.step = "done", !.ok = TRUE]
<1>1. v \in CallType /\ v.step = "done" /\ v.ok /\ v.cycle = calls[r].cycle
  BY DEF CallType
<1>2. calls' = [calls EXCEPT ![r] = v]
  OBVIOUS
<1> HIDE DEF v
<1> QED BY <1>1, <1>2, CallMoves

(* A new call of a route. *)
LEMMA StartMoves ==
  ASSUME calls \in [Routes -> CallType], NEW r \in Routes,
         NEW p \in Pools, NEW c \in Cycles \cup {NoCycle}, StartCall(r, p, c)
  PROVE  /\ calls' \in [Routes -> CallType]
         /\ calls'[r].step = "gates" /\ calls'[r].cycle = c
         /\ \A q \in Routes : q # r => calls'[q] = calls[q]
<1> DEFINE v == [NoCall EXCEPT !.step = "gates", !.pool = {p}, !.cycle = c]
<1>0. 0 \in 0..MaxDeploys
  BY BoundsAssumption
<1>1. v \in CallType /\ v.step = "gates" /\ v.cycle = c
  BY <1>0 DEF CallType, NoCall
<1>2. calls' = [calls EXCEPT ![r] = v]
  BY DEF StartCall
<1> HIDE DEF v
<1> QED BY <1>1, <1>2, CallMoves

(* The end of one. *)
LEMMA ClearMoves ==
  ASSUME calls \in [Routes -> CallType], NEW r \in Routes,
         calls' = [calls EXCEPT ![r] = NoCall]
  PROVE  /\ calls' \in [Routes -> CallType]
         /\ calls'[r].step = "idle"
         /\ \A q \in Routes : q # r => calls'[q] = calls[q]
<1>1. NoCall \in CallType /\ NoCall.step = "idle"
  BY BoundsAssumption DEF CallType, NoCall
<1> QED BY <1>1, CallMoves

---------------------------------------------------------------------------
(* Typing                                                                  *)

(* A new position is well formed, and the next in line. *)
LEMMA MadeGrows ==
  ASSUME made \in Seq(MadeType), NEW m \in MadeType, made' = Append(made, m)
  PROVE  /\ made' \in Seq(MadeType) /\ Len(made') = Len(made) + 1
         /\ DOMAIN made' = DOMAIN made \cup {Len(made) + 1}
         /\ Len(made) + 1 \notin DOMAIN made
         /\ made'[Len(made) + 1] = m
         /\ \A i \in DOMAIN made : made'[i] = made[i]
  OBVIOUS

(* What Land opens: the position is the next one, for the call's pool and  *)
(* cycle, and reports what the call reports.                               *)
LEMMA LandOpens ==
  ASSUME TypeOK, NEW r \in Routes, Land(r)
  PROVE  LET n == Len(made) + 1 IN
         /\ calls[r].step = "send" /\ n \in 1..MaxDeploys
         /\ made' \in Seq(MadeType) /\ Len(made') = n
         /\ DOMAIN made' = DOMAIN made \cup {n} /\ n \notin DOMAIN made
         /\ \A i \in DOMAIN made : made'[i] = made[i]
         /\ made'[n].cycle = calls[r].cycle /\ ~made'[n].byHand
         /\ calls' \in [Routes -> CallType] /\ calls'[r].cycle = calls[r].cycle
         /\ IF made'[n].ok THEN calls'[r].step = "track" /\ calls'[r].at = n
                           ELSE calls'[r].step = "done" /\ ~calls'[r].ok
         /\ \A q \in Routes : q # r => calls'[q] = calls[q]
         /\ live' = live \cup {n}
<1> DEFINE n == Len(made) + 1
<1>1. PICK ok \in BOOLEAN :
        /\ made' = Append(made, [pool |-> calls[r].pool, cycle |-> calls[r].cycle, ok |-> ok, byHand |-> FALSE])
        /\ IF ok THEN calls' = [calls EXCEPT ![r].step = "track", ![r].at = n] ELSE Fail(r)
  BY DEF Land
<1> DEFINE m == [pool |-> calls[r].pool, cycle |-> calls[r].cycle, ok |-> ok, byHand |-> FALSE]
<1>2. made \in Seq(MadeType) /\ Len(made) \in Nat /\ MaxDeploys \in Nat /\ Len(made) < MaxDeploys
  BY BoundsAssumption DEF TypeOK, Land
<1>3. n \in 1..MaxDeploys /\ n \in 0..MaxDeploys
  BY <1>2
<1>4. calls \in [Routes -> CallType] /\ calls[r] \in CallType
  BY DEF TypeOK
<1>5. m \in MadeType /\ m.cycle = calls[r].cycle /\ m.ok = ok /\ ~m.byHand
  BY <1>4 DEF MadeType, CallType
<1> HIDE DEF m, n
<1>6. /\ made' \in Seq(MadeType) /\ Len(made') = Len(made) + 1
      /\ DOMAIN made' = DOMAIN made \cup {Len(made) + 1} /\ Len(made) + 1 \notin DOMAIN made
      /\ made'[Len(made) + 1] = m /\ \A i \in DOMAIN made : made'[i] = made[i]
  BY <1>1, <1>2, <1>5, MadeGrows DEF m
<1>7. CASE ok
  <2>1. calls' = [calls EXCEPT ![r].step = "track", ![r].at = n]
    BY <1>1, <1>7
  <2>2. /\ calls' \in [Routes -> CallType]
        /\ calls'[r].step = "track" /\ calls'[r].at = n /\ calls'[r].cycle = calls[r].cycle
        /\ \A q \in Routes : q # r => calls'[q] = calls[q]
    BY <1>3, <1>4, <2>1, LandMoves
  <2> QED BY <1>3, <1>5, <1>6, <1>7, <2>2 DEF Land, n
<1>8. CASE ~ok
  <2>1. Fail(r)
    BY <1>1, <1>8
  <2>2. /\ calls' \in [Routes -> CallType]
        /\ calls'[r].step = "done" /\ ~calls'[r].ok /\ calls'[r].cycle = calls[r].cycle
        /\ \A q \in Routes : q # r => calls'[q] = calls[q]
    BY <1>4, <2>1, FailMoves
  <2> QED BY <1>3, <1>5, <1>6, <1>8, <2>2 DEF Land, n
<1> QED BY <1>7, <1>8

(* What /deploy opens: the next position too, marked, and nothing else moves. *)
LEMMA HandMoves ==
  ASSUME TypeOK, NEW p \in Pools, DeployByHand(p)
  PROVE  LET n == Len(made) + 1 IN
         /\ n \in 1..MaxDeploys
         /\ made' \in Seq(MadeType) /\ Len(made') = n
         /\ DOMAIN made' = DOMAIN made \cup {n} /\ n \notin DOMAIN made
         /\ \A i \in DOMAIN made : made'[i] = made[i]
         /\ made'[n].cycle = NoCycle /\ ~made'[n].ok /\ made'[n].byHand
         /\ live' = live \cup {n}
         /\ UNCHANGED <<decider, company, cooling, log, calls, busy, seen, thinking,
                        pc, cycle, before, steps, locked, fired>>
<1> DEFINE n == Len(made) + 1
           m == [pool |-> {p}, cycle |-> NoCycle, ok |-> FALSE, byHand |-> TRUE]
<1>1. made \in Seq(MadeType) /\ Len(made) \in Nat /\ MaxDeploys \in Nat /\ Len(made) < MaxDeploys
  BY BoundsAssumption DEF TypeOK, DeployByHand
<1>2. n \in 1..MaxDeploys
  BY <1>1
<1>3. m \in MadeType /\ m.cycle = NoCycle /\ ~m.ok /\ m.byHand
  BY DEF MadeType
<1>4. made' = Append(made, m) /\ live' = live \cup {n}
  BY DEF DeployByHand
<1>5. UNCHANGED <<decider, company, cooling, log, calls, busy, seen, thinking,
                  pc, cycle, before, steps, locked, fired>>
  BY DEF DeployByHand, bridge, locals, session
<1> HIDE DEF m
<1>6. /\ made' \in Seq(MadeType) /\ Len(made') = Len(made) + 1
      /\ DOMAIN made' = DOMAIN made \cup {Len(made) + 1} /\ Len(made) + 1 \notin DOMAIN made
      /\ made'[Len(made) + 1] = m /\ \A i \in DOMAIN made : made'[i] = made[i]
  BY <1>1, <1>3, <1>4, MadeGrows
<1> QED BY <1>2, <1>3, <1>4, <1>5, <1>6

(* An entry is well formed. *)
LEMMA LogType ==
  ASSUME NEW kind \in {"skip", "no_deploy", "declined", "unreachable", "deploy"},
         NEW c \in Cycles \cup {NoCycle}, NEW n \in 0..MaxDeploys
  PROVE  Entry(kind, c, n) \in EntryType
  BY DEF Entry, EntryType

(* So is what a cycle leaves when it ends. *)
LEMMA EndCycleType ==
  ASSUME TypeOK, cycle \in Cycles, UNCHANGED cycle,
         NEW kind \in {"silent", "no_deploy", "declined", "unreachable"}, EndCycle(kind)
  PROVE  /\ log' \subseteq EntryType /\ pc' = "idle" /\ before' = {}
         /\ steps' \in 0..MaxSteps /\ locked' \in BOOLEAN /\ fired' \in BOOLEAN
<1>1. 0 \in 0..MaxDeploys /\ 0 \in 0..MaxSteps
  BY BoundsAssumption
<1>2. kind # "silent" => Entry(kind, cycle, 0) \in EntryType
  BY <1>1, LogType
<1> QED BY <1>1, <1>2 DEF EndCycle, TypeOK

(* A cycle under way has its number. *)
Typed == TypeOK /\ (pc # "idle" => cycle \in Cycles)

(* Every step of a tool call keeps the types. *)
LEMMA RunToolTyped ==
  ASSUME Typed, NEW r \in Routes, RunTool(r)
  PROVE  Typed'
<1> USE DEF Typed
<1>0. /\ calls \in [Routes -> CallType] /\ TypeOK
      /\ {"cap", "send", "log", "done"} \subseteq CallSteps
  BY DEF TypeOK, CallSteps
<1>1. CASE PassGates(r)
  <2>1. calls' \in [Routes -> CallType]
    BY <1>0, <1>1, StepMoves, FailMoves DEF PassGates
  <2> QED BY <1>0, <1>1, <2>1 DEF PassGates, TypeOK, stores, bridge, locals, session
<1>2. CASE CheckCap(r)
  <2>1. calls' \in [Routes -> CallType]
    BY <1>0, <1>2, StepMoves, FailMoves DEF CheckCap
  <2> QED BY <1>0, <1>2, <2>1 DEF CheckCap, TypeOK, stores, bridge, locals, session
<1>3. CASE Land(r)
  <2>1. /\ made' \in Seq(MadeType) /\ Len(made') = Len(made) + 1 /\ Len(made) + 1 \in 1..MaxDeploys
        /\ DOMAIN made' = DOMAIN made \cup {Len(made) + 1}
        /\ live' = live \cup {Len(made) + 1} /\ calls' \in [Routes -> CallType]
    BY <1>0, <1>3, LandOpens
  <2>2. Len(made') <= MaxDeploys
    BY <2>1, BoundsAssumption
  <2> QED BY <1>0, <1>3, <2>1, <2>2 DEF Land, TypeOK, bridge, locals, session
<1>4. CASE NotSent(r)
  <2>1. calls' \in [Routes -> CallType]
    BY <1>0, <1>4, FailMoves DEF NotSent
  <2> QED BY <1>0, <1>4, <2>1 DEF NotSent, TypeOK, stores, bridge, locals, session
<1>5. CASE TrackAndNotify(r)
  <2>1. calls' \in [Routes -> CallType]
    BY <1>0, <1>5, StepMoves DEF TrackAndNotify
  <2> QED BY <1>0, <1>5, <2>1 DEF TrackAndNotify, TypeOK, stores, bridge, locals, session
<1>6. CASE LogDeploy(r)
  <2>1. calls' \in [Routes -> CallType]
    BY <1>0, <1>6, DoneMoves DEF LogDeploy
  <2>2. calls[r].cycle \in Cycles \cup {NoCycle} /\ calls[r].at \in 0..MaxDeploys
    BY <1>0 DEF CallType
  <2>3. log' \subseteq EntryType
    BY <1>0, <1>6, <2>2, LogType DEF LogDeploy, TypeOK
  <2> QED BY <1>0, <1>6, <2>1, <2>3 DEF LogDeploy, TypeOK, bridge, locals, session
<1> QED BY <1>1, <1>2, <1>3, <1>4, <1>5, <1>6 DEF RunTool

(* So does every step of the cycle. *)
LEMMA CycleStepTyped ==
  ASSUME Typed, CycleStep
  PROVE  Typed'
<1> USE DEF Typed
<1>0. /\ TypeOK /\ calls \in [Routes -> CallType] /\ "loop" \in Routes
      /\ MaxCycles \in Nat /\ MaxSteps \in Nat /\ 0 \in 0..MaxDeploys
  BY BoundsAssumption DEF TypeOK, Routes
<1>1. CASE Preflight
  <2>1. cycle + 1 \in Cycles /\ cycle' = cycle + 1
    BY <1>0, <1>1 DEF Preflight, TypeOK, Cycles
  <2>2. Entry("skip", cycle + 1, 0) \in EntryType
    BY <1>0, <2>1, LogType
  <2>3. log' \subseteq EntryType /\ pc' \in {"idle", "candidates"} /\ before' \subseteq DOMAIN made
    BY <1>1, <2>2 DEF Preflight, TypeOK, Goto
  <2> QED BY <1>0, <1>1, <2>1, <2>3 DEF Preflight, TypeOK, Cycles, bridge, session
<1>2. CASE NoCandidates
  <2>1. PICK kind \in {"silent", "no_deploy"} : EndCycle(kind)
    BY <1>2 DEF NoCandidates
  <2>2. cycle \in Cycles /\ UNCHANGED cycle
    BY <1>2 DEF NoCandidates
  <2>3. /\ log' \subseteq EntryType /\ pc' = "idle" /\ before' = {}
        /\ steps' \in 0..MaxSteps /\ locked' \in BOOLEAN /\ fired' \in BOOLEAN
    BY <1>0, <2>1, <2>2, EndCycleType
  <2> QED BY <1>0, <1>2, <2>3 DEF NoCandidates, TypeOK, bridge
<1>3. CASE Candidates
  BY <1>0, <1>3 DEF Candidates, Goto, TypeOK, stores, bridge, session
<1>4. CASE NoneLeft
  <2>1. EndCycle("no_deploy") /\ cycle \in Cycles /\ UNCHANGED cycle
    BY <1>4 DEF NoneLeft
  <2>2. /\ log' \subseteq EntryType /\ pc' = "idle" /\ before' = {}
        /\ steps' \in 0..MaxSteps /\ locked' \in BOOLEAN /\ fired' \in BOOLEAN
    BY <1>0, <2>1, EndCycleType
  <2> QED BY <1>0, <1>4, <2>2 DEF NoneLeft, TypeOK, bridge
<1>5. CASE Shortlist
  BY <1>0, <1>5 DEF Shortlist, Goto, TypeOK, stores, session
<1>6. ASSUME NEW p \in Pools, ModelCalls(p) PROVE Typed'
  <2>1. calls' \in [Routes -> CallType]
    BY <1>0, <1>6, StartMoves DEF ModelCalls
  <2>2. steps' \in 0..MaxSteps
    BY <1>0, <1>6 DEF ModelCalls, TypeOK
  <2> QED BY <1>0, <1>6, <2>1, <2>2 DEF ModelCalls, TypeOK, stores, bridge
<1>7. CASE RecordAttempt
  <2>1. calls' \in [Routes -> CallType]
    BY <1>0, <1>7, ClearMoves DEF RecordAttempt
  <2>2. calls["loop"].ok \in BOOLEAN
    BY <1>0 DEF CallType
  <2> QED BY <1>0, <1>7, <2>1, <2>2 DEF RecordAttempt, TypeOK, stores, bridge
<1>8. CASE LoopEnds
  <2>1. PICK kind \in {"silent", "declined"} : EndCycle(kind)
    BY <1>8 DEF LoopEnds
  <2>2. cycle \in Cycles /\ UNCHANGED cycle
    BY <1>8 DEF LoopEnds
  <2>3. /\ log' \subseteq EntryType /\ pc' = "idle" /\ before' = {}
        /\ steps' \in 0..MaxSteps /\ locked' \in BOOLEAN /\ fired' \in BOOLEAN
    BY <1>0, <2>1, <2>2, EndCycleType
  <2> QED BY <1>0, <1>8, <2>3 DEF LoopEnds, TypeOK, bridge
<1>9. CASE SageAnswered \/ SageTimesOut
  <2>1. PICK kind \in {"silent", "declined", "unreachable"} : EndCycle(kind)
    BY <1>9 DEF SageAnswered, SageTimesOut
  <2>2. cycle \in Cycles /\ UNCHANGED cycle
    BY <1>9 DEF SageAnswered, SageTimesOut, Decided
  <2>3. /\ log' \subseteq EntryType /\ pc' = "idle" /\ before' = {}
        /\ steps' \in 0..MaxSteps /\ locked' \in BOOLEAN /\ fired' \in BOOLEAN
    BY <1>0, <2>1, <2>2, EndCycleType
  <2> QED BY <1>0, <1>9, <2>3 DEF SageAnswered, SageTimesOut, TypeOK, bridge
<1> QED
  BY <1>1, <1>2, <1>3, <1>4, <1>5, <1>6, <1>7, <1>8, <1>9 DEF CycleStep

(* A request, and its answer. *)
LEMMA BridgeTyped ==
  ASSUME Typed, NEW h \in Handlers, SageAsks(h) \/ UserAsks(h) \/ Answer(h)
  PROVE  Typed'
<1> USE DEF Typed
<1>0. /\ TypeOK /\ calls \in [Routes -> CallType] /\ h \in Routes
  BY DEF TypeOK, Routes
<1>1. ASSUME NEW p \in Pools, NEW c \in Cycles \cup {NoCycle}, Ask(h, p, c) PROVE Typed'
  <2>1. calls' \in [Routes -> CallType]
    BY <1>0, <1>1, StartMoves DEF Ask
  <2> QED BY <1>0, <1>1, <2>1 DEF Ask, TypeOK, stores, locals, session
<1>2. CASE Answer(h)
  <2>1. calls' \in [Routes -> CallType]
    BY <1>0, <1>2, ClearMoves DEF Answer
  <2>2. calls[h].cycle \in Cycles \cup {NoCycle}
    BY <1>0 DEF CallType
  <2>3. seen' \subseteq Cycles
    BY <1>0, <1>2, <2>2 DEF Answer, TypeOK
  <2> QED BY <1>0, <1>2, <2>1, <2>3 DEF Answer, TypeOK, stores, locals, session
<1> QED
  BY <1>0, <1>1, <1>2 DEF SageAsks, UserAsks, TypeOK

(* So does every step whatsoever. *)
LEMMA NextTyped ==
  ASSUME Typed, [Next]_vars
  PROVE  Typed'
<1>0. /\ TypeOK /\ calls \in [Routes -> CallType] /\ Others \subseteq Routes
  BY DEF Typed, TypeOK, Routes
<1>1. CASE CycleStep
  BY <1>1, CycleStepTyped
<1>2. ASSUME NEW r \in Routes, RunTool(r) PROVE Typed'
  BY <1>2, RunToolTyped
<1>3. ASSUME NEW h \in Handlers, SageAsks(h) \/ UserAsks(h) \/ Answer(h) PROVE Typed'
  BY <1>3, BridgeTyped
<1>4. ASSUME NEW c \in Cycles, SageStops(c) PROVE Typed'
  BY <1>0, <1>4 DEF SageStops, Typed, TypeOK, stores, locals, session
<1>5. ASSUME NEW r \in Others, OtherDeploys(r) PROVE Typed'
  <2>1. calls' \in [Routes -> CallType]
    BY <1>0, <1>5, StartMoves DEF OtherDeploys
  <2> QED BY <1>0, <1>5, <2>1 DEF OtherDeploys, Typed, TypeOK, stores, bridge, locals, session
<1>6. ASSUME NEW r \in Others, OtherDone(r) PROVE Typed'
  <2>1. calls' \in [Routes -> CallType]
    BY <1>0, <1>6, ClearMoves DEF OtherDone
  <2> QED BY <1>0, <1>6, <2>1 DEF OtherDone, Typed, TypeOK, stores, bridge, locals, session
<1>7. ASSUME NEW i \in live, Close(i) PROVE Typed'
  <2>1. made[i] \in MadeType
    BY <1>0 DEF TypeOK
  <2>2. made[i].pool \subseteq Pools
    BY <2>1 DEF MadeType
  <2>3. cooling' \subseteq Pools
    BY <1>0, <1>7, <2>2 DEF Close, TypeOK
  <2> QED BY <1>0, <1>7, <2>3 DEF Close, Typed, TypeOK, bridge, locals, session
<1>8. ASSUME NEW p \in Pools, CooldownEnds(p) PROVE Typed'
  BY <1>0, <1>8 DEF CooldownEnds, Typed, TypeOK, bridge, locals, session
<1>9. CASE UNCHANGED vars
  BY <1>0, <1>9 DEF vars, Typed, TypeOK, stores, bridge, locals, session
<1>10. ASSUME NEW p \in Pools, DeployByHand(p) PROVE Typed'
  <2>1. Len(made') <= MaxDeploys /\ MaxDeploys \in Nat
    BY <1>0, <1>10, HandMoves, BoundsAssumption
  <2> QED BY <1>0, <1>10, <2>1, HandMoves DEF Typed, TypeOK
<1> QED
  BY <1>1, <1>2, <1>3, <1>4, <1>5, <1>6, <1>7, <1>8, <1>9, <1>10 DEF Next

(* The start is well typed. *)
LEMMA InitTyped == Init => Typed
<1>1. 0 \in 0..MaxDeploys /\ 0 \in 0..MaxSteps /\ 0 \in 0..MaxCycles /\ 0 <= MaxDeploys
  BY BoundsAssumption
<1>2. NoCall \in CallType
  BY <1>1 DEF NoCall, CallType
<1>3. <<>> \in Seq(MadeType) /\ Len(<<>>) = 0
  OBVIOUS
<1>4. ASSUME Init PROVE TypeOK
  <2>1. calls \in [Routes -> CallType]
    BY <1>2, <1>4 DEF Init
  <2> QED BY <1>1, <1>3, <1>4, <2>1 DEF Init, TypeOK
<1> QED BY <1>4 DEF Init, Typed

(* The variables keep their types whatever the routes do. *)
THEOREM TypeCorrect == Spec => []TypeOK
<1>1. Typed /\ [Next]_vars => Typed'
  BY NextTyped
<1>2. Typed => TypeOK
  BY DEF Typed
<1> QED BY <1>1, <1>2, InitTyped, PTL DEF Spec

---------------------------------------------------------------------------
(* What the steps do to what the invariants speak of                       *)

(* The steps of a call that change nothing else. *)
Advances(r) == PassGates(r) \/ CheckCap(r) \/ NotSent(r) \/ TrackAndNotify(r)
OnlyCalls   == UNCHANGED <<decider, company, made, live, cooling, log, busy, seen, thinking,
                           pc, cycle, before, steps, locked, fired>>
OnlyCall(r) == \A q \in Routes : q # r => calls'[q] = calls[q]

(* They move one call, in order; only below the cap does one come to send. *)
LEMMA AdvanceMoves ==
  ASSUME Typed, NEW r \in Routes, Advances(r)
  PROVE  /\ OnlyCalls /\ OnlyCall(r)
         /\ calls'[r].cycle = calls[r].cycle
         /\ \/ calls[r].step = "gates" /\ calls'[r].step = "cap"
            \/ /\ calls[r].step = "cap" /\ calls'[r].step = "send"
               /\ Cardinality(live) < MaxPositions
            \/ /\ calls[r].step \in {"gates", "cap", "send"}
               /\ calls'[r].step = "done" /\ ~calls'[r].ok
            \/ /\ calls[r].step = "track" /\ calls'[r].step = "log"
               /\ calls'[r].at = calls[r].at
<1>0. /\ calls \in [Routes -> CallType]
      /\ {"cap", "send", "log", "done"} \subseteq CallSteps
  BY DEF Typed, TypeOK, CallSteps
<1> USE DEF OnlyCalls, OnlyCall, stores, bridge, locals, session
<1>1. CASE PassGates(r)
  BY <1>0, <1>1, StepMoves, FailMoves DEF PassGates
<1>2. CASE CheckCap(r)
  <2>1. live \subseteq 1..Len(made) /\ Len(made) \in Nat /\ MaxPositions \in Nat
    BY BoundsAssumption DEF Typed, TypeOK
  <2>2. IsFiniteSet(live)
    <3>1. IsFiniteSet(1..Len(made))
      BY <2>1, FS_Interval
    <3> QED BY <2>1, <3>1, FS_Subset
  <2>3. Cardinality(live) \in Nat
    BY <2>2, FS_CardinalityType
  <2>4. calls[r].step = "cap" /\ OnlyCalls
    BY <1>2 DEF CheckCap
  <2>5. CASE Cardinality(live) >= MaxPositions
    BY <1>0, <1>2, <2>4, <2>5, FailMoves DEF CheckCap
  <2>6. CASE ~(Cardinality(live) >= MaxPositions)
    <3>1. Step(r, "send") /\ Cardinality(live) < MaxPositions
      BY <1>2, <2>1, <2>3, <2>6 DEF CheckCap
    <3> QED BY <1>0, <2>4, <3>1, StepMoves
  <2> QED BY <2>5, <2>6
<1>3. CASE NotSent(r)
  BY <1>0, <1>3, FailMoves DEF NotSent
<1>4. CASE TrackAndNotify(r)
  BY <1>0, <1>4, StepMoves DEF TrackAndNotify
<1> QED BY <1>1, <1>2, <1>3, <1>4 DEF Advances

(* The log hook records the deploy and ends the call. *)
LEMMA LogMoves ==
  ASSUME Typed, NEW r \in Routes, LogDeploy(r)
  PROVE  /\ OnlyCall(r)
         /\ calls'[r].cycle = calls[r].cycle
         /\ calls[r].step = "log" /\ calls'[r].step = "done" /\ calls'[r].ok
         /\ log' = log \cup {Entry("deploy", calls[r].cycle, calls[r].at)}
         /\ UNCHANGED <<decider, company, made, live, busy, seen, thinking,
                        pc, cycle, before, locked, fired>>
<1>1. calls \in [Routes -> CallType]
  BY DEF Typed, TypeOK
<1> QED BY <1>1, DoneMoves DEF LogDeploy, OnlyCall, bridge, locals, session

(* A deploy that lands touches nothing but the chain and its call. *)
LEMMA LandFrame ==
  ASSUME NEW r \in Routes, Land(r)
  PROVE  UNCHANGED <<decider, company, cooling, log, busy, seen, thinking,
                     pc, cycle, before, steps, locked, fired>>
  BY DEF Land, bridge, locals, session

(* A request takes the free bridge for a cycle it has not committed. *)
LEMMA AskMoves ==
  ASSUME Typed, NEW h \in Handlers, NEW p \in Pools, NEW c \in thinking \cup {NoCycle},
         Ask(h, p, c)
  PROVE  /\ OnlyCall(h)
         /\ ~busy /\ busy' /\ c \notin seen
         /\ calls[h].step = "idle" /\ calls'[h].step = "gates" /\ calls'[h].cycle = c
         /\ UNCHANGED <<decider, company, made, live, cooling, log, seen, thinking,
                        pc, cycle, before, steps, locked, fired>>
<1>1. calls \in [Routes -> CallType] /\ h \in Routes /\ c \in Cycles \cup {NoCycle}
  BY DEF Typed, TypeOK, Routes
<1> QED BY <1>1, StartMoves DEF Ask, OnlyCall, stores, locals, session

(* Its answer frees the bridge, and commits a success. *)
LEMMA AnswerMoves ==
  ASSUME Typed, NEW h \in Handlers, Answer(h)
  PROVE  /\ OnlyCall(h)
         /\ ~busy' /\ calls[h].step = "done" /\ calls'[h].step = "idle"
         /\ seen \subseteq seen'
         /\ calls[h].ok /\ calls[h].cycle # NoCycle => calls[h].cycle \in seen'
         /\ UNCHANGED <<decider, company, made, live, cooling, log, thinking,
                        pc, cycle, before, steps, locked, fired>>
<1>1. calls \in [Routes -> CallType] /\ h \in Routes
  BY DEF Typed, TypeOK, Routes
<1> QED BY <1>1, ClearMoves DEF Answer, OnlyCall, stores, locals, session

(* Another route starts a call and ends it. *)
LEMMA OtherMoves ==
  ASSUME Typed, NEW o \in Others, OtherDeploys(o) \/ OtherDone(o)
  PROVE  /\ OnlyCalls /\ OnlyCall(o)
         /\ \/ /\ calls[o].step = "idle" /\ calls'[o].step = "gates"
               /\ calls'[o].cycle = NoCycle /\ o \in company
            \/ calls[o].step = "done" /\ calls'[o].step = "idle"
<1>1. calls \in [Routes -> CallType] /\ o \in Routes
  BY DEF Typed, TypeOK, Routes
<1>2. CASE OtherDeploys(o)
  <2>1. PICK p \in Pools : StartCall(o, p, NoCycle)
    BY <1>2 DEF OtherDeploys
  <2> QED BY <1>1, <1>2, <2>1, StartMoves
          DEF OtherDeploys, OnlyCall, OnlyCalls, stores, bridge, locals, session
<1>3. CASE OtherDone(o)
  BY <1>1, <1>3, ClearMoves
     DEF OtherDone, OnlyCall, OnlyCalls, stores, bridge, locals, session
<1> QED BY <1>2, <1>3

(* The model starts a call for its cycle, unless the tool is locked. *)
LEMMA ModelMoves ==
  ASSUME Typed, NEW p \in Pools, ModelCalls(p)
  PROVE  /\ OnlyCall("loop") /\ pc = "loop" /\ calls["loop"].step = "idle"
         /\ IF locked THEN calls' = calls
            ELSE calls'["loop"].step = "gates" /\ calls'["loop"].cycle = cycle
         /\ UNCHANGED <<decider, company, made, live, cooling, log, busy, seen, thinking,
                        pc, cycle, before, locked, fired>>
<1>1. calls \in [Routes -> CallType] /\ "loop" \in Routes
  BY DEF Typed, TypeOK, Routes
<1>2. cycle \in Cycles \cup {NoCycle}
  BY DEF Typed, ModelCalls
<1> QED BY <1>1, <1>2, StartMoves DEF ModelCalls, OnlyCall, stores, bridge

(* The loop records the attempt. *)
LEMMA RecordMoves ==
  ASSUME Typed, RecordAttempt
  PROVE  /\ OnlyCall("loop")
         /\ calls["loop"].step = "done" /\ calls'["loop"].step = "idle"
         /\ locked' /\ (fired \/ calls["loop"].ok => fired')
         /\ UNCHANGED <<decider, company, made, live, cooling, log, busy, seen, thinking,
                        pc, cycle, before, steps>>
<1>1. calls \in [Routes -> CallType] /\ "loop" \in Routes
  BY DEF Typed, TypeOK, Routes
<1> QED BY <1>1, ClearMoves DEF RecordAttempt, OnlyCall, stores, bridge

(* A cycle ends from a place of its own, at most recording how. *)
CycleOver == NoCandidates \/ NoneLeft \/ LoopEnds \/ SageAnswered \/ SageTimesOut
LEMMA OverMoves ==
  ASSUME CycleOver
  PROVE  /\ pc # "idle" /\ pc' = "idle" /\ (pc = "loop" => calls["loop"].step = "idle")
         /\ log \subseteq log'
         /\ \A e \in log' : e \in log \/
              (e.kind = "declined" =>
                 /\ e.cycle = cycle
                 /\ \/ pc = "loop" /\ ~fired
                    \/ pc = "sage" /\ cycle \notin thinking /\ live \subseteq before)
         /\ UNCHANGED <<decider, company, made, live, cooling, calls, busy, seen, thinking, cycle>>
         /\ ~locked' /\ ~fired' /\ before' = {}
<1> USE DEF EndCycle, Entry, bridge
<1>1. CASE NoCandidates \/ NoneLeft
  BY <1>1 DEF NoCandidates, NoneLeft
<1>2. CASE LoopEnds
  BY <1>2 DEF LoopEnds
<1>3. CASE SageAnswered
  BY <1>3 DEF SageAnswered, Decided, DetectDeploy
<1>4. CASE SageTimesOut
  BY <1>4 DEF SageTimesOut, Decided
<1> QED BY <1>1, <1>2, <1>3, <1>4 DEF CycleOver

---------------------------------------------------------------------------
(* One deploy at a time per route                                          *)

(* The bridge lets one request in, and each decider works alone. *)
LEMMA OneAtATimeKept ==
  ASSUME Typed, OneAtATime, [Next]_vars
  PROVE  OneAtATime'
<1> USE DEF OneAtATime, Active, OnlyCall, OnlyCalls
<1>0. /\ Handlers \subseteq Routes /\ "loop" \in Routes /\ Others \subseteq Routes
      /\ "loop" \notin Handlers \cup Others /\ Handlers \cap Others = {}
  BY RoutesAssumption DEF Routes, Others
<1>1. ASSUME NEW r \in Routes, RunTool(r) PROVE OneAtATime'
  <2>1. CASE Advances(r)
    BY <1>0, <2>1, AdvanceMoves
  <2>2. CASE Land(r)
    <3>1. calls[r].step = "send" /\ \A q \in Routes : q # r => calls'[q] = calls[q]
      BY <2>2, LandOpens DEF Typed
    <3> QED BY <1>0, <2>2, <3>1, LandFrame
  <2>3. CASE LogDeploy(r)
    BY <1>0, <2>3, LogMoves
  <2> QED BY <1>1, <2>1, <2>2, <2>3 DEF RunTool, Advances
<1>2. ASSUME NEW h \in Handlers, SageAsks(h) \/ UserAsks(h) \/ Answer(h) PROVE OneAtATime'
  <2>1. ASSUME NEW p \in Pools, NEW c \in thinking \cup {NoCycle}, Ask(h, p, c) PROVE OneAtATime'
    BY <1>0, <2>1, AskMoves
  <2>2. CASE Answer(h)
    BY <1>0, <2>2, AnswerMoves
  <2> QED BY <1>2, <2>1, <2>2 DEF SageAsks, UserAsks
<1>3. ASSUME NEW o \in Others, OtherDeploys(o) \/ OtherDone(o) PROVE OneAtATime'
  BY <1>0, <1>3, OtherMoves
<1>4. ASSUME NEW p \in Pools, ModelCalls(p) PROVE OneAtATime'
  BY <1>0, <1>4, ModelMoves
<1>5. CASE RecordAttempt
  BY <1>0, <1>5, RecordMoves
<1>6. CASE CycleOver
  BY <1>0, <1>6, OverMoves
<1>7. CASE Preflight \/ Candidates \/ Shortlist
  <2>1. calls' = calls /\ busy' = busy /\ UNCHANGED <<decider, company>>
    BY <1>7 DEF Preflight, Candidates, Shortlist, bridge
  <2>2. CASE Preflight
    BY <1>0, <2>1, <2>2 DEF Preflight, Goto, bridge
  <2>3. CASE Candidates
    BY <1>0, <2>1, <2>3 DEF Candidates, Goto, bridge
  <2>4. CASE Shortlist
    BY <1>0, <2>1, <2>4 DEF Shortlist, Goto, Typed, TypeOK
  <2> QED BY <1>7, <2>2, <2>3, <2>4
<1>8. ASSUME NEW c \in Cycles, SageStops(c) PROVE OneAtATime'
  BY <1>0, <1>8 DEF SageStops, stores, locals
<1>9. ASSUME NEW i \in live, Close(i) PROVE OneAtATime'
  BY <1>0, <1>9 DEF Close, bridge, locals
<1>10. ASSUME NEW p \in Pools, CooldownEnds(p) PROVE OneAtATime'
  BY <1>0, <1>10 DEF CooldownEnds, bridge, locals
<1>11. CASE UNCHANGED vars
  BY <1>11 DEF vars, stores, bridge, locals
<1>12. ASSUME NEW p \in Pools, DeployByHand(p) PROVE OneAtATime'
  BY <1>0, <1>12, HandMoves DEF Typed
<1> QED
  BY <1>1, <1>2, <1>3, <1>4, <1>5, <1>6, <1>7, <1>8, <1>9, <1>10, <1>11, <1>12
     DEF Next, CycleStep, CycleOver

---------------------------------------------------------------------------
(* The cap                                                                 *)

(* The routes that deploy through the tool can be counted. *)
Asides(d, c)   == (c \cap Others) \cup (IF d = "loop" THEN {"loop"} ELSE {})
RivalsOf(d, c) == {"bridge"} \cup Asides(d, c)
LEMMA RivalsCount ==
  ASSUME NEW d, NEW c
  PROVE  /\ IsFiniteSet(Asides(d, c)) /\ Cardinality(Asides(d, c)) \in Nat
         /\ Cardinality(RivalsOf(d, c)) = Cardinality(Asides(d, c)) + 1
<1>1. /\ IsFiniteSet({"follow"}) /\ IsFiniteSet({"telegram"}) /\ IsFiniteSet({"loop"})
      /\ IsFiniteSet({})
  BY FS_Singleton, FS_EmptySet
<1>2. IsFiniteSet({"follow"} \cup {"telegram"})
  BY <1>1, FS_Union
<1>3. IsFiniteSet(({"follow"} \cup {"telegram"}) \cup Chats)
  BY <1>2, FS_Union, RoutesAssumption
<1>4. Others = ({"follow"} \cup {"telegram"}) \cup Chats
  BY DEF Others
<1>5. IsFiniteSet(c \cap Others)
  <2>1. IsFiniteSet(Others) /\ c \cap Others \subseteq Others
    BY <1>3, <1>4
  <2> QED BY <2>1, FS_Subset
<1>6. IsFiniteSet((c \cap Others) \cup (IF d = "loop" THEN {"loop"} ELSE {}))
  BY <1>1, <1>5, FS_Union
<1>7. IsFiniteSet(Asides(d, c))
  BY <1>6 DEF Asides
<1>8. "bridge" \notin Asides(d, c)
  BY RoutesAssumption DEF Asides, Others
<1>9. RivalsOf(d, c) = Asides(d, c) \cup {"bridge"}
  BY DEF RivalsOf
<1> QED BY <1>7, <1>8, <1>9, FS_AddElement, FS_CardinalityType

(* A set of calls, one handler at most, the loop only if it decides, and of *)
(* the others those of the company.                                         *)
LEMMA FewSending ==
  ASSUME NEW d, NEW c, NEW S \in SUBSET Routes,
         \A g, h \in Handlers : g \in S /\ h \in S => g = h,
         "loop" \in S => d = "loop",
         \A r \in Others : r \in S => r \in c
  PROVE  /\ IsFiniteSet(S) /\ Cardinality(S) \in Nat
         /\ Cardinality(S) <= Cardinality(RivalsOf(d, c))
<1> DEFINE x == IF \E g \in Handlers : g \in S THEN CHOOSE g \in Handlers : g \in S ELSE "bridge"
           A == Asides(d, c)
           L == A \cup {x}
<1>1. S \subseteq L
  BY DEF Routes, Asides
<1> HIDE DEF x
<1>2. /\ IsFiniteSet(A) /\ Cardinality(A) \in Nat
      /\ Cardinality(RivalsOf(d, c)) = Cardinality(A) + 1
  BY RivalsCount
<1> HIDE DEF A
<1>3. /\ IsFiniteSet(L)
      /\ Cardinality(L) = IF x \in A THEN Cardinality(A) ELSE Cardinality(A) + 1
  BY <1>2, FS_AddElement
<1> HIDE DEF L
<1>4. IsFiniteSet(S) /\ Cardinality(S) <= Cardinality(L)
  BY <1>1, <1>3, FS_Subset
<1>5. Cardinality(S) \in Nat
  BY <1>4, FS_CardinalityType
<1> QED BY <1>2, <1>3, <1>4, <1>5

(* The open positions can be counted. *)
LEMMA LiveCounts ==
  ASSUME Typed
  PROVE  /\ IsFiniteSet(ByTool(live)) /\ Cardinality(ByTool(live)) \in Nat
         /\ Cardinality(live) \in Nat /\ Cardinality(ByTool(live)) <= Cardinality(live)
<1>1. live \subseteq 1..Len(made) /\ Len(made) \in Nat
  BY DEF Typed, TypeOK
<1>2. IsFiniteSet(1..Len(made))
  BY <1>1, FS_Interval
<1>3. IsFiniteSet(live)
  BY <1>1, <1>2, FS_Subset
<1>4. ByTool(live) \subseteq live
  BY DEF ByTool
<1>5. IsFiniteSet(ByTool(live)) /\ Cardinality(ByTool(live)) <= Cardinality(live)
  BY <1>3, <1>4, FS_Subset
<1> QED BY <1>3, <1>5, FS_CardinalityType

(* The same of the calls there are. *)
LEMMA SendingCounts ==
  ASSUME OneAtATime
  PROVE  /\ IsFiniteSet(Sending) /\ Cardinality(Sending) \in Nat
         /\ Cardinality(Sending) <= Cardinality(RivalsOf(decider, company))
<1>1. /\ Sending \in SUBSET Routes
      /\ \A g, h \in Handlers : g \in Sending /\ h \in Sending => g = h
      /\ "loop" \in Sending => decider = "loop"
      /\ \A r \in Others : r \in Sending => r \in company
  BY DEF Sending, OneAtATime, Active
<1> QED BY <1>1, FewSending

(* What is open through the tool and what may still be sent fits the cap   *)
(* and its overshoot.                                                      *)
CapHeld ==
  Cardinality(ByTool(live)) + Cardinality(Sending)
    <= MaxPositions + Cardinality(RivalsOf(decider, company)) - 1

(* A step that opens nothing and starts no sending keeps the sum down. *)
LEMMA FewerKept ==
  ASSUME Typed, OneAtATime, CapHeld, ByTool(live)' \subseteq ByTool(live), Sending' \subseteq Sending,
         UNCHANGED <<decider, company>>
  PROVE  CapHeld'
<1>1. IsFiniteSet(Sending) /\ Cardinality(Sending) \in Nat
  BY SendingCounts
<1>2. IsFiniteSet(ByTool(live)) /\ Cardinality(ByTool(live)) \in Nat
  BY LiveCounts
<1>3. IsFiniteSet(Sending') /\ Cardinality(Sending') <= Cardinality(Sending)
  BY <1>1, FS_Subset
<1>4. IsFiniteSet(ByTool(live)') /\ Cardinality(ByTool(live)') <= Cardinality(ByTool(live))
  BY <1>2, FS_Subset
<1>5. Cardinality(Sending') \in Nat /\ Cardinality(ByTool(live)') \in Nat
  BY <1>3, <1>4, FS_CardinalityType
<1>7. Cardinality(RivalsOf(decider, company)) \in Int /\ MaxPositions \in Nat
  BY BoundsAssumption, RivalsCount
<1> QED BY <1>1, <1>2, <1>3, <1>4, <1>5, <1>7 DEF CapHeld

(* Only a tool step starts sending, or opens anything through the tool. *)
LEMMA StillSending ==
  ASSUME Typed, [Next]_vars, \A r \in Routes : ~RunTool(r)
  PROVE  Sending' \subseteq Sending /\ ByTool(live)' \subseteq ByTool(live) /\ UNCHANGED <<decider, company>>
<1> USE DEF Sending, ByTool, OnlyCall, OnlyCalls
<1>0. Handlers \subseteq Routes /\ "loop" \in Routes /\ Others \subseteq Routes
  BY DEF Routes
<1> DEFINE Goal == Sending' \subseteq Sending /\ ByTool(live)' \subseteq ByTool(live) /\ UNCHANGED <<decider, company>>
<1>1. ASSUME NEW h \in Handlers, SageAsks(h) \/ UserAsks(h) \/ Answer(h) PROVE Goal
  <2>1. ASSUME NEW p \in Pools, NEW c \in thinking \cup {NoCycle}, Ask(h, p, c) PROVE Goal
    BY <1>0, <2>1, AskMoves
  <2>2. CASE Answer(h)
    BY <1>0, <2>2, AnswerMoves
  <2> QED BY <1>1, <2>1, <2>2 DEF SageAsks, UserAsks
<1>2. ASSUME NEW o \in Others, OtherDeploys(o) \/ OtherDone(o) PROVE Goal
  BY <1>0, <1>2, OtherMoves
<1>3. ASSUME NEW p \in Pools, ModelCalls(p) PROVE Goal
  BY <1>0, <1>3, ModelMoves
<1>4. CASE RecordAttempt
  BY <1>0, <1>4, RecordMoves
<1>5. CASE CycleOver
  BY <1>5, OverMoves
<1>6. CASE Preflight \/ Candidates \/ Shortlist
  BY <1>6 DEF Preflight, Candidates, Shortlist, stores
<1>7. ASSUME NEW c \in Cycles, SageStops(c) PROVE Goal
  BY <1>7 DEF SageStops, stores
<1>8. ASSUME NEW i \in live, Close(i) PROVE Goal
  BY <1>8 DEF Close
<1>9. ASSUME NEW p \in Pools, CooldownEnds(p) PROVE Goal
  BY <1>9 DEF CooldownEnds
<1>10. CASE UNCHANGED vars
  BY <1>10 DEF vars, stores
<1>11. ASSUME NEW p \in Pools, DeployByHand(p) PROVE Goal
  BY <1>11, HandMoves DEF Typed, TypeOK
<1> QED
  BY <1>1, <1>2, <1>3, <1>4, <1>5, <1>6, <1>7, <1>8, <1>9, <1>10, <1>11 DEF Next, CycleStep, CycleOver

(* A call comes to send only below the cap; landing trades one for the other. *)
LEMMA CapKept ==
  ASSUME Typed, OneAtATime, OneAtATime', CapHeld, [Next]_vars
  PROVE  CapHeld'
<1> USE DEF OnlyCall, OnlyCalls
<1>0. /\ Handlers \subseteq Routes /\ "loop" \in Routes /\ Others \subseteq Routes
      /\ MaxPositions \in Nat /\ Cardinality(RivalsOf(decider, company)) \in Int
  BY RivalsCount, BoundsAssumption DEF Routes
<1>1. ASSUME NEW r \in Routes, RunTool(r) PROVE CapHeld'
  <2>1. CASE Advances(r)
    <3>1. CASE calls'[r].step = "send"
      <4>1. Cardinality(live) < MaxPositions /\ UNCHANGED <<made, live, decider, company>>
        BY <2>1, <3>1, AdvanceMoves
      <4>2. /\ Sending' \in SUBSET Routes
            /\ \A g, h \in Handlers : g \in Sending' /\ h \in Sending' => g = h
            /\ "loop" \in Sending' => decider' = "loop"
            /\ \A o \in Others : o \in Sending' => o \in company'
        BY <1>0 DEF Sending, OneAtATime, Active
      <4>3. /\ Cardinality(Sending') \in Nat
            /\ Cardinality(Sending') <= Cardinality(RivalsOf(decider', company'))
        BY <4>2, FewSending
      <4>4. /\ Cardinality(live) \in Nat /\ Cardinality(ByTool(live)) \in Nat
            /\ Cardinality(ByTool(live)) <= Cardinality(live)
        BY LiveCounts
      <4> QED BY <1>0, <4>1, <4>2, <4>3, <4>4 DEF CapHeld, ByTool
    <3>2. CASE calls'[r].step # "send"
      <4>1. Sending' \subseteq Sending /\ UNCHANGED <<made, live, decider, company>>
        BY <2>1, <3>2, AdvanceMoves DEF Sending
      <4> QED BY <4>1, FewerKept DEF ByTool
    <3> QED BY <3>1, <3>2
  <2>2. CASE Land(r)
    <3> DEFINE n == Len(made) + 1
    <3>1. /\ live' = live \cup {n} /\ n \notin DOMAIN made /\ calls[r].step = "send"
          /\ \A i \in DOMAIN made : made'[i] = made[i]
          /\ ~made'[n].byHand
          /\ calls'[r].step # "send" /\ \A q \in Routes : q # r => calls'[q] = calls[q]
      BY <2>2, LandOpens DEF Typed
    <3>2. r \in Sending /\ Sending' = Sending \ {r}
      BY <3>1 DEF Sending
    <3>3. live \subseteq DOMAIN made /\ n \notin ByTool(live)
      BY <3>1 DEF Typed, TypeOK, ByTool
    <3>4. /\ IsFiniteSet(Sending) /\ Cardinality(Sending) \in Nat
          /\ IsFiniteSet(ByTool(live)) /\ Cardinality(ByTool(live)) \in Nat
      BY SendingCounts, LiveCounts
    <3> HIDE DEF n
    <3>5. Cardinality(ByTool(live)') = Cardinality(ByTool(live)) + 1
      <4>1. ByTool(live)' = ByTool(live) \cup {n}
        BY <3>1, <3>3 DEF ByTool
      <4> QED BY <3>3, <3>4, <4>1, FS_AddElement
    <3>6. Cardinality(Sending') = Cardinality(Sending) - 1
      BY <3>2, <3>4, FS_RemoveElement
    <3>7. UNCHANGED <<decider, company>>
      BY <2>2, LandFrame
    <3> QED BY <1>0, <3>4, <3>5, <3>6, <3>7 DEF CapHeld
  <2>3. CASE LogDeploy(r)
    <3>1. Sending' \subseteq Sending /\ UNCHANGED <<made, live, decider, company>>
      BY <2>3, LogMoves DEF Sending
    <3> QED BY <3>1, FewerKept DEF ByTool
  <2> QED BY <1>1, <2>1, <2>2, <2>3 DEF RunTool, Advances
<1>2. CASE ~\E r \in Routes : RunTool(r)
  <2>1. /\ Sending' \subseteq Sending /\ ByTool(live)' \subseteq ByTool(live)
        /\ UNCHANGED <<decider, company>>
    BY <1>2, StillSending
  <2> QED BY <2>1, FewerKept
<1> QED BY <1>1, <1>2

(* The positions opened through the tool keep to the cap, but for one per  *)
(* further route: for any number of pools, requests, chats, caps and       *)
(* faults, and whatever /deploy opens beside them.                         *)
THEOREM CapOvershootBounded == Spec => []CapOvershoot
<1> DEFINE IInv == Typed /\ OneAtATime /\ CapHeld
<1>1. Init => IInv
  <2> SUFFICES ASSUME Init PROVE OneAtATime /\ CapHeld
    BY InitTyped
  <2>1. OneAtATime
    <3>1. \A r \in Routes : ~Active(r)
      BY DEF Init, Active, NoCall
    <3>2. Handlers \subseteq Routes /\ "loop" \in Routes /\ Others \subseteq Routes
      BY DEF Routes
    <3>3. pc = "idle" /\ thinking = {}
      BY DEF Init
    <3> QED BY <3>1, <3>2, <3>3 DEF OneAtATime
  <2>2. Sending = {} /\ ByTool(live) = {}
    BY DEF Init, Sending, NoCall, ByTool
  <2>3. Cardinality({}) = 0
    BY FS_EmptySet
  <2>4. Cardinality(RivalsOf(decider, company)) >= 1 /\ Cardinality(RivalsOf(decider, company)) \in Nat
    BY RivalsCount
  <2> QED BY <2>1, <2>2, <2>3, <2>4, BoundsAssumption DEF CapHeld
<1>2. IInv /\ [Next]_vars => IInv'
  BY NextTyped, OneAtATimeKept, CapKept
<1>3. IInv => CapOvershoot
  <2> SUFFICES ASSUME IInv PROVE CapOvershoot
    OBVIOUS
  <2>1. RivalsOf(decider, company) = Rivals
    BY DEF RivalsOf, Asides, Rivals
  <2>2. Cardinality(RivalsOf(decider, company)) \in Nat /\ MaxPositions \in Nat
    BY RivalsCount, BoundsAssumption
  <2>3. Cardinality(Sending) \in Nat /\ Cardinality(ByTool(live)) \in Nat
    BY SendingCounts, LiveCounts
  <2> QED BY <2>1, <2>2, <2>3 DEF CapHeld, CapOvershoot
<1> QED BY <1>1, <1>2, <1>3, PTL DEF Spec

---------------------------------------------------------------------------
(* Whose cycle                                                             *)

(* A call deploys for a cycle still deciding, or for none. *)
LEMMA CycleOfKept ==
  ASSUME Typed, OneAtATime, CycleOf, [Next]_vars
  PROVE  CycleOf'
<1> USE DEF Active, NoCycle, OnlyCall, OnlyCalls
<1>0. /\ Handlers \subseteq Routes /\ "loop" \in Routes /\ Others \subseteq Routes
      /\ "loop" \notin Handlers \cup Others /\ Handlers \cap Others = {}
      /\ cycle \in Nat /\ thinking \subseteq Nat /\ 0 \notin thinking
      /\ pc # "idle" => cycle >= 1
      /\ Active("loop") => pc = "loop"
  BY RoutesAssumption, BoundsAssumption DEF OneAtATime, Routes, Others, Typed, TypeOK, Cycles
<1>1. ASSUME NEW r \in Routes, RunTool(r) PROVE CycleOf'
  <2>1. CASE Advances(r)
    BY <1>0, <2>1, AdvanceMoves DEF CycleOf
  <2>2. CASE Land(r)
    <3> DEFINE n == Len(made) + 1
    <3>1. /\ calls[r].step = "send" /\ DOMAIN made' = DOMAIN made \cup {n} /\ n \notin DOMAIN made
          /\ \A i \in DOMAIN made : made'[i] = made[i] /\ i < n
          /\ made'[n].cycle = calls[r].cycle /\ calls'[r].cycle = calls[r].cycle
          /\ IF made'[n].ok THEN calls'[r].step = "track" /\ calls'[r].at = n
                            ELSE calls'[r].step = "done" /\ ~calls'[r].ok
          /\ \A q \in Routes : q # r => calls'[q] = calls[q]
          /\ live' = live \cup {n}
      <4>1. made \in Seq(MadeType)
        BY DEF Typed, TypeOK
      <4>2. \A i \in DOMAIN made : i < n
        BY <4>1
      <4> QED BY <2>2, <4>2, LandOpens DEF Typed
    <3> HIDE DEF n
    <3>2. UNCHANGED <<decider, company, cooling, log, busy, seen, thinking,
                      pc, cycle, before, steps, locked, fired>>
      BY <2>2, LandFrame
    <3> QED BY <1>0, <3>1, <3>2 DEF CycleOf
  <2>3. CASE LogDeploy(r)
    BY <1>0, <2>3, LogMoves DEF CycleOf
  <2> QED BY <1>1, <2>1, <2>2, <2>3 DEF RunTool, Advances
<1>2. ASSUME NEW h \in Handlers, SageAsks(h) \/ UserAsks(h) \/ Answer(h) PROVE CycleOf'
  <2>1. ASSUME NEW p \in Pools, NEW c \in thinking \cup {NoCycle}, Ask(h, p, c) PROVE CycleOf'
    BY <1>0, <2>1, AskMoves DEF CycleOf
  <2>2. CASE Answer(h)
    BY <1>0, <2>2, AnswerMoves DEF CycleOf
  <2> QED BY <1>2, <2>1, <2>2 DEF SageAsks, UserAsks
<1>3. ASSUME NEW o \in Others, OtherDeploys(o) \/ OtherDone(o) PROVE CycleOf'
  BY <1>0, <1>3, OtherMoves DEF CycleOf
<1>4. ASSUME NEW p \in Pools, ModelCalls(p) PROVE CycleOf'
  BY <1>0, <1>4, ModelMoves DEF CycleOf
<1>5. CASE RecordAttempt
  BY <1>0, <1>5, RecordMoves DEF CycleOf
<1>6. CASE CycleOver
  BY <1>0, <1>6, OverMoves DEF CycleOf
<1>7. CASE Preflight \/ Candidates \/ Shortlist
  <2>1. calls' = calls /\ busy' = busy /\ UNCHANGED <<decider, company, made>> /\ live' = live
        /\ seen' = seen
    BY <1>7 DEF Preflight, Candidates, Shortlist, bridge, stores
  <2>2. CASE Preflight
    BY <1>0, <2>1, <2>2 DEF CycleOf, Preflight, Goto, bridge, session
  <2>3. CASE Candidates
    BY <1>0, <2>1, <2>3 DEF CycleOf, Candidates, Goto, bridge, stores, session
  <2>4. CASE Shortlist
    BY <1>0, <2>1, <2>4 DEF CycleOf, Shortlist, Goto, stores, session, Typed, TypeOK
  <2> QED BY <1>7, <2>2, <2>3, <2>4
<1>8. ASSUME NEW c \in Cycles, SageStops(c) PROVE CycleOf'
  BY <1>0, <1>8 DEF CycleOf, SageStops, Asking, stores, locals, session
<1>9. ASSUME NEW i \in live, Close(i) PROVE CycleOf'
  BY <1>0, <1>9 DEF CycleOf, Close, bridge, locals, session
<1>10. ASSUME NEW p \in Pools, CooldownEnds(p) PROVE CycleOf'
  BY <1>0, <1>10 DEF CycleOf, CooldownEnds, bridge, locals, session
<1>11. CASE UNCHANGED vars
  BY <1>11 DEF CycleOf, vars, stores, bridge, locals, session
<1>12. ASSUME NEW p \in Pools, DeployByHand(p) PROVE CycleOf'
  BY <1>0, <1>12, HandMoves DEF CycleOf, Typed
<1> QED
  BY <1>1, <1>2, <1>3, <1>4, <1>5, <1>6, <1>7, <1>8, <1>9, <1>10, <1>11, <1>12
     DEF Next, CycleStep, CycleOver

(* A later cycle has not begun to decide. *)
LEMMA DecidingKept ==
  ASSUME Typed, Deciding, [Next]_vars
  PROVE  Deciding'
<1> USE DEF NoCycle, OnlyCall, OnlyCalls
<1>0. /\ Handlers \subseteq Routes /\ "loop" \in Routes /\ Others \subseteq Routes
      /\ "loop" \notin Handlers \cup Others /\ Handlers \cap Others = {}
      /\ cycle \in Nat /\ thinking \subseteq Nat /\ 0 \notin thinking
      /\ pc # "idle" => cycle >= 1
  BY RoutesAssumption, BoundsAssumption DEF Routes, Others, Typed, TypeOK, Cycles
<1>f. UNCHANGED <<thinking, pc, cycle>> => Deciding'
  BY DEF Deciding
<1>1. ASSUME NEW r \in Routes, RunTool(r) PROVE Deciding'
  <2>1. CASE Advances(r)
    BY <1>f, <2>1, AdvanceMoves
  <2>2. CASE Land(r)
    BY <1>f, <2>2, LandFrame
  <2>3. CASE LogDeploy(r)
    BY <1>f, <1>0, <2>3, LogMoves
  <2> QED BY <1>1, <2>1, <2>2, <2>3 DEF RunTool, Advances
<1>2. ASSUME NEW h \in Handlers, SageAsks(h) \/ UserAsks(h) \/ Answer(h) PROVE Deciding'
  <2>1. ASSUME NEW p \in Pools, NEW c \in thinking \cup {NoCycle}, Ask(h, p, c) PROVE Deciding'
    BY <1>f, <2>1, AskMoves
  <2>2. CASE Answer(h)
    BY <1>f, <2>2, AnswerMoves
  <2> QED BY <1>2, <2>1, <2>2 DEF SageAsks, UserAsks
<1>3. ASSUME NEW o \in Others, OtherDeploys(o) \/ OtherDone(o) PROVE Deciding'
  BY <1>f, <1>3, OtherMoves
<1>4. ASSUME NEW p \in Pools, ModelCalls(p) PROVE Deciding'
  BY <1>f, <1>4, ModelMoves
<1>5. CASE RecordAttempt
  BY <1>f, <1>5, RecordMoves
<1>6. CASE CycleOver
  BY <1>0, <1>6, OverMoves DEF Deciding
<1>7. CASE Preflight \/ Candidates \/ Shortlist
  <2>1. calls' = calls /\ busy' = busy /\ UNCHANGED <<decider, company, made>> /\ live' = live
        /\ seen' = seen
    BY <1>7 DEF Preflight, Candidates, Shortlist, bridge, stores
  <2>2. CASE Preflight
    BY <1>0, <2>1, <2>2 DEF Deciding, Preflight, Goto, bridge, session
  <2>3. CASE Candidates
    BY <1>0, <2>1, <2>3 DEF Deciding, Candidates, Goto, bridge, stores, session
  <2>4. CASE Shortlist
    <3>1. thinking' \subseteq thinking \cup {cycle} /\ pc' \in {"sage", "loop"} /\ cycle' = cycle
      BY <2>4 DEF Shortlist, Goto
    <3> QED BY <1>0, <3>1 DEF Deciding
  <2> QED BY <1>7, <2>2, <2>3, <2>4
<1>8. ASSUME NEW c \in Cycles, SageStops(c) PROVE Deciding'
  BY <1>0, <1>8 DEF Deciding, SageStops, Asking, stores, locals, session
<1>9. ASSUME NEW i \in live, Close(i) PROVE Deciding'
  BY <1>0, <1>9 DEF Deciding, Close, bridge, locals, session
<1>10. ASSUME NEW p \in Pools, CooldownEnds(p) PROVE Deciding'
  BY <1>0, <1>10 DEF Deciding, CooldownEnds, bridge, locals, session
<1>11. CASE UNCHANGED vars
  BY <1>11 DEF Deciding, vars, stores, bridge, locals, session
<1>12. ASSUME NEW p \in Pools, DeployByHand(p) PROVE Deciding'
  BY <1>f, <1>12, HandMoves DEF Typed
<1> QED
  BY <1>1, <1>2, <1>3, <1>4, <1>5, <1>6, <1>7, <1>8, <1>9, <1>10, <1>11, <1>12
     DEF Next, CycleStep, CycleOver

(* A position is of a cycle that was deciding. *)
LEMMA PositionOfKept ==
  ASSUME Typed, OneAtATime, CycleOf, Deciding, PositionOf, [Next]_vars
  PROVE  PositionOf'
<1> USE DEF NoCycle, OnlyCall, OnlyCalls
<1>0. /\ Handlers \subseteq Routes /\ "loop" \in Routes /\ Others \subseteq Routes
      /\ Routes = Handlers \cup {"loop"} \cup Others
      /\ "loop" \notin Handlers \cup Others /\ Handlers \cap Others = {}
      /\ cycle \in Nat /\ thinking \subseteq Nat /\ 0 \notin thinking
      /\ pc # "idle" => cycle >= 1
      /\ live \subseteq DOMAIN made /\ before \subseteq DOMAIN made
  BY RoutesAssumption, BoundsAssumption DEF Routes, Others, Typed, TypeOK, Cycles
<1>f. UNCHANGED <<made, pc, cycle, before>> => PositionOf'
  BY DEF PositionOf
<1>m. \A i \in DOMAIN made : made[i].cycle \in Nat
  <2>1. \A i \in DOMAIN made : made[i] \in MadeType
    BY DEF Typed, TypeOK
  <2>2. Cycles \cup {0} \subseteq Nat
    BY DEF Cycles
  <2> QED BY <2>1, <2>2 DEF MadeType
<1>1. ASSUME NEW r \in Routes, RunTool(r) PROVE PositionOf'
  <2>1. CASE Advances(r)
    BY <1>f, <2>1, AdvanceMoves
  <2>2. CASE Land(r)
    <3> DEFINE n == Len(made) + 1
    <3>1. /\ calls[r].step = "send" /\ DOMAIN made' = DOMAIN made \cup {n} /\ n \notin DOMAIN made
          /\ \A i \in DOMAIN made : made'[i] = made[i] /\ i < n
          /\ made'[n].cycle = calls[r].cycle /\ calls'[r].cycle = calls[r].cycle
          /\ IF made'[n].ok THEN calls'[r].step = "track" /\ calls'[r].at = n
                            ELSE calls'[r].step = "done" /\ ~calls'[r].ok
          /\ \A q \in Routes : q # r => calls'[q] = calls[q]
          /\ live' = live \cup {n}
      <4>1. made \in Seq(MadeType)
        BY DEF Typed, TypeOK
      <4>2. \A i \in DOMAIN made : i < n
        BY <4>1
      <4> QED BY <2>2, <4>2, LandOpens DEF Typed
    <3> HIDE DEF n
    <3>2. UNCHANGED <<decider, company, cooling, log, busy, seen, thinking,
                      pc, cycle, before, steps, locked, fired>>
      BY <2>2, LandFrame
    <3>3. calls[r].cycle <= cycle /\ (pc \in {"candidates", "gates"} => calls[r].cycle # cycle)
      <4>1. r \in Handlers => calls[r].cycle \in thinking \cup {0}
        BY <3>1 DEF CycleOf, Active, NoCycle
      <4>2. r = "loop" => calls[r].cycle = cycle /\ pc = "loop"
        BY <3>1 DEF CycleOf, OneAtATime, Active
      <4>3. r \in Others => calls[r].cycle = 0
        BY <3>1 DEF CycleOf, Active, NoCycle
      <4>4. CASE r \in Handlers
        <5>1. calls[r].cycle \in thinking => calls[r].cycle <= cycle
          BY DEF Deciding
        <5>2. pc \in {"candidates", "gates"} => cycle \notin thinking /\ cycle # 0 /\ 0 <= cycle
          BY <1>0 DEF Deciding
        <5>3. 0 <= cycle
          BY <1>0
        <5> QED BY <4>1, <4>4, <5>1, <5>2, <5>3
      <4>5. CASE r = "loop"
        BY <1>0, <4>2, <4>5
      <4>6. CASE r \in Others
        BY <1>0, <4>3, <4>6
      <4> QED BY <1>0, <4>4, <4>5, <4>6
    <3>4. \A i \in DOMAIN made' : made'[i].cycle <= cycle
      BY <3>1, <3>3 DEF PositionOf
    <3>5. pc \in {"candidates", "gates"} => \A i \in DOMAIN made' : made'[i].cycle # cycle
      BY <3>1, <3>3 DEF PositionOf
    <3>6. pc # "idle" => \A i \in before : made'[i].cycle # cycle
      BY <1>0, <3>1 DEF PositionOf
    <3> QED BY <3>2, <3>4, <3>5, <3>6 DEF PositionOf
  <2>3. CASE LogDeploy(r)
    BY <1>f, <1>0, <2>3, LogMoves
  <2> QED BY <1>1, <2>1, <2>2, <2>3 DEF RunTool, Advances
<1>2. ASSUME NEW h \in Handlers, SageAsks(h) \/ UserAsks(h) \/ Answer(h) PROVE PositionOf'
  <2>1. ASSUME NEW p \in Pools, NEW c \in thinking \cup {NoCycle}, Ask(h, p, c) PROVE PositionOf'
    BY <1>f, <2>1, AskMoves
  <2>2. CASE Answer(h)
    BY <1>f, <2>2, AnswerMoves
  <2> QED BY <1>2, <2>1, <2>2 DEF SageAsks, UserAsks
<1>3. ASSUME NEW o \in Others, OtherDeploys(o) \/ OtherDone(o) PROVE PositionOf'
  BY <1>f, <1>3, OtherMoves
<1>4. ASSUME NEW p \in Pools, ModelCalls(p) PROVE PositionOf'
  BY <1>f, <1>4, ModelMoves
<1>5. CASE RecordAttempt
  BY <1>f, <1>5, RecordMoves
<1>6. CASE CycleOver
  BY <1>0, <1>6, OverMoves DEF PositionOf
<1>7. CASE Preflight \/ Candidates \/ Shortlist
  <2>1. calls' = calls /\ busy' = busy /\ UNCHANGED <<decider, company, made>> /\ live' = live
        /\ seen' = seen
    BY <1>7 DEF Preflight, Candidates, Shortlist, bridge, stores
  <2>2. CASE Preflight
    BY <1>0, <1>m, <2>1, <2>2 DEF PositionOf, Preflight, Goto, bridge, session
  <2>3. CASE Candidates
    BY <1>0, <2>1, <2>3 DEF PositionOf, Candidates, Goto, bridge, stores, session
  <2>4. CASE Shortlist
    BY <1>0, <2>1, <2>4 DEF PositionOf, Shortlist, Goto, stores, session, Typed, TypeOK
  <2> QED BY <1>7, <2>2, <2>3, <2>4
<1>8. ASSUME NEW c \in Cycles, SageStops(c) PROVE PositionOf'
  BY <1>0, <1>8 DEF PositionOf, SageStops, Asking, stores, locals, session
<1>9. ASSUME NEW i \in live, Close(i) PROVE PositionOf'
  BY <1>0, <1>9 DEF PositionOf, Close, bridge, locals, session
<1>10. ASSUME NEW p \in Pools, CooldownEnds(p) PROVE PositionOf'
  BY <1>0, <1>10 DEF PositionOf, CooldownEnds, bridge, locals, session
<1>11. CASE UNCHANGED vars
  BY <1>11 DEF PositionOf, vars, stores, bridge, locals, session
<1>12. ASSUME NEW p \in Pools, DeployByHand(p) PROVE PositionOf'
  BY <1>0, <1>12, HandMoves DEF PositionOf, Typed
<1> QED
  BY <1>1, <1>2, <1>3, <1>4, <1>5, <1>6, <1>7, <1>8, <1>9, <1>10, <1>11, <1>12
     DEF Next, CycleStep, CycleOver

(* The loop opens once, and knows. *)
LEMMA LoopOnceKept ==
  ASSUME Typed, OneAtATime, CycleOf, Deciding, PositionOf, LoopOnce, [Next]_vars
  PROVE  LoopOnce'
<1> USE DEF OneAtATime, CycleOf, Deciding, PositionOf, Active, Early, Landed, NoCycle,
            OnlyCall, OnlyCalls
<1>0. /\ Handlers \subseteq Routes /\ "loop" \in Routes /\ Others \subseteq Routes
      /\ Routes = Handlers \cup {"loop"} \cup Others
      /\ "loop" \notin Handlers \cup Others /\ Handlers \cap Others = {}
      /\ cycle \in Nat /\ thinking \subseteq Nat /\ 0 \notin thinking
      /\ pc # "idle" => cycle >= 1
  BY RoutesAssumption, BoundsAssumption DEF Routes, Others, Typed, TypeOK, Cycles
<1>1. ASSUME NEW r \in Routes, RunTool(r) PROVE LoopOnce'
  <2>1. CASE Advances(r)
    BY <1>0, <2>1, AdvanceMoves DEF LoopOnce
  <2>2. CASE Land(r)
    <3> DEFINE n == Len(made) + 1
    <3>1. /\ calls[r].step = "send" /\ DOMAIN made' = DOMAIN made \cup {n} /\ n \notin DOMAIN made
          /\ \A i \in DOMAIN made : made'[i] = made[i] /\ i < n
          /\ made'[n].cycle = calls[r].cycle /\ calls'[r].cycle = calls[r].cycle
          /\ IF made'[n].ok THEN calls'[r].step = "track" /\ calls'[r].at = n
                            ELSE calls'[r].step = "done" /\ ~calls'[r].ok
          /\ \A q \in Routes : q # r => calls'[q] = calls[q]
          /\ live' = live \cup {n}
      <4>1. made \in Seq(MadeType)
        BY DEF Typed, TypeOK
      <4>2. \A i \in DOMAIN made : i < n
        BY <4>1
      <4> QED BY <2>2, <4>2, LandOpens DEF Typed
    <3> HIDE DEF n
    <3>2. UNCHANGED <<decider, company, cooling, log, busy, seen, thinking,
                      pc, cycle, before, steps, locked, fired>>
      BY <2>2, LandFrame
    <3> QED BY <1>0, <3>1, <3>2 DEF LoopOnce
  <2>3. CASE LogDeploy(r)
    BY <1>0, <2>3, LogMoves DEF LoopOnce
  <2> QED BY <1>1, <2>1, <2>2, <2>3 DEF RunTool, Advances
<1>2. ASSUME NEW h \in Handlers, SageAsks(h) \/ UserAsks(h) \/ Answer(h) PROVE LoopOnce'
  <2>1. ASSUME NEW p \in Pools, NEW c \in thinking \cup {NoCycle}, Ask(h, p, c) PROVE LoopOnce'
    BY <1>0, <2>1, AskMoves DEF LoopOnce
  <2>2. CASE Answer(h)
    BY <1>0, <2>2, AnswerMoves DEF LoopOnce
  <2> QED BY <1>2, <2>1, <2>2 DEF SageAsks, UserAsks
<1>3. ASSUME NEW o \in Others, OtherDeploys(o) \/ OtherDone(o) PROVE LoopOnce'
  BY <1>0, <1>3, OtherMoves DEF LoopOnce
<1>4. ASSUME NEW p \in Pools, ModelCalls(p) PROVE LoopOnce'
  BY <1>0, <1>4, ModelMoves DEF LoopOnce
<1>5. CASE RecordAttempt
  BY <1>0, <1>5, RecordMoves DEF LoopOnce
<1>6. CASE CycleOver
  BY <1>0, <1>6, OverMoves DEF LoopOnce
<1>7. CASE Preflight \/ Candidates \/ Shortlist
  <2>1. calls' = calls /\ busy' = busy /\ UNCHANGED <<decider, company, made>> /\ live' = live
        /\ seen' = seen
    BY <1>7 DEF Preflight, Candidates, Shortlist, bridge, stores
  <2>2. CASE Preflight
    BY <1>0, <2>1, <2>2 DEF LoopOnce, Preflight, Goto, bridge, session
  <2>3. CASE Candidates
    BY <1>0, <2>1, <2>3 DEF LoopOnce, Candidates, Goto, bridge, stores, session
  <2>4. CASE Shortlist
    BY <1>0, <2>1, <2>4 DEF LoopOnce, Shortlist, Goto, stores, session, Typed, TypeOK
  <2> QED BY <1>7, <2>2, <2>3, <2>4
<1>8. ASSUME NEW c \in Cycles, SageStops(c) PROVE LoopOnce'
  BY <1>0, <1>8 DEF LoopOnce, SageStops, Asking, stores, locals, session
<1>9. ASSUME NEW i \in live, Close(i) PROVE LoopOnce'
  BY <1>0, <1>9 DEF LoopOnce, Close, bridge, locals, session
<1>10. ASSUME NEW p \in Pools, CooldownEnds(p) PROVE LoopOnce'
  BY <1>0, <1>10 DEF LoopOnce, CooldownEnds, bridge, locals, session
<1>11. CASE UNCHANGED vars
  BY <1>11 DEF LoopOnce, vars, stores, bridge, locals, session
<1>12. ASSUME NEW p \in Pools, DeployByHand(p) PROVE LoopOnce'
  BY <1>0, <1>12, HandMoves DEF LoopOnce, Typed
<1> QED
  BY <1>1, <1>2, <1>3, <1>4, <1>5, <1>6, <1>7, <1>8, <1>9, <1>10, <1>11, <1>12
     DEF Next, CycleStep, CycleOver

(* The bridge commits what it opened. *)
LEMMA BridgeOnceKept ==
  ASSUME Typed, OneAtATime, CycleOf, Deciding, PositionOf, BridgeOnce, [Next]_vars
  PROVE  BridgeOnce'
<1> USE DEF OneAtATime, CycleOf, Deciding, PositionOf, Active, Early, Landed, NoCycle,
            OnlyCall, OnlyCalls
<1>0. /\ Handlers \subseteq Routes /\ "loop" \in Routes /\ Others \subseteq Routes
      /\ Routes = Handlers \cup {"loop"} \cup Others
      /\ "loop" \notin Handlers \cup Others /\ Handlers \cap Others = {}
      /\ cycle \in Nat /\ thinking \subseteq Nat /\ 0 \notin thinking
      /\ pc # "idle" => cycle >= 1
  BY RoutesAssumption, BoundsAssumption DEF Routes, Others, Typed, TypeOK, Cycles
<1>1. ASSUME NEW r \in Routes, RunTool(r) PROVE BridgeOnce'
  <2>1. CASE Advances(r)
    BY <1>0, <2>1, AdvanceMoves DEF BridgeOnce
  <2>2. CASE Land(r)
    <3> DEFINE n == Len(made) + 1
    <3>1. /\ calls[r].step = "send" /\ DOMAIN made' = DOMAIN made \cup {n} /\ n \notin DOMAIN made
          /\ \A i \in DOMAIN made : made'[i] = made[i] /\ i < n
          /\ made'[n].cycle = calls[r].cycle /\ calls'[r].cycle = calls[r].cycle
          /\ IF made'[n].ok THEN calls'[r].step = "track" /\ calls'[r].at = n
                            ELSE calls'[r].step = "done" /\ ~calls'[r].ok
          /\ \A q \in Routes : q # r => calls'[q] = calls[q]
          /\ live' = live \cup {n}
      <4>1. made \in Seq(MadeType)
        BY DEF Typed, TypeOK
      <4>2. \A i \in DOMAIN made : i < n
        BY <4>1
      <4> QED BY <2>2, <4>2, LandOpens DEF Typed
    <3> HIDE DEF n
    <3>2. UNCHANGED <<decider, company, cooling, log, busy, seen, thinking,
                      pc, cycle, before, steps, locked, fired>>
      BY <2>2, LandFrame
    <3> QED BY <1>0, <3>1, <3>2 DEF BridgeOnce
  <2>3. CASE LogDeploy(r)
    BY <1>0, <2>3, LogMoves DEF BridgeOnce
  <2> QED BY <1>1, <2>1, <2>2, <2>3 DEF RunTool, Advances
<1>2. ASSUME NEW h \in Handlers, SageAsks(h) \/ UserAsks(h) \/ Answer(h) PROVE BridgeOnce'
  <2>1. ASSUME NEW p \in Pools, NEW c \in thinking \cup {NoCycle}, Ask(h, p, c) PROVE BridgeOnce'
    BY <1>0, <2>1, AskMoves DEF BridgeOnce
  <2>2. CASE Answer(h)
    BY <1>0, <2>2, AnswerMoves DEF BridgeOnce
  <2> QED BY <1>2, <2>1, <2>2 DEF SageAsks, UserAsks
<1>3. ASSUME NEW o \in Others, OtherDeploys(o) \/ OtherDone(o) PROVE BridgeOnce'
  BY <1>0, <1>3, OtherMoves DEF BridgeOnce
<1>4. ASSUME NEW p \in Pools, ModelCalls(p) PROVE BridgeOnce'
  BY <1>0, <1>4, ModelMoves DEF BridgeOnce
<1>5. CASE RecordAttempt
  BY <1>0, <1>5, RecordMoves DEF BridgeOnce
<1>6. CASE CycleOver
  BY <1>0, <1>6, OverMoves DEF BridgeOnce
<1>7. CASE Preflight \/ Candidates \/ Shortlist
  <2>1. calls' = calls /\ busy' = busy /\ UNCHANGED <<decider, company, made>> /\ live' = live
        /\ seen' = seen
    BY <1>7 DEF Preflight, Candidates, Shortlist, bridge, stores
  <2>2. CASE Preflight
    BY <1>0, <2>1, <2>2 DEF BridgeOnce, Preflight, Goto, bridge, session
  <2>3. CASE Candidates
    BY <1>0, <2>1, <2>3 DEF BridgeOnce, Candidates, Goto, bridge, stores, session
  <2>4. CASE Shortlist
    BY <1>0, <2>1, <2>4 DEF BridgeOnce, Shortlist, Goto, stores, session, Typed, TypeOK
  <2> QED BY <1>7, <2>2, <2>3, <2>4
<1>8. ASSUME NEW c \in Cycles, SageStops(c) PROVE BridgeOnce'
  BY <1>0, <1>8 DEF BridgeOnce, SageStops, Asking, stores, locals, session
<1>9. ASSUME NEW i \in live, Close(i) PROVE BridgeOnce'
  BY <1>0, <1>9 DEF BridgeOnce, Close, bridge, locals, session
<1>10. ASSUME NEW p \in Pools, CooldownEnds(p) PROVE BridgeOnce'
  BY <1>0, <1>10 DEF BridgeOnce, CooldownEnds, bridge, locals, session
<1>11. CASE UNCHANGED vars
  BY <1>11 DEF BridgeOnce, vars, stores, bridge, locals, session
<1>12. ASSUME NEW p \in Pools, DeployByHand(p) PROVE BridgeOnce'
  BY <1>0, <1>12, HandMoves DEF BridgeOnce, Typed
<1> QED
  BY <1>1, <1>2, <1>3, <1>4, <1>5, <1>6, <1>7, <1>8, <1>9, <1>10, <1>11, <1>12
     DEF Next, CycleStep, CycleOver

---------------------------------------------------------------------------
(* What the cycles promise                                                 *)

(* Nobody opens a second position he could know of. *)
LEMMA OnePerCycleKept ==
  ASSUME Typed, OneAtATime, CycleOf, Deciding, LoopOnce, BridgeOnce, OnePerCycle, [Next]_vars
  PROVE  OnePerCycle'
<1> USE DEF NoCycle, OnlyCall, OnlyCalls
<1>0. /\ Handlers \subseteq Routes /\ "loop" \in Routes /\ Others \subseteq Routes
      /\ Routes = Handlers \cup {"loop"} \cup Others
      /\ "loop" \notin Handlers \cup Others /\ Handlers \cap Others = {}
      /\ cycle \in Nat /\ thinking \subseteq Nat /\ 0 \notin thinking
      /\ pc # "idle" => cycle >= 1
  BY RoutesAssumption, BoundsAssumption DEF Routes, Others, Typed, TypeOK, Cycles
<1>f. UNCHANGED <<made, decider>> => OnePerCycle'
  BY DEF OnePerCycle
<1>1. ASSUME NEW r \in Routes, RunTool(r) PROVE OnePerCycle'
  <2>1. CASE Advances(r)
    BY <1>f, <2>1, AdvanceMoves
  <2>2. CASE Land(r)
    <3> DEFINE n == Len(made) + 1
    <3>1. /\ calls[r].step = "send" /\ DOMAIN made' = DOMAIN made \cup {n} /\ n \notin DOMAIN made
          /\ \A i \in DOMAIN made : made'[i] = made[i] /\ i < n
          /\ made'[n].cycle = calls[r].cycle /\ calls'[r].cycle = calls[r].cycle
          /\ IF made'[n].ok THEN calls'[r].step = "track" /\ calls'[r].at = n
                            ELSE calls'[r].step = "done" /\ ~calls'[r].ok
          /\ \A q \in Routes : q # r => calls'[q] = calls[q]
          /\ live' = live \cup {n}
      <4>1. made \in Seq(MadeType)
        BY DEF Typed, TypeOK
      <4>2. \A i \in DOMAIN made : i < n
        BY <4>1
      <4> QED BY <2>2, <4>2, LandOpens DEF Typed
    <3> HIDE DEF n
    <3>2. UNCHANGED <<decider, company, cooling, log, busy, seen, thinking,
                      pc, cycle, before, steps, locked, fired>>
      BY <2>2, LandFrame
    <3>3. \A i \in DOMAIN made : made[i].cycle = calls[r].cycle /\ calls[r].cycle # 0
            => decider = "sage" /\ ~made[i].ok
      <4>1. CASE r \in Handlers
        <5>1. calls[r].cycle # 0 => decider = "sage"
          BY <3>1, <4>1 DEF CycleOf, OneAtATime, Active, NoCycle
        <5>2. decider = "sage" => calls[r].cycle \notin seen
          BY <3>1, <4>1 DEF BridgeOnce, Early
        <5>3. \A h \in Handlers : ~Landed(h)
          BY <3>1, <4>1 DEF OneAtATime, Active, Landed
        <5> QED BY <5>1, <5>2, <5>3 DEF BridgeOnce, NoCycle
      <4>2. CASE r = "loop"
        BY <3>1, <4>2 DEF LoopOnce, OneAtATime, CycleOf, Active, Early
      <4>3. CASE r \in Others
        BY <3>1, <4>3 DEF CycleOf, Active, NoCycle
      <4> QED BY <1>0, <4>1, <4>2, <4>3
    <3>4. n \in Nat /\ DOMAIN made \subseteq Nat
      <4>1. made \in Seq(MadeType)
        BY DEF Typed, TypeOK
      <4> QED BY <4>1 DEF n
    <3>5. ASSUME NEW i \in DOMAIN made', NEW j \in DOMAIN made', i < j,
                 made'[i].cycle = made'[j].cycle, made'[i].cycle # 0
          PROVE  decider = "sage" /\ ~made'[i].ok
      <4>1. i \in DOMAIN made
        <5>1. n \in Nat /\ j \in Nat /\ j <= n
          BY <3>1, <3>4
        <5> QED BY <3>1, <3>5, <5>1
      <4>2. CASE j = n
        BY <3>1, <3>3, <3>5, <4>1, <4>2
      <4>3. CASE j \in DOMAIN made
        BY <3>1, <3>5, <4>1, <4>3 DEF OnePerCycle, NoCycle
      <4> QED BY <3>1, <4>2, <4>3
    <3> QED BY <3>2, <3>5 DEF OnePerCycle, NoCycle
  <2>3. CASE LogDeploy(r)
    BY <1>f, <1>0, <2>3, LogMoves
  <2> QED BY <1>1, <2>1, <2>2, <2>3 DEF RunTool, Advances
<1>2. ASSUME NEW h \in Handlers, SageAsks(h) \/ UserAsks(h) \/ Answer(h) PROVE OnePerCycle'
  <2>1. ASSUME NEW p \in Pools, NEW c \in thinking \cup {NoCycle}, Ask(h, p, c) PROVE OnePerCycle'
    BY <1>f, <2>1, AskMoves
  <2>2. CASE Answer(h)
    BY <1>f, <2>2, AnswerMoves
  <2> QED BY <1>2, <2>1, <2>2 DEF SageAsks, UserAsks
<1>3. ASSUME NEW o \in Others, OtherDeploys(o) \/ OtherDone(o) PROVE OnePerCycle'
  BY <1>f, <1>3, OtherMoves
<1>4. ASSUME NEW p \in Pools, ModelCalls(p) PROVE OnePerCycle'
  BY <1>f, <1>4, ModelMoves
<1>5. CASE RecordAttempt
  BY <1>f, <1>5, RecordMoves
<1>6. CASE CycleOver
  BY <1>0, <1>6, OverMoves DEF OnePerCycle
<1>7. CASE Preflight \/ Candidates \/ Shortlist
  <2>1. calls' = calls /\ busy' = busy /\ UNCHANGED <<decider, company, made>> /\ live' = live
        /\ seen' = seen
    BY <1>7 DEF Preflight, Candidates, Shortlist, bridge, stores
  <2>2. CASE Preflight
    BY <1>0, <2>1, <2>2 DEF OnePerCycle, Preflight, Goto, bridge, session
  <2>3. CASE Candidates
    BY <1>0, <2>1, <2>3 DEF OnePerCycle, Candidates, Goto, bridge, stores, session
  <2>4. CASE Shortlist
    BY <1>0, <2>1, <2>4 DEF OnePerCycle, Shortlist, Goto, stores, session, Typed, TypeOK
  <2> QED BY <1>7, <2>2, <2>3, <2>4
<1>8. ASSUME NEW c \in Cycles, SageStops(c) PROVE OnePerCycle'
  BY <1>0, <1>8 DEF OnePerCycle, SageStops, Asking, stores, locals, session
<1>9. ASSUME NEW i \in live, Close(i) PROVE OnePerCycle'
  BY <1>0, <1>9 DEF OnePerCycle, Close, bridge, locals, session
<1>10. ASSUME NEW p \in Pools, CooldownEnds(p) PROVE OnePerCycle'
  BY <1>0, <1>10 DEF OnePerCycle, CooldownEnds, bridge, locals, session
<1>11. CASE UNCHANGED vars
  BY <1>11 DEF OnePerCycle, vars, stores, bridge, locals, session
<1>12. ASSUME NEW p \in Pools, DeployByHand(p) PROVE OnePerCycle'
  BY <1>0, <1>12, HandMoves DEF OnePerCycle, Typed
<1> QED
  BY <1>1, <1>2, <1>3, <1>4, <1>5, <1>6, <1>7, <1>8, <1>9, <1>10, <1>11, <1>12
     DEF Next, CycleStep, CycleOver

(* A cycle that declined stays over. *)
LEMMA DeclinedKept ==
  ASSUME Typed, OneAtATime, Deciding, DeclinedIsOver, [Next]_vars
  PROVE  DeclinedIsOver'
<1> USE DEF NoCycle, OnlyCall, OnlyCalls
<1>0. /\ Handlers \subseteq Routes /\ "loop" \in Routes /\ Others \subseteq Routes
      /\ Routes = Handlers \cup {"loop"} \cup Others
      /\ "loop" \notin Handlers \cup Others /\ Handlers \cap Others = {}
      /\ cycle \in Nat /\ thinking \subseteq Nat /\ 0 \notin thinking
      /\ pc # "idle" => cycle >= 1
  BY RoutesAssumption, BoundsAssumption DEF Routes, Others, Typed, TypeOK, Cycles
<1>f. UNCHANGED <<log, thinking, pc, cycle>> => DeclinedIsOver'
  BY DEF DeclinedIsOver
<1>1. ASSUME NEW r \in Routes, RunTool(r) PROVE DeclinedIsOver'
  <2>1. CASE Advances(r)
    BY <1>f, <2>1, AdvanceMoves
  <2>2. CASE Land(r)
    BY <1>f, <2>2, LandFrame
  <2>3. CASE LogDeploy(r)
    BY <1>f, <2>3, LogMoves DEF DeclinedIsOver, Entry
  <2> QED BY <1>1, <2>1, <2>2, <2>3 DEF RunTool, Advances
<1>2. ASSUME NEW h \in Handlers, SageAsks(h) \/ UserAsks(h) \/ Answer(h) PROVE DeclinedIsOver'
  <2>1. ASSUME NEW p \in Pools, NEW c \in thinking \cup {NoCycle}, Ask(h, p, c) PROVE DeclinedIsOver'
    BY <1>f, <2>1, AskMoves
  <2>2. CASE Answer(h)
    BY <1>f, <2>2, AnswerMoves
  <2> QED BY <1>2, <2>1, <2>2 DEF SageAsks, UserAsks
<1>3. ASSUME NEW o \in Others, OtherDeploys(o) \/ OtherDone(o) PROVE DeclinedIsOver'
  BY <1>f, <1>3, OtherMoves
<1>4. ASSUME NEW p \in Pools, ModelCalls(p) PROVE DeclinedIsOver'
  BY <1>f, <1>4, ModelMoves
<1>5. CASE RecordAttempt
  BY <1>f, <1>5, RecordMoves
<1>6. CASE CycleOver
  <2>1. /\ \A e \in log' : e \in log \/
             (e.kind = "declined" => e.cycle = cycle /\ cycle \notin thinking)
        /\ pc # "idle" /\ pc' = "idle" /\ UNCHANGED <<cycle, thinking>>
    BY <1>0, <1>6, OverMoves DEF OneAtATime
  <2> QED BY <1>0, <2>1 DEF DeclinedIsOver
<1>7. CASE Preflight \/ Candidates \/ Shortlist
  <2>1. calls' = calls /\ busy' = busy /\ UNCHANGED <<decider, company, made>> /\ live' = live
        /\ seen' = seen
    BY <1>7 DEF Preflight, Candidates, Shortlist, bridge, stores
  <2>2. CASE Preflight
    <3>1. /\ \A e \in log' : e \in log \/ e.kind # "declined"
          /\ cycle' = cycle + 1 /\ thinking' = thinking
      BY <2>2 DEF Preflight, Entry, bridge
    <3> QED BY <1>0, <2>1, <3>1 DEF DeclinedIsOver
  <2>3. CASE Candidates
    BY <1>0, <2>1, <2>3 DEF DeclinedIsOver, Candidates, Goto, bridge, stores, session
  <2>4. CASE Shortlist
    BY <1>0, <2>1, <2>4 DEF DeclinedIsOver, Shortlist, Goto, stores, session, Typed, TypeOK
  <2> QED BY <1>7, <2>2, <2>3, <2>4
<1>8. ASSUME NEW c \in Cycles, SageStops(c) PROVE DeclinedIsOver'
  BY <1>0, <1>8 DEF DeclinedIsOver, SageStops, Asking, stores, locals, session
<1>9. ASSUME NEW i \in live, Close(i) PROVE DeclinedIsOver'
  BY <1>0, <1>9 DEF DeclinedIsOver, Close, bridge, locals, session
<1>10. ASSUME NEW p \in Pools, CooldownEnds(p) PROVE DeclinedIsOver'
  BY <1>0, <1>10 DEF DeclinedIsOver, CooldownEnds, bridge, locals, session
<1>11. CASE UNCHANGED vars
  BY <1>11 DEF DeclinedIsOver, vars, stores, bridge, locals, session
<1>12. ASSUME NEW p \in Pools, DeployByHand(p) PROVE DeclinedIsOver'
  BY <1>f, <1>12, HandMoves DEF Typed
<1> QED
  BY <1>1, <1>2, <1>3, <1>4, <1>5, <1>6, <1>7, <1>8, <1>9, <1>10, <1>11, <1>12
     DEF Next, CycleStep, CycleOver

(* A decline stays true. *)
LEMMA DeclineKept ==
  ASSUME Typed, OneAtATime, CycleOf, Deciding, PositionOf, LoopOnce,
         DeclinedIsOver, DeclineIsTrue, [Next]_vars
  PROVE  DeclineIsTrue'
<1> USE DEF NoCycle, OnlyCall, OnlyCalls
<1>0. /\ Handlers \subseteq Routes /\ "loop" \in Routes /\ Others \subseteq Routes
      /\ Routes = Handlers \cup {"loop"} \cup Others
      /\ "loop" \notin Handlers \cup Others /\ Handlers \cap Others = {}
      /\ cycle \in Nat /\ thinking \subseteq Nat /\ 0 \notin thinking
      /\ pc # "idle" => cycle >= 1
  BY RoutesAssumption, BoundsAssumption DEF Routes, Others, Typed, TypeOK, Cycles
<1>f. UNCHANGED <<log, made, live>> => DeclineIsTrue'
  BY DEF DeclineIsTrue
<1>1. ASSUME NEW r \in Routes, RunTool(r) PROVE DeclineIsTrue'
  <2>1. CASE Advances(r)
    BY <1>f, <2>1, AdvanceMoves
  <2>2. CASE Land(r)
    <3> DEFINE n == Len(made) + 1
    <3>1. /\ calls[r].step = "send" /\ DOMAIN made' = DOMAIN made \cup {n} /\ n \notin DOMAIN made
          /\ \A i \in DOMAIN made : made'[i] = made[i] /\ i < n
          /\ made'[n].cycle = calls[r].cycle /\ calls'[r].cycle = calls[r].cycle
          /\ IF made'[n].ok THEN calls'[r].step = "track" /\ calls'[r].at = n
                            ELSE calls'[r].step = "done" /\ ~calls'[r].ok
          /\ \A q \in Routes : q # r => calls'[q] = calls[q]
          /\ live' = live \cup {n}
      <4>1. made \in Seq(MadeType)
        BY DEF Typed, TypeOK
      <4>2. \A i \in DOMAIN made : i < n
        BY <4>1
      <4> QED BY <2>2, <4>2, LandOpens DEF Typed
    <3> HIDE DEF n
    <3>2. UNCHANGED <<decider, company, cooling, log, busy, seen, thinking,
                      pc, cycle, before, steps, locked, fired>>
      BY <2>2, LandFrame
    <3>3. \A e \in log : e.kind = "declined" => e.cycle # calls[r].cycle
      <4>1. CASE r \in Handlers
        <5>1. calls[r].cycle \in thinking \cup {0}
          BY <3>1, <4>1 DEF CycleOf, Active, NoCycle
        <5>2. \A e \in log : e.kind = "declined" => e.cycle \notin thinking /\ e.cycle # 0
          BY <1>0 DEF DeclinedIsOver
        <5> QED BY <5>1, <5>2
      <4>2. CASE r = "loop"
        BY <3>1, <4>2 DEF DeclinedIsOver, OneAtATime, CycleOf, Active
      <4>3. CASE r \in Others
        <5>1. \A e \in log : e.kind = "declined" => e.cycle # 0
          BY <1>0 DEF DeclinedIsOver
        <5> QED BY <3>1, <4>3, <5>1 DEF CycleOf, Active, NoCycle
      <4> QED BY <1>0, <4>1, <4>2, <4>3
    <3> QED BY <3>1, <3>2, <3>3 DEF DeclineIsTrue
  <2>3. CASE LogDeploy(r)
    BY <1>f, <2>3, LogMoves DEF DeclineIsTrue, Entry
  <2> QED BY <1>1, <2>1, <2>2, <2>3 DEF RunTool, Advances
<1>2. ASSUME NEW h \in Handlers, SageAsks(h) \/ UserAsks(h) \/ Answer(h) PROVE DeclineIsTrue'
  <2>1. ASSUME NEW p \in Pools, NEW c \in thinking \cup {NoCycle}, Ask(h, p, c) PROVE DeclineIsTrue'
    BY <1>f, <2>1, AskMoves
  <2>2. CASE Answer(h)
    BY <1>f, <2>2, AnswerMoves
  <2> QED BY <1>2, <2>1, <2>2 DEF SageAsks, UserAsks
<1>3. ASSUME NEW o \in Others, OtherDeploys(o) \/ OtherDone(o) PROVE DeclineIsTrue'
  BY <1>f, <1>3, OtherMoves
<1>4. ASSUME NEW p \in Pools, ModelCalls(p) PROVE DeclineIsTrue'
  BY <1>f, <1>4, ModelMoves
<1>5. CASE RecordAttempt
  BY <1>f, <1>5, RecordMoves
<1>6. CASE CycleOver
  <2>1. pc = "loop" /\ ~fired =>
          \A i \in DOMAIN made : made[i].cycle = cycle => ~made[i].ok
    <3>1. pc = "loop" => calls["loop"].step = "idle"
      BY <1>6, OverMoves
    <3> QED BY <3>1 DEF LoopOnce, Landed
  <2>2. pc = "sage" /\ live \subseteq before =>
          \A i \in DOMAIN made : made[i].cycle = cycle => i \notin live
    BY DEF PositionOf
  <2>3. UNCHANGED <<made, live>>
    BY <1>6, OverMoves
  <2>4. \A e \in log' : e.kind = "declined" /\ e \notin log =>
          \A i \in DOMAIN made : made[i].cycle = e.cycle /\ made[i].ok => i \notin live
    BY <1>6, <2>1, <2>2, OverMoves
  <2> QED BY <2>3, <2>4 DEF DeclineIsTrue
<1>7. CASE Preflight \/ Candidates \/ Shortlist
  <2>1. calls' = calls /\ busy' = busy /\ UNCHANGED <<decider, company, made>> /\ live' = live
        /\ seen' = seen
    BY <1>7 DEF Preflight, Candidates, Shortlist, bridge, stores
  <2>2. CASE Preflight
    <3>1. /\ \A e \in log' : e \in log \/ e.kind # "declined"
          /\ cycle' = cycle + 1 /\ thinking' = thinking
      BY <2>2 DEF Preflight, Entry, bridge
    <3> QED BY <1>0, <2>1, <3>1 DEF DeclineIsTrue
  <2>3. CASE Candidates
    BY <1>0, <2>1, <2>3 DEF DeclineIsTrue, Candidates, Goto, bridge, stores, session
  <2>4. CASE Shortlist
    BY <1>0, <2>1, <2>4 DEF DeclineIsTrue, Shortlist, Goto, stores, session, Typed, TypeOK
  <2> QED BY <1>7, <2>2, <2>3, <2>4
<1>8. ASSUME NEW c \in Cycles, SageStops(c) PROVE DeclineIsTrue'
  BY <1>0, <1>8 DEF DeclineIsTrue, SageStops, Asking, stores, locals, session
<1>9. ASSUME NEW i \in live, Close(i) PROVE DeclineIsTrue'
  BY <1>0, <1>9 DEF DeclineIsTrue, Close, bridge, locals, session
<1>10. ASSUME NEW p \in Pools, CooldownEnds(p) PROVE DeclineIsTrue'
  BY <1>0, <1>10 DEF DeclineIsTrue, CooldownEnds, bridge, locals, session
<1>11. CASE UNCHANGED vars
  BY <1>11 DEF DeclineIsTrue, vars, stores, bridge, locals, session
<1>12. ASSUME NEW p \in Pools, DeployByHand(p) PROVE DeclineIsTrue'
  BY <1>0, <1>12, HandMoves DEF DeclineIsTrue, Typed
<1> QED
  BY <1>1, <1>2, <1>3, <1>4, <1>5, <1>6, <1>7, <1>8, <1>9, <1>10, <1>11, <1>12
     DEF Next, CycleStep, CycleOver

(* The position a call opened stays its own. *)
LEMMA AtIsMadeKept ==
  ASSUME Typed, AtIsMade, [Next]_vars
  PROVE  AtIsMade'
<1> USE DEF NoCycle, OnlyCall, OnlyCalls
<1>0. /\ Handlers \subseteq Routes /\ "loop" \in Routes /\ Others \subseteq Routes
      /\ Routes = Handlers \cup {"loop"} \cup Others
      /\ "loop" \notin Handlers \cup Others /\ Handlers \cap Others = {}
      /\ cycle \in Nat /\ thinking \subseteq Nat /\ 0 \notin thinking
      /\ pc # "idle" => cycle >= 1
  BY RoutesAssumption, BoundsAssumption DEF Routes, Others, Typed, TypeOK, Cycles
<1>1. ASSUME NEW r \in Routes, RunTool(r) PROVE AtIsMade'
  <2>1. CASE Advances(r)
    BY <1>0, <2>1, AdvanceMoves DEF AtIsMade
  <2>2. CASE Land(r)
    <3> DEFINE n == Len(made) + 1
    <3>1. /\ calls[r].step = "send" /\ DOMAIN made' = DOMAIN made \cup {n} /\ n \notin DOMAIN made
          /\ \A i \in DOMAIN made : made'[i] = made[i] /\ i < n
          /\ made'[n].cycle = calls[r].cycle /\ calls'[r].cycle = calls[r].cycle
          /\ IF made'[n].ok THEN calls'[r].step = "track" /\ calls'[r].at = n
                            ELSE calls'[r].step = "done" /\ ~calls'[r].ok
          /\ \A q \in Routes : q # r => calls'[q] = calls[q]
          /\ live' = live \cup {n}
      <4>1. made \in Seq(MadeType)
        BY DEF Typed, TypeOK
      <4>2. \A i \in DOMAIN made : i < n
        BY <4>1
      <4> QED BY <2>2, <4>2, LandOpens DEF Typed
    <3> HIDE DEF n
    <3>2. UNCHANGED <<decider, company, cooling, log, busy, seen, thinking,
                      pc, cycle, before, steps, locked, fired>>
      BY <2>2, LandFrame
    <3> QED BY <1>0, <3>1, <3>2 DEF AtIsMade
  <2>3. CASE LogDeploy(r)
    BY <1>0, <2>3, LogMoves DEF AtIsMade
  <2> QED BY <1>1, <2>1, <2>2, <2>3 DEF RunTool, Advances
<1>2. ASSUME NEW h \in Handlers, SageAsks(h) \/ UserAsks(h) \/ Answer(h) PROVE AtIsMade'
  <2>1. ASSUME NEW p \in Pools, NEW c \in thinking \cup {NoCycle}, Ask(h, p, c) PROVE AtIsMade'
    BY <1>0, <2>1, AskMoves DEF AtIsMade
  <2>2. CASE Answer(h)
    BY <1>0, <2>2, AnswerMoves DEF AtIsMade
  <2> QED BY <1>2, <2>1, <2>2 DEF SageAsks, UserAsks
<1>3. ASSUME NEW o \in Others, OtherDeploys(o) \/ OtherDone(o) PROVE AtIsMade'
  BY <1>0, <1>3, OtherMoves DEF AtIsMade
<1>4. ASSUME NEW p \in Pools, ModelCalls(p) PROVE AtIsMade'
  BY <1>0, <1>4, ModelMoves DEF AtIsMade
<1>5. CASE RecordAttempt
  BY <1>0, <1>5, RecordMoves DEF AtIsMade
<1>6. CASE CycleOver
  BY <1>0, <1>6, OverMoves DEF AtIsMade
<1>7. CASE Preflight \/ Candidates \/ Shortlist
  <2>1. calls' = calls /\ busy' = busy /\ UNCHANGED <<decider, company, made>> /\ live' = live
        /\ seen' = seen
    BY <1>7 DEF Preflight, Candidates, Shortlist, bridge, stores
  <2>2. CASE Preflight
    BY <1>0, <2>1, <2>2 DEF AtIsMade, Preflight, Goto, bridge, session
  <2>3. CASE Candidates
    BY <1>0, <2>1, <2>3 DEF AtIsMade, Candidates, Goto, bridge, stores, session
  <2>4. CASE Shortlist
    BY <1>0, <2>1, <2>4 DEF AtIsMade, Shortlist, Goto, stores, session, Typed, TypeOK
  <2> QED BY <1>7, <2>2, <2>3, <2>4
<1>8. ASSUME NEW c \in Cycles, SageStops(c) PROVE AtIsMade'
  BY <1>0, <1>8 DEF AtIsMade, SageStops, Asking, stores, locals, session
<1>9. ASSUME NEW i \in live, Close(i) PROVE AtIsMade'
  BY <1>0, <1>9 DEF AtIsMade, Close, bridge, locals, session
<1>10. ASSUME NEW p \in Pools, CooldownEnds(p) PROVE AtIsMade'
  BY <1>0, <1>10 DEF AtIsMade, CooldownEnds, bridge, locals, session
<1>11. CASE UNCHANGED vars
  BY <1>11 DEF AtIsMade, vars, stores, bridge, locals, session
<1>12. ASSUME NEW p \in Pools, DeployByHand(p) PROVE AtIsMade'
  BY <1>0, <1>12, HandMoves DEF AtIsMade, Typed
<1> QED
  BY <1>1, <1>2, <1>3, <1>4, <1>5, <1>6, <1>7, <1>8, <1>9, <1>10, <1>11, <1>12
     DEF Next, CycleStep, CycleOver

(* What landed is logged, or about to be. *)
LEMMA LoggedKept ==
  ASSUME Typed, AtIsMade, LandedIsLogged, [Next]_vars
  PROVE  LandedIsLogged'
<1> USE DEF NoCycle, OnlyCall, OnlyCalls
<1>0. /\ Handlers \subseteq Routes /\ "loop" \in Routes /\ Others \subseteq Routes
      /\ Routes = Handlers \cup {"loop"} \cup Others
      /\ "loop" \notin Handlers \cup Others /\ Handlers \cap Others = {}
      /\ cycle \in Nat /\ thinking \subseteq Nat /\ 0 \notin thinking
      /\ pc # "idle" => cycle >= 1
  BY RoutesAssumption, BoundsAssumption DEF Routes, Others, Typed, TypeOK, Cycles
<1>1. ASSUME NEW r \in Routes, RunTool(r) PROVE LandedIsLogged'
  <2>1. CASE Advances(r)
    BY <1>0, <2>1, AdvanceMoves DEF LandedIsLogged, ByTool
  <2>2. CASE Land(r)
    <3> DEFINE n == Len(made) + 1
    <3>1. /\ calls[r].step = "send" /\ DOMAIN made' = DOMAIN made \cup {n} /\ n \notin DOMAIN made
          /\ \A i \in DOMAIN made : made'[i] = made[i] /\ i < n
          /\ made'[n].cycle = calls[r].cycle /\ calls'[r].cycle = calls[r].cycle
          /\ IF made'[n].ok THEN calls'[r].step = "track" /\ calls'[r].at = n
                            ELSE calls'[r].step = "done" /\ ~calls'[r].ok
          /\ \A q \in Routes : q # r => calls'[q] = calls[q]
          /\ live' = live \cup {n}
      <4>1. made \in Seq(MadeType)
        BY DEF Typed, TypeOK
      <4>2. \A i \in DOMAIN made : i < n
        BY <4>1
      <4> QED BY <2>2, <4>2, LandOpens DEF Typed
    <3> HIDE DEF n
    <3>2. UNCHANGED <<decider, company, cooling, log, busy, seen, thinking,
                      pc, cycle, before, steps, locked, fired>>
      BY <2>2, LandFrame
    <3> QED BY <1>0, <3>1, <3>2 DEF LandedIsLogged, ByTool
  <2>3. CASE LogDeploy(r)
    <3>1. /\ log' = log \cup {Entry("deploy", calls[r].cycle, calls[r].at)} /\ made' = made
          /\ calls[r].step = "log" /\ \A q \in Routes : q # r => calls'[q] = calls[q]
      BY <2>3, LogMoves
    <3>2. calls[r].cycle = made[calls[r].at].cycle
      BY <3>1 DEF AtIsMade
    <3> SUFFICES ASSUME NEW i \in DOMAIN made, made[i].ok, ~made[i].byHand,
                        \A q \in Routes : ~(calls'[q].at = i /\ calls'[q].step \in {"track", "log"})
                 PROVE  Entry("deploy", made[i].cycle, i) \in log'
      BY <3>1 DEF LandedIsLogged, ByTool
    <3>3. CASE calls[r].at = i
      BY <3>1, <3>2, <3>3
    <3>4. CASE calls[r].at # i
      BY <3>1, <3>4 DEF LandedIsLogged, ByTool
    <3> QED BY <3>3, <3>4
  <2> QED BY <1>1, <2>1, <2>2, <2>3 DEF RunTool, Advances
<1>2. ASSUME NEW h \in Handlers, SageAsks(h) \/ UserAsks(h) \/ Answer(h) PROVE LandedIsLogged'
  <2>1. ASSUME NEW p \in Pools, NEW c \in thinking \cup {NoCycle}, Ask(h, p, c) PROVE LandedIsLogged'
    BY <1>0, <2>1, AskMoves DEF LandedIsLogged, ByTool
  <2>2. CASE Answer(h)
    BY <1>0, <2>2, AnswerMoves DEF LandedIsLogged, ByTool
  <2> QED BY <1>2, <2>1, <2>2 DEF SageAsks, UserAsks
<1>3. ASSUME NEW o \in Others, OtherDeploys(o) \/ OtherDone(o) PROVE LandedIsLogged'
  BY <1>0, <1>3, OtherMoves DEF LandedIsLogged, ByTool
<1>4. ASSUME NEW p \in Pools, ModelCalls(p) PROVE LandedIsLogged'
  BY <1>0, <1>4, ModelMoves DEF LandedIsLogged, ByTool
<1>5. CASE RecordAttempt
  BY <1>0, <1>5, RecordMoves DEF LandedIsLogged, ByTool
<1>6. CASE CycleOver
  BY <1>0, <1>6, OverMoves DEF LandedIsLogged, ByTool
<1>7. CASE Preflight \/ Candidates \/ Shortlist
  <2>1. calls' = calls /\ busy' = busy /\ UNCHANGED <<decider, company, made>> /\ live' = live
        /\ seen' = seen
    BY <1>7 DEF Preflight, Candidates, Shortlist, bridge, stores
  <2>2. CASE Preflight
    BY <1>0, <2>1, <2>2 DEF LandedIsLogged, ByTool, Preflight, Goto, bridge, session
  <2>3. CASE Candidates
    BY <1>0, <2>1, <2>3 DEF LandedIsLogged, ByTool, Candidates, Goto, bridge, stores, session
  <2>4. CASE Shortlist
    BY <1>0, <2>1, <2>4 DEF LandedIsLogged, ByTool, Shortlist, Goto, stores, session, Typed, TypeOK
  <2> QED BY <1>7, <2>2, <2>3, <2>4
<1>8. ASSUME NEW c \in Cycles, SageStops(c) PROVE LandedIsLogged'
  BY <1>0, <1>8 DEF LandedIsLogged, ByTool, SageStops, Asking, stores, locals, session
<1>9. ASSUME NEW i \in live, Close(i) PROVE LandedIsLogged'
  BY <1>0, <1>9 DEF LandedIsLogged, ByTool, Close, bridge, locals, session
<1>10. ASSUME NEW p \in Pools, CooldownEnds(p) PROVE LandedIsLogged'
  BY <1>0, <1>10 DEF LandedIsLogged, ByTool, CooldownEnds, bridge, locals, session
<1>11. CASE UNCHANGED vars
  BY <1>11 DEF LandedIsLogged, ByTool, vars, stores, bridge, locals, session
<1>12. ASSUME NEW p \in Pools, DeployByHand(p) PROVE LandedIsLogged'
  BY <1>0, <1>12, HandMoves DEF LandedIsLogged, ByTool, Typed
<1> QED
  BY <1>1, <1>2, <1>3, <1>4, <1>5, <1>6, <1>7, <1>8, <1>9, <1>10, <1>11, <1>12
     DEF Next, CycleStep, CycleOver

(* Everything the promises rest on holds from the start, and stays. *)
LEMMA CycleInvKept ==
  ASSUME CycleInv, Typed, [Next]_vars
  PROVE  CycleInv'
<1>1. TypeOK'
  BY NextTyped DEF Typed
<1>2. OneAtATime' /\ CycleOf' /\ Deciding' /\ PositionOf'
  BY OneAtATimeKept, CycleOfKept, DecidingKept, PositionOfKept DEF CycleInv
<1>3. LoopOnce' /\ BridgeOnce' /\ DeclinedIsOver' /\ AtIsMade'
  BY LoopOnceKept, BridgeOnceKept, DeclinedKept, AtIsMadeKept DEF CycleInv
<1>4. OnePerCycle' /\ DeclineIsTrue' /\ LandedIsLogged'
  BY OnePerCycleKept, DeclineKept, LoggedKept DEF CycleInv
<1> QED BY <1>1, <1>2, <1>3, <1>4 DEF CycleInv

(* At the start nothing is under way. *)
LEMMA CycleInvInit == Init => CycleInv
<1> SUFFICES ASSUME Init PROVE CycleInv
  OBVIOUS
<1>1. \A r \in Routes : calls[r].step = "idle"
  BY DEF Init, NoCall
<1>2. Handlers \subseteq Routes /\ "loop" \in Routes /\ Others \subseteq Routes
  BY DEF Routes
<1>3. /\ pc = "idle" /\ thinking = {} /\ log = {} /\ DOMAIN made = {} /\ before = {}
  BY DEF Init
<1>4. TypeOK
  BY InitTyped DEF Typed
<1>5. OneAtATime /\ CycleOf /\ Deciding /\ PositionOf
  BY <1>1, <1>2, <1>3 DEF OneAtATime, CycleOf, Deciding, PositionOf, Active
<1>6. LoopOnce /\ BridgeOnce /\ DeclinedIsOver /\ AtIsMade
  BY <1>1, <1>2, <1>3 DEF LoopOnce, BridgeOnce, DeclinedIsOver, AtIsMade, Early
<1>7. OnePerCycle /\ DeclineIsTrue /\ LandedIsLogged
  BY <1>3 DEF OnePerCycle, DeclineIsTrue, LandedIsLogged, ByTool
<1> QED BY <1>4, <1>5, <1>6, <1>7 DEF CycleInv

(* So it is an invariant. *)
LEMMA CycleInvHolds == Spec => []CycleInv
<1>1. Typed /\ CycleInv /\ [Next]_vars => (Typed /\ CycleInv)'
  BY NextTyped, CycleInvKept
<1> QED BY <1>1, InitTyped, CycleInvInit, PTL DEF Spec

(* A cycle opens at most one position, but through the bridge one more for *)
(* each that landed and reported failure: whatever the number of cycles,   *)
(* of requests, of answers of the model and of lost answers.               *)
THEOREM OnePerCycleHolds == Spec => []OnePerCycle
<1>1. CycleInv => OnePerCycle
  BY DEF CycleInv
<1> QED BY <1>1, CycleInvHolds, PTL

(* A cycle that says it declined never has a position of its own open.     *)
THEOREM DeclineIsTrueHolds == Spec => []DeclineIsTrue
<1>1. CycleInv => DeclineIsTrue
  BY DEF CycleInv
<1> QED BY <1>1, CycleInvHolds, PTL

(* Every deploy of the tool that reported success is in the decision log,  *)
(* or about to be, whichever route called it.                              *)
THEOREM LandedIsLoggedHolds == Spec => []LandedIsLogged
<1>1. CycleInv => LandedIsLogged
  BY DEF CycleInv
<1> QED BY <1>1, CycleInvHolds, PTL
=============================================================================
