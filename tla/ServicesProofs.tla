--------------------------- MODULE ServicesProofs ---------------------------
(***************************************************************************)
(* Proofs about the services, for any sets of parts that run together and    *)
(* every value of the other constants: no command of the operator is lost,    *)
(* the agent's conversation stays valid and its writes start once, a lesson   *)
(* is shown where it was tested, and it counts the reviews that scored it.    *)
(***************************************************************************)
EXTENDS Services, FiniteSetTheorems, TLAPS

---------------------------------------------------------------------------
(* The operator's commands.                                                *)

BotTyped ==
  /\ sent \in Seq(Messages) /\ batch \in Seq(Nat)
  /\ acked \in Nat /\ acked <= Len(sent) + 1
  /\ offset \in Nat /\ offset <= Len(sent) + 1
  /\ DOMAIN doing = DOMAIN Bot!Nothing /\ doing.id \in Nat

(* The updates of a batch follow one another.                              *)
InOrder == \A i \in 1 .. Len(batch) : batch[i] \in 1 .. Len(sent) /\ batch[i] = batch[1] + (i - 1)

(* Whatever lies below the offset, or before what is left of the batch, has  *)
(* been handled, but for the command in progress.                           *)
Answered(id) == Bot!IsAuthorized(sent[id]) => id \in handled \cup {doing.id}
Below(n)     == \A id \in 1 .. Len(sent) : id < n => Answered(id)
Read         == Below(offset) /\ (batch # <<>> => Below(batch[1]))

BotInv == BotTyped /\ InOrder /\ Read /\ Bot!AckedIsHandled

LEMMA NothingIs ==
  DOMAIN Bot!Nothing = {"id", "at", "todo", "left"} /\ Bot!Nothing.id = 0
  BY DEF Bot!Nothing

LEMMA LargerIs ==
  ASSUME NEW a \in Nat, NEW b \in Nat
  PROVE  Bot!Larger(a, b) \in {a, b} /\ Bot!Larger(a, b) >= a /\ Bot!Larger(a, b) >= b
  BY DEF Bot!Larger

---------------------------------------------------------------------------
(* The steps that leave the queue alone.                                   *)

LEMMA FrameHolds ==
  ASSUME BotInv, UNCHANGED <<sent, acked, offset, batch>>,
         DOMAIN doing' = DOMAIN Bot!Nothing, doing'.id \in Nat,
         handled \subseteq handled', handled \cup {doing.id} \subseteq handled' \cup {doing'.id}
  PROVE  BotInv'
<1>1. BotTyped' /\ InOrder'
  BY NothingIs DEF BotInv, BotTyped, InOrder, Bot!Nothing
<1>2. \A id \in 1 .. Len(sent) : Answered(id) => Answered(id)'
  BY DEF Answered, Bot!IsAuthorized
<1>3. Read'
  BY <1>2 DEF BotInv, Read, Below
<1>4. Bot!AckedIsHandled'
  BY DEF BotInv, Bot!AckedIsHandled, Bot!IsAuthorized
<1> QED BY <1>1, <1>3, <1>4 DEF BotInv

LEMMA HandlerEnds ==
  ASSUME BotInv, Bot!Done, UNCHANGED <<sent, acked, offset, batch>> PROVE BotInv'
<1>1. doing' = Bot!Nothing /\ handled' = handled \cup {doing.id}
  BY DEF Bot!Done
<1> QED BY <1>1, FrameHolds, NothingIs

LEMMA HandlerGoesOn ==
  ASSUME BotInv, UNCHANGED <<sent, acked, offset, batch, handled>>,
         DOMAIN doing' = DOMAIN doing, doing'.id = doing.id
  PROVE  BotInv'
<1>1. DOMAIN doing' = DOMAIN Bot!Nothing /\ doing'.id \in Nat
  BY DEF BotInv, BotTyped
<1> QED BY <1>1, FrameHolds

(* A daemon that stops forgets its offset: Telegram does not.               *)
LEMMA MemoryLost ==
  ASSUME BotInv, Bot!Booted, UNCHANGED <<sent, acked, handled>> PROVE BotInv'
<1>1. offset' = 0 /\ batch' = <<>> /\ doing' = Bot!Nothing
  BY DEF Bot!Booted
<1>2. BotTyped'
  BY <1>1, NothingIs DEF BotInv, BotTyped
<1>3. InOrder' /\ Read'
  BY <1>1 DEF InOrder, Read, Below
<1>4. Bot!AckedIsHandled'
  BY DEF BotInv, Bot!AckedIsHandled, Bot!IsAuthorized
<1> QED BY <1>2, <1>3, <1>4 DEF BotInv

---------------------------------------------------------------------------
(* The queue.                                                              *)

(* A new update lies beyond everything that was read.                      *)
LEMMA SendHolds ==
  ASSUME BotInv, NEW m \in Messages, Bot!Send(m) PROVE BotInv'
<1>1. sent' = Append(sent, m) /\ UNCHANGED <<acked, offset, batch, doing, handled>>
  BY DEF Bot!Send, Bot!memory
<1>2. sent \in Seq(Messages) /\ Len(sent) \in Nat
  BY DEF BotInv, BotTyped
<1>3. sent' \in Seq(Messages) /\ Len(sent') = Len(sent) + 1
      /\ \A id \in 1 .. Len(sent) : sent'[id] = sent[id]
  BY <1>1, <1>2
<1>4. BotTyped'
  BY <1>1, <1>2, <1>3 DEF BotInv, BotTyped
<1>5. InOrder'
  BY <1>1, <1>2, <1>3 DEF BotInv, InOrder
<1>6. ASSUME NEW n \in Nat, n <= Len(sent) + 1, Below(n),
             NEW id \in 1 .. Len(sent'), id < n
      PROVE  Bot!IsAuthorized(sent'[id]) => id \in handled' \cup {doing'.id}
  <2>1. id \in 1 .. Len(sent)
    BY <1>2, <1>3, <1>6
  <2> QED BY <1>1, <1>3, <1>6, <2>1 DEF Below, Answered
<1>7. Below(offset)'
  BY <1>1, <1>6 DEF BotInv, BotTyped, Read, Below, Answered
<1>8. batch # <<>> => Below(batch[1])'
  <2> SUFFICES ASSUME batch # <<>> PROVE Below(batch[1])'
    OBVIOUS
  <2>1. 1 \in 1 .. Len(batch)
    BY DEF BotInv, BotTyped
  <2>2. batch[1] \in Nat /\ batch[1] <= Len(sent) + 1
    BY <1>2, <2>1 DEF BotInv, InOrder
  <2> QED BY <1>1, <1>6, <2>2 DEF BotInv, Read, Below, Answered
<1>9. Bot!AckedIsHandled'
  <2> SUFFICES ASSUME NEW id \in 1 .. Len(sent'), id < acked, Bot!IsAuthorized(sent'[id])
               PROVE  id \in handled
    BY <1>1 DEF Bot!AckedIsHandled
  <2>1. id \in 1 .. Len(sent)
    BY <1>2, <1>3 DEF BotInv, BotTyped
  <2> QED BY <1>3, <2>1 DEF BotInv, Bot!AckedIsHandled
<1> QED BY <1>1, <1>4, <1>5, <1>7, <1>8, <1>9 DEF BotInv, Read

(* What the request acknowledges has been handled: no command is in         *)
(* progress when it is made.                                               *)
LEMMA RequestHolds ==
  ASSUME BotInv, Bot!Polling, acked' = Bot!Larger(acked, offset), UNCHANGED <<sent, handled>>
  PROVE  /\ acked' \in Nat /\ acked' <= Len(sent) + 1 /\ Bot!AckedIsHandled'
         /\ \A id \in 1 .. Len(sent) : id < acked' /\ Bot!IsAuthorized(sent[id]) => id \in handled
<1>1. acked' \in {acked, offset} /\ acked \in Nat /\ offset \in Nat
  BY LargerIs DEF BotInv, BotTyped
<1>2. doing.id = 0
  BY NothingIs DEF Bot!Polling
<1>3. \A id \in 1 .. Len(sent) : id < acked' /\ Bot!IsAuthorized(sent[id]) => id \in handled
  <2> SUFFICES ASSUME NEW id \in 1 .. Len(sent), id < acked', Bot!IsAuthorized(sent[id])
               PROVE  id \in handled
    OBVIOUS
  <2>1. CASE id < acked
    BY <2>1 DEF BotInv, Bot!AckedIsHandled
  <2>2. CASE id < offset
    <3>1. id \in handled \cup {doing.id}
      BY <2>2 DEF BotInv, Read, Below, Answered
    <3> QED BY <1>2, <3>1
  <2> QED BY <1>1, <2>1, <2>2
<1>4. Bot!AckedIsHandled'
  BY <1>3 DEF Bot!AckedIsHandled
<1> QED BY <1>1, <1>3, <1>4 DEF BotInv, BotTyped

LEMMA PollFailsHolds ==
  ASSUME BotInv, Bot!PollFails PROVE BotInv'
<1>1. /\ Bot!Polling /\ acked' = Bot!Larger(acked, offset)
      /\ UNCHANGED <<sent, offset, batch, doing, handled>>
  BY DEF Bot!PollFails, Bot!memory
<1>2. acked' \in Nat /\ acked' <= Len(sent) + 1 /\ Bot!AckedIsHandled'
  BY <1>1, RequestHolds
<1> QED BY <1>1, <1>2 DEF BotInv, BotTyped, InOrder, Read, Below, Answered

LEMMA PollHolds ==
  ASSUME BotInv, Bot!Poll PROVE BotInv'
<1>1. /\ Bot!Polling /\ acked' = Bot!Larger(acked, offset)
      /\ UNCHANGED <<sent, offset, doing, handled>>
  BY DEF Bot!Poll
<1>2. /\ acked' \in Nat /\ acked' <= Len(sent) + 1 /\ Bot!AckedIsHandled'
      /\ \A id \in 1 .. Len(sent) : id < acked' /\ Bot!IsAuthorized(sent[id]) => id \in handled
  BY <1>1, RequestHolds
<1> DEFINE before == Bot!Larger(acked', 1) - 1
<1>3. before \in Nat /\ before <= Len(sent) /\ (before + 1 = acked' \/ before = 0)
  <2>1. Len(sent) \in Nat
    BY DEF BotInv, BotTyped
  <2>2. Bot!Larger(acked', 1) \in {acked', 1} /\ Bot!Larger(acked', 1) >= 1
    BY <1>2, LargerIs
  <2> QED BY <1>2, <2>1, <2>2
<1>4. PICK n \in 0 .. (Len(sent) - before) : batch' = [i \in 1 .. n |-> before + i]
  BY DEF Bot!Poll
<1> HIDE DEF before
<1>5. Len(sent) \in Nat /\ n \in Nat
  BY <1>3, <1>4 DEF BotInv, BotTyped
<1>6. batch' \in Seq(Nat) /\ Len(batch') = n /\ \A i \in 1 .. n : batch'[i] = before + i
  BY <1>3, <1>4, <1>5
<1>7. BotTyped'
  BY <1>1, <1>2, <1>6 DEF BotInv, BotTyped
<1>8. \A i \in 1 .. n : batch'[i] \in 1 .. Len(sent) /\ batch'[i] = batch'[1] + (i - 1)
  BY <1>3, <1>4, <1>5, <1>6
<1>9. InOrder'
  BY <1>1, <1>6, <1>8 DEF InOrder
<1>10. ASSUME batch' # <<>> PROVE Below(batch[1])'
  <2>1. n > 0 /\ batch'[1] = before + 1
    BY <1>5, <1>6, <1>10
  <2> SUFFICES ASSUME NEW id \in 1 .. Len(sent), id < before + 1, Bot!IsAuthorized(sent[id])
               PROVE  id \in handled
    BY <1>1, <2>1 DEF Below, Answered
  <2>2. id < acked'
    BY <1>2, <1>3
  <2> QED BY <1>2, <2>2
<1>11. Below(offset)'
  BY <1>1 DEF BotInv, Read, Below, Answered
<1> QED BY <1>2, <1>7, <1>9, <1>10, <1>11 DEF BotInv, Read

(* The next update of the batch becomes the command in progress, or is not   *)
(* the operator's.                                                         *)
LEMMA TakeHolds ==
  ASSUME BotInv, Bot!Take PROVE BotInv'
<1> DEFINE id == Head(batch)
<1>1. /\ batch # <<>> /\ doing = Bot!Nothing /\ batch' = Tail(batch)
      /\ offset' = Bot!Larger(offset, id + 1) /\ UNCHANGED <<sent, acked, handled>>
      /\ doing' = IF Bot!IsAuthorized(sent[id])
                  THEN [id |-> id, at |-> "routed", todo |-> <<>>, left |-> MaxTools]
                  ELSE Bot!Nothing
  BY DEF Bot!Take
<1>2. batch \in Seq(Nat) /\ Len(sent) \in Nat /\ offset \in Nat /\ offset <= Len(sent) + 1
  BY DEF BotInv, BotTyped
<1>3. /\ id = batch[1] /\ Len(batch) \in Nat /\ Len(batch) > 0 /\ Tail(batch) \in Seq(Nat)
      /\ Len(Tail(batch)) = Len(batch) - 1
      /\ \A i \in 1 .. Len(Tail(batch)) : Tail(batch)[i] = batch[i + 1]
  BY <1>1, <1>2
<1>4. id \in 1 .. Len(sent)
  BY <1>3 DEF BotInv, InOrder
<1>5. \A i \in 1 .. Len(batch) : batch[i] \in 1 .. Len(sent) /\ batch[i] = id + (i - 1)
  BY <1>3 DEF BotInv, InOrder
<1>b. Below(id)
  BY <1>1, <1>3 DEF BotInv, Read
<1> HIDE DEF id
<1>6. offset' \in {offset, id + 1} /\ id + 1 <= Len(sent) + 1
  BY <1>1, <1>2, <1>4, LargerIs
<1>7. DOMAIN doing' = DOMAIN Bot!Nothing /\ doing'.id \in Nat
      /\ (Bot!IsAuthorized(sent[id]) => doing'.id = id)
  <2>1. CASE Bot!IsAuthorized(sent[id])
    BY <1>1, <1>4, <2>1, NothingIs
  <2>2. CASE ~Bot!IsAuthorized(sent[id])
    BY <1>1, <2>2, NothingIs
  <2> QED BY <2>1, <2>2
<1>8. BotTyped'
  BY <1>1, <1>2, <1>3, <1>4, <1>6, <1>7, NothingIs DEF BotInv, BotTyped, Bot!Nothing
<1>9. \A i \in 1 .. Len(Tail(batch)) :
        Tail(batch)[i] \in 1 .. Len(sent) /\ Tail(batch)[i] = (id + 1) + (i - 1)
  BY <1>3, <1>4, <1>5
<1>10. InOrder'
  <2> SUFFICES ASSUME NEW i \in 1 .. Len(Tail(batch))
               PROVE  /\ Tail(batch)[i] \in 1 .. Len(sent)
                      /\ Tail(batch)[i] = Tail(batch)[1] + (i - 1)
    BY <1>1 DEF InOrder
  <2>1. 1 \in 1 .. Len(Tail(batch))
    BY <1>3
  <2>2. Tail(batch)[1] = (id + 1) + (1 - 1)
    BY <1>9, <2>1
  <2> QED BY <1>4, <1>9, <2>2
<1>11. \A k \in 1 .. Len(sent) : (k < offset \/ k < id + 1) /\ Bot!IsAuthorized(sent[k])
         => k \in handled \cup {doing'.id}
  <2> SUFFICES ASSUME NEW k \in 1 .. Len(sent), k < offset \/ k < id + 1, Bot!IsAuthorized(sent[k])
               PROVE  k \in handled \cup {doing'.id}
    OBVIOUS
  <2>1. CASE k = id
    BY <1>7, <2>1
  <2>2. CASE k # id
    <3>1. k < offset \/ k < id
      BY <1>4, <2>2
    <3>2. k \in handled \cup {doing.id}
      BY <3>1, <1>b DEF BotInv, Read, Below, Answered
    <3>3. doing.id = 0
      BY <1>1, NothingIs
    <3> QED BY <3>2, <3>3
  <2> QED BY <2>1, <2>2
<1>12. Below(offset)'
  BY <1>1, <1>6, <1>11 DEF Below, Answered
<1>13. ASSUME batch' # <<>> PROVE Below(batch[1])'
  <2>1. 1 \in 1 .. Len(Tail(batch))
    BY <1>1, <1>3, <1>13
  <2>2. batch'[1] = id + 1
    BY <1>1, <1>4, <1>9, <2>1
  <2> QED BY <1>1, <1>11, <2>2 DEF Below, Answered
<1>14. Bot!AckedIsHandled'
  BY <1>1 DEF BotInv, Bot!AckedIsHandled
<1> QED BY <1>8, <1>10, <1>12, <1>13, <1>14 DEF BotInv, Read

LEMMA BotStarts ==
  ASSUME Init PROVE BotInv
<1>1. sent = <<>> /\ acked = 0 /\ offset = 0 /\ batch = <<>> /\ doing = Bot!Nothing
  BY DEF Init, NoBot, Bot!Init
<1>2. sent \in Seq(Messages) /\ batch \in Seq(Nat) /\ Len(sent) = 0 /\ Len(batch) = 0
  BY <1>1
<1> QED BY <1>1, <1>2, NothingIs
        DEF BotInv, BotTyped, InOrder, Read, Below, Bot!AckedIsHandled

LEMMA BotSteps ==
  ASSUME BotInv, Bot!Next PROVE BotInv'
<1>1. ASSUME NEW m \in Messages, Bot!Send(m) PROVE BotInv'
  BY <1>1, SendHolds
<1>2. CASE Bot!Poll
  BY <1>2, PollHolds
<1>3. CASE Bot!PollFails
  BY <1>3, PollFailsHolds
<1>4. CASE Bot!Take
  BY <1>4, TakeHolds
<1>5. CASE \/ Bot!Answers \/ Bot!CronControl \/ Bot!ReadFails
           \/ Bot!NoneLeft \/ Bot!Deploy \/ Bot!AgentReplies
  BY <1>5, HandlerEnds
     DEF Bot!Answers, Bot!CronControl, Bot!ReadFails, Bot!NoneLeft, Bot!Deploy, Bot!AgentReplies
<1>6. CASE Bot!Reads \/ Bot!CloseNext \/ Bot!AgentTool
  <2>1. UNCHANGED <<sent, acked, offset, batch, handled>>
    BY <1>6 DEF Bot!Reads, Bot!CloseNext, Bot!AgentTool
  <2>2. DOMAIN doing = {"id", "at", "todo", "left"}
    BY NothingIs DEF BotInv, BotTyped
  <2>3. DOMAIN doing' = DOMAIN doing /\ doing'.id = doing.id
    <3>1. CASE Bot!Reads
      BY <2>2, <3>1 DEF Bot!Reads
    <3>2. CASE Bot!CloseNext
      BY <2>2, <3>2 DEF Bot!CloseNext
    <3>3. CASE Bot!AgentTool
      BY <2>2, <3>3 DEF Bot!AgentTool
    <3> QED BY <1>6, <3>1, <3>2, <3>3
  <2> QED BY <2>1, <2>3, HandlerGoesOn
<1>7. CASE Bot!Shutdown \/ Bot!Crash
  BY <1>7, MemoryLost DEF Bot!Shutdown, Bot!Crash
<1>8. ASSUME UNCHANGED <<sent, acked, offset, batch, doing, handled>> PROVE BotInv'
  BY <1>8, HandlerGoesOn
<1>9. ASSUME NEW s \in Slots, Bot!Fire(s) \/ Bot!JobEnds(s) PROVE BotInv'
  BY <1>8, <1>9 DEF Bot!Fire, Bot!JobEnds
<1>10. CASE Bot!Boot
  BY <1>8, <1>10 DEF Bot!Boot, Bot!memory
<1> QED BY <1>1, <1>2, <1>3, <1>4, <1>5, <1>6, <1>7, <1>9, <1>10 DEF Bot!Next

LEMMA BotRests ==
  ASSUME BotInv, UNCHANGED tgVars PROVE BotInv'
  BY HandlerGoesOn DEF tgVars

LEMMA BotHolds ==
  ASSUME BotInv, [Next]_vars PROVE BotInv'
<1>1. CASE Bot!Next
  BY <1>1, BotSteps
<1>2. CASE UNCHANGED tgVars
  BY <1>2, BotRests
<1> QED BY <1>1, <1>2 DEF Next, vars, OnlyLearning, OnlyReview, OnlyWallet, OnlyLoop

(* telegram-inbound.ts: an update that Telegram will not deliver again, since *)
(* an offset went past it, has had its handler run to its end.  The offset    *)
(* lives in memory and goes back to 0 with every crash; what it has told       *)
(* Telegram before was true, and what it had not told comes again.           *)
THEOREM NoCommandIsLost == Spec => []AckedIsHandled
<1>1. Init => BotInv
  BY BotStarts
<1>2. BotInv /\ [Next]_vars => BotInv'
  BY BotHolds
<1>3. BotInv => AckedIsHandled
  BY DEF BotInv, AckedIsHandled
<1> QED BY <1>1, <1>2, <1>3, PTL DEF Spec

(***************************************************************************)
(* The agent loop.                                                         *)
(***************************************************************************)

(* A write that is not retried is locked as soon as it was started.         *)
FiredOnce ==
  /\ fired \in [Tools -> Nat]
  /\ \A t \in NoRetry : fired[t] <= 1 /\ (t \notin locked => fired[t] = 0)

LEMMA FiredStarts ==
  ASSUME Init PROVE FiredOnce
<1>1. fired = [t \in Tools |-> 0]
  BY DEF Init, NoLoop, Loop!Init
<1> QED BY <1>1, ServicesAssumption DEF FiredOnce

LEMMA FiredSteps ==
  ASSUME FiredOnce, Loop!Next PROVE FiredOnce'
<1>1. CASE UNCHANGED <<fired, locked>>
  BY <1>1 DEF FiredOnce
<1>2. CASE Loop!Rejected
  <2>1. fired' = fired /\ locked \subseteq locked'
    BY <1>2 DEF Loop!Rejected, Loop!RecordAfter
  <2> QED BY <2>1 DEF FiredOnce
<1>3. CASE Loop!Executed
  <2> DEFINE name == Loop!Call.name
  <2>1. /\ name \notin locked /\ name \in Tools
        /\ fired' = [fired EXCEPT ![name] = @ + 1]
        /\ locked \subseteq locked' /\ (name \in NoRetry => name \in locked')
    BY <1>3 DEF Loop!Executed, Loop!CheckBefore, Loop!RecordAfter
  <2> HIDE DEF name
  <2>2. fired' \in [Tools -> Nat]
    BY <2>1 DEF FiredOnce
  <2>3. ASSUME NEW t \in NoRetry PROVE fired'[t] <= 1 /\ (t \notin locked' => fired'[t] = 0)
    <3>1. t \in Tools
      BY ServicesAssumption
    <3>2. CASE t = name
      BY <2>1, <3>1, <3>2 DEF FiredOnce
    <3>3. CASE t # name
      BY <2>1, <3>1, <3>3 DEF FiredOnce
    <3> QED BY <3>2, <3>3
  <2> QED BY <2>2, <2>3 DEF FiredOnce
<1> QED BY <1>1, <1>2, <1>3
        DEF Loop!Next, Loop!Start, Loop!NoChoices, Loop!Text, Loop!Calls, Loop!Locked,
            Loop!Unknown, Loop!GateThrows, Loop!StepEnds

LEMMA FiredHolds ==
  ASSUME FiredOnce, [Next]_vars PROVE FiredOnce'
<1>1. CASE Loop!Next
  BY <1>1, FiredSteps
<1>2. CASE UNCHANGED agentVars
  BY <1>2 DEF FiredOnce, agentVars
<1> QED BY <1>1, <1>2 DEF Next, vars, OnlyLearning, OnlyReview, OnlyBot, OnlyWallet

(* session-locks.ts: within one run a write that must not be retried is      *)
(* started at most once, also when it failed, when its result did not        *)
(* validate, or when one answer asks for it twice.                          *)
THEOREM WritesFireOnce == Spec => []FiresOnce
<1>1. Init => FiredOnce
  BY FiredStarts
<1>2. FiredOnce /\ [Next]_vars => FiredOnce'
  BY FiredHolds
<1>3. FiredOnce => FiresOnce
  BY DEF FiredOnce, FiresOnce, Loop!FiresOnce
<1> QED BY <1>1, <1>2, <1>3, PTL DEF Spec

---------------------------------------------------------------------------
(* The conversation.                                                       *)

IsSeq(s) == \E S : s \in Seq(S)

LoopTyped ==
  /\ IsSeq(messages) /\ IsSeq(todo)
  /\ \A i \in 1 .. Len(messages) : IsSeq(messages[i].calls)

(* The last answer: the replies so far, and the calls still to run.         *)
Owing(i) ==
  LET ids == messages[i].calls
  IN  /\ i + Len(ids) = Len(messages) + Len(todo)
      /\ \A n \in 1 .. Len(ids) :
           IF i + n <= Len(messages)
           THEN messages[i + n].role = "tool" /\ messages[i + n].id = ids[n]
           ELSE todo[i + n - Len(messages)].id = ids[n]

Asked(i)   == \E j \in 1 .. Len(messages) : Loop!AsksFor(i, j)
Settled(i) == Loop!Answered(i) \/ (at = "running" /\ Owing(i))
Talked ==
  at \in {"asking", "running"} => \A i \in 1 .. Len(messages) :
    /\ messages[i].role = "assistant" => Settled(i)
    /\ messages[i].role = "tool" => Asked(i)

(* The model is not asked after its own word, and runs calls it was given.  *)
Turn ==
  /\ at = "asking" => Len(messages) > 0 /\ messages[Len(messages)].role # "assistant"
  /\ at = "running" => \E o \in 1 .. Len(messages) : Len(messages[o].calls) > 0 /\ Owing(o)

LoopInv == LoopTyped /\ Talked /\ Turn

LEMMA SeqIs ==
  ASSUME NEW s, IsSeq(s) PROVE Len(s) \in Nat /\ DOMAIN s = 1 .. Len(s)
  BY DEF IsSeq

LEMMA AppendIs ==
  ASSUME NEW s, IsSeq(s), NEW e
  PROVE  /\ IsSeq(Append(s, e)) /\ Len(Append(s, e)) = Len(s) + 1
         /\ Append(s, e)[Len(s) + 1] = e /\ \A i \in 1 .. Len(s) : Append(s, e)[i] = s[i]
<1>1. PICK S : s \in Seq(S)
  BY DEF IsSeq
<1>2. s \in Seq(S \cup {e}) /\ Append(s, e) \in Seq(S \cup {e})
  BY <1>1
<1>3. IsSeq(Append(s, e))
  BY <1>2 DEF IsSeq
<1> QED BY <1>2, <1>3

LEMMA TailIs ==
  ASSUME NEW s, IsSeq(s), s # <<>>
  PROVE  /\ IsSeq(Tail(s)) /\ Len(Tail(s)) = Len(s) - 1 /\ Len(s) > 0 /\ Head(s) = s[1]
         /\ \A i \in 1 .. Len(Tail(s)) : Tail(s)[i] = s[i + 1]
<1>1. PICK S : s \in Seq(S)
  BY DEF IsSeq
<1>2. Tail(s) \in Seq(S)
  BY <1>1
<1>3. IsSeq(Tail(s))
  BY <1>2 DEF IsSeq
<1> QED BY <1>1, <1>3

LEMMA NumberedIs ==
  ASSUME NEW k \in Nat, NEW s, s = [n \in 1 .. k |-> s[n]]
  PROVE  IsSeq(s) /\ Len(s) = k
<1>1. s \in Seq({s[n] : n \in 1 .. k})
  OBVIOUS
<1>2. DOMAIN s = 1 .. k
  OBVIOUS
<1>3. DOMAIN s = 1 .. Len(s) /\ Len(s) \in Nat
  BY <1>1
<1>4. Len(s) = k
  BY <1>2, <1>3
<1> QED BY <1>1, <1>4 DEF IsSeq

LEMMA EmptyIs == IsSeq(<<>>) /\ Len(<<>>) = 0
<1>1. <<>> \in Seq(Nat)
  OBVIOUS
<1> QED BY <1>1 DEF IsSeq

LEMMA SaidIs ==
  ASSUME NEW role
  PROVE  Loop!Said(role).role = role /\ Loop!Said(role).calls = <<>>
  BY DEF Loop!Said

LEMMA LoopStarts ==
  ASSUME Init PROVE LoopInv
<1>1. messages = <<>> /\ todo = <<>> /\ at = "idle"
  BY DEF Init, NoLoop, Loop!Init
<1>2. LoopTyped
  BY <1>1, EmptyIs DEF LoopTyped
<1> QED BY <1>1, <1>2 DEF LoopInv, Talked, Turn

(* A conversation that goes on keeps the replies it has.                    *)
LEMMA Kept ==
  ASSUME LoopTyped, LoopTyped', Len(messages) <= Len(messages'),
         \A k \in 1 .. Len(messages) : messages'[k] = messages[k],
         NEW i \in 1 .. Len(messages)
  PROVE  /\ Asked(i) => Asked(i)'
         /\ Loop!Answered(i) => Loop!Answered(i)'
<1>1. Len(messages) \in Nat /\ Len(messages') \in Nat /\ IsSeq(messages[i].calls)
  BY SeqIs DEF LoopTyped
<1>2. Asked(i) => Asked(i)'
  BY <1>1 DEF Asked, Loop!AsksFor
<1> DEFINE ids == messages[i].calls
<1>3. Len(ids) \in Nat /\ DOMAIN ids = 1 .. Len(ids) /\ messages'[i].calls = ids
  BY <1>1, SeqIs
<1> HIDE DEF ids
<1>4. ASSUME Loop!Answered(i) PROVE Loop!Answered(i)'
  <2>1. i + Len(ids) <= Len(messages)
        /\ \A n \in 1 .. Len(ids) : messages[i + n].role = "tool" /\ messages[i + n].id = ids[n]
    BY <1>3, <1>4 DEF Loop!Answered, ids
  <2>2. \A n \in 1 .. Len(ids) : messages'[i + n] = messages[i + n]
    BY <1>1, <1>3, <2>1
  <2>3. i + Len(ids) <= Len(messages')
    BY <1>1, <1>3, <2>1
  <2> QED BY <1>3, <2>1, <2>2, <2>3 DEF Loop!Answered
<1> QED BY <1>2, <1>4

(* One message more.                                                       *)
LEMMA OneMore ==
  ASSUME LoopTyped, NEW m, IsSeq(m.calls), messages' = Append(messages, m), IsSeq(todo')
  PROVE  /\ LoopTyped' /\ Len(messages') = Len(messages) + 1 /\ Len(messages) \in Nat
         /\ messages'[Len(messages) + 1] = m
         /\ \A k \in 1 .. Len(messages) : messages'[k] = messages[k]
         /\ \A k \in 1 .. Len(messages) : (Asked(k) => Asked(k)') /\ (Loop!Answered(k) => Loop!Answered(k)')
<1>1. /\ IsSeq(messages') /\ Len(messages') = Len(messages) + 1 /\ Len(messages) \in Nat
      /\ messages'[Len(messages) + 1] = m
      /\ \A k \in 1 .. Len(messages) : messages'[k] = messages[k]
  BY AppendIs, SeqIs DEF LoopTyped
<1>2. LoopTyped'
  BY <1>1 DEF LoopTyped
<1> QED BY <1>1, <1>2, Kept

Joined(S, past, U) == <<S>> \o past \o <<U>>
JoinedAs(S, U, A, past, s) ==
  /\ IsSeq(s) /\ s[1] = S
  /\ past = <<>> => Len(s) = 2 /\ s[2] = U
  /\ past = <<U, A>> => Len(s) = 4 /\ s[2] = U /\ s[3] = A /\ s[4] = U
Before(U, A, past) == past = <<>> \/ past = <<U, A>>

LEMMA JoinedIs ==
  ASSUME NEW S, NEW U, NEW A, NEW past, Before(U, A, past)
  PROVE  JoinedAs(S, U, A, past, Joined(S, past, U))
<1>s. SUFFICES ASSUME NEW s, s = Joined(S, past, U) PROVE JoinedAs(S, U, A, past, s)
  OBVIOUS
<1>z. past = <<>> \/ past = <<U, A>>
  BY DEF Before
<1> DEFINE X == {S, U, A}
           h == <<S>> \o past
<1>0. /\ <<S>> \in Seq(X) /\ <<U>> \in Seq(X) /\ <<>> \in Seq(X) /\ <<U, A>> \in Seq(X)
      /\ Len(<<>>) = 0 /\ Len(<<U, A>>) = 2 /\ <<U, A>>[1] = U /\ <<U, A>>[2] = A
  OBVIOUS
<1>1. <<S>> \in Seq(X) /\ <<U>> \in Seq(X) /\ past \in Seq(X)
  BY <1>0, <1>z
<1>2. /\ h \in Seq(X) /\ Len(h) = 1 + Len(past) /\ h[1] = S
      /\ \A i \in 1 .. Len(past) : h[1 + i] = past[i]
  BY <1>1
<1> HIDE DEF h
<1>3. /\ s \in Seq(X) /\ Len(s) = Len(h) + 1 /\ s[Len(h) + 1] = U
      /\ \A i \in 1 .. Len(h) : s[i] = h[i]
  BY <1>s, <1>1, <1>2 DEF h, Joined
<1>4. IsSeq(s)
  BY <1>3 DEF IsSeq
<1>5. CASE Len(past) = 0
  <2>1. past = <<>> /\ past # <<U, A>>
    BY <1>0, <1>5
  <2>2. Len(h) = 1 /\ Len(s) = 2 /\ s[1] = S /\ s[2] = U
    BY <1>2, <1>3, <1>5
  <2> QED BY <1>4, <2>1, <2>2 DEF JoinedAs
<1>6. CASE Len(past) = 2 /\ past = <<U, A>>
  <2>1. past # <<>> /\ past[1] = U /\ past[2] = A
    BY <1>0, <1>6
  <2>2. Len(h) = 3 /\ Len(s) = 4 /\ s[4] = U /\ s[1] = h[1] /\ s[2] = h[2] /\ s[3] = h[3]
    BY <1>2, <1>3, <1>6
  <2>3. h[1 + 1] = past[1] /\ h[1 + 2] = past[2]
    BY <1>2, <1>6
  <2>4. s[1] = S /\ s[2] = U /\ s[3] = A
    BY <1>2, <2>1, <2>2, <2>3
  <2> QED BY <1>4, <2>1, <2>2, <2>4 DEF JoinedAs
<1> QED BY <1>0, <1>z, <1>5, <1>6

LEMMA StartHolds ==
  ASSUME LoopInv, NEW c \in Callers, Loop!Start(c) PROVE LoopInv'
<1>s. PICK S, U, A : S = Loop!Said("system") /\ U = Loop!Said("user") /\ A = Loop!Said("assistant")
  OBVIOUS
<1>1. PICK past \in {<<>>, <<U, A>>} : messages' = Joined(S, past, U)
  BY <1>s DEF Loop!Start, Joined
<1>a. at' = "asking" /\ todo' = todo
  BY DEF Loop!Start
<1>2. /\ S.role = "system" /\ U.role = "user" /\ A.role = "assistant"
      /\ S.calls = <<>> /\ U.calls = <<>> /\ A.calls = <<>>
  BY <1>s, SaidIs
<1>b. /\ IsSeq(messages') /\ messages'[1] = S
      /\ past = <<>> => Len(messages') = 2 /\ messages'[2] = U
      /\ past = <<U, A>> =>
           Len(messages') = 4 /\ messages'[2] = U /\ messages'[3] = A /\ messages'[4] = U
  <2>1. Before(U, A, past)
    BY <1>1 DEF Before
  <2>2. JoinedAs(S, U, A, past, messages')
    BY <1>1, <2>1, JoinedIs
  <2> QED BY <2>2 DEF JoinedAs
<1>3. CASE past = <<>>
  <2>1. Len(messages') = 2 /\ messages'[1] = S /\ messages'[2] = U
    BY <1>b, <1>3
  <2>2. LoopTyped'
    <3>1. \A i \in 1 .. 2 : messages'[i].calls = <<>>
      BY <1>2, <2>1
    <3> QED BY <1>a, <1>b, <2>1, <3>1, EmptyIs DEF LoopInv, LoopTyped
  <2>3. Turn'
    BY <1>a, <1>2, <2>1 DEF Turn
  <2>4. Talked'
    BY <1>2, <2>1 DEF Talked
  <2> QED BY <2>2, <2>3, <2>4 DEF LoopInv
<1>4. CASE past = <<U, A>>
  <2>1. /\ Len(messages') = 4 /\ messages'[1] = S /\ messages'[2] = U /\ messages'[3] = A
        /\ messages'[4] = U
    BY <1>b, <1>4
  <2>2. LoopTyped'
    <3>1. \A i \in 1 .. 4 : messages'[i].calls = <<>>
      BY <1>2, <2>1
    <3> QED BY <1>a, <1>b, <2>1, <3>1, EmptyIs DEF LoopInv, LoopTyped
  <2>3. Turn'
    BY <1>a, <1>2, <2>1 DEF Turn
  <2>4. Loop!Answered(3)'
    BY <1>2, <2>1 DEF Loop!Answered
  <2>5. Talked'
    <3>1. \A i \in 1 .. 4 : i = 1 \/ i = 2 \/ i = 3 \/ i = 4
      OBVIOUS
    <3> QED BY <1>2, <2>1, <2>4, <3>1 DEF Talked, Settled
  <2> QED BY <2>2, <2>3, <2>5 DEF LoopInv
<1> QED BY <1>3, <1>4

(* The calls of an answer are numbered; asking for them names them in order. *)
LEMMA MergeIs ==
  ASSUME NEW raw \in Replies
  PROVE  IsSeq(Loop!MergeToolCallFragments(raw))
<1> DEFINE named  == {i \in DOMAIN raw : (raw[i].fresh \/ i = 1) /\ raw[i].name # ""}
           Nth(n) == CHOOSE i \in named : Loop!Cardinality({j \in named : j <= i}) = n
           k      == Loop!Cardinality(named)
           Entry(n) == [id |-> <<step, Nth(n)>>, name |-> raw[Nth(n)].name]
<1>1. raw \in Seq([fresh : BOOLEAN, name : STRING])
  BY ServicesAssumption
<1>2. k \in Nat
  <2>1. DOMAIN raw = 1 .. Len(raw) /\ Len(raw) \in Nat
    BY <1>1
  <2>2. IsFiniteSet(1 .. Len(raw))
    BY <2>1, FS_Interval
  <2>3. named \in SUBSET (1 .. Len(raw))
    BY <2>1
  <2> HIDE DEF named
  <2>4. Cardinality(named) \in Nat
    BY <2>2, <2>3, FS_Subset, FS_CardinalityType
  <2> QED BY <2>4 DEF Loop!Cardinality, Cardinality
<1>3. Loop!MergeToolCallFragments(raw) = [n \in 1 .. k |-> Entry(n)]
  BY DEF Loop!MergeToolCallFragments
<1> HIDE DEF k, Entry
<1> QED BY <1>2, <1>3, NumberedIs

LEMMA AskedIs ==
  ASSUME NEW calls, IsSeq(calls)
  PROVE  /\ Loop!Asked(calls).role = "assistant" /\ IsSeq(Loop!Asked(calls).calls)
         /\ Len(Loop!Asked(calls).calls) = Len(calls)
         /\ \A n \in 1 .. Len(calls) : Loop!Asked(calls).calls[n] = calls[n].id
<1>1. Loop!Asked(calls).calls = [n \in 1 .. Len(calls) |-> calls[n].id] /\ Len(calls) \in Nat
  BY SeqIs DEF Loop!Asked
<1>2. Loop!Asked(calls).role = "assistant"
  BY DEF Loop!Asked
<1> QED BY <1>1, <1>2, NumberedIs

LEMMA CallsHold ==
  ASSUME LoopInv, NEW raw \in Replies, Loop!Calls(raw) PROVE LoopInv'
<1> DEFINE calls == Loop!MergeToolCallFragments(raw)
           m     == Loop!Asked(calls)
<1>1. /\ at = "asking" /\ at' = "running" /\ todo' = calls /\ calls # <<>>
      /\ messages' = Append(messages, m)
  BY DEF Loop!Calls, Loop!Heard
<1>2. IsSeq(calls)
  BY MergeIs
<1> HIDE DEF calls
<1>3. /\ m.role = "assistant" /\ IsSeq(m.calls) /\ Len(m.calls) = Len(calls)
      /\ \A n \in 1 .. Len(calls) : m.calls[n] = calls[n].id
  BY <1>2, AskedIs
<1>4. Len(calls) \in Nat /\ Len(calls) > 0
  BY <1>1, <1>2, TailIs, SeqIs
<1> HIDE DEF m
<1>l. PICK l \in Nat : l = Len(messages)
  BY SeqIs DEF LoopInv, LoopTyped
<1>5. /\ LoopTyped' /\ Len(messages') = l + 1 /\ messages'[l + 1] = m
      /\ \A k \in 1 .. l : messages'[k] = messages[k]
      /\ \A k \in 1 .. l : (Asked(k) => Asked(k)') /\ (Loop!Answered(k) => Loop!Answered(k)')
  BY <1>1, <1>2, <1>3, <1>l, OneMore DEF LoopInv
<1>6. Owing(l + 1)'
  <2>1. messages'[l + 1].calls = m.calls /\ l + 1 + Len(m.calls) = Len(messages') + Len(todo')
    BY <1>1, <1>3, <1>4, <1>5
  <2>2. \A n \in 1 .. Len(m.calls) :
          /\ ~(l + 1 + n <= Len(messages')) /\ l + 1 + n - Len(messages') = n
          /\ todo'[n].id = m.calls[n]
    BY <1>1, <1>3, <1>4, <1>5
  <2>3. \A n \in 1 .. Len(m.calls) : todo'[l + 1 + n - Len(messages')].id = m.calls[n]
    BY <2>2
  <2> QED BY <2>1, <2>2, <2>3 DEF Owing
<1>7. Turn'
  BY <1>1, <1>3, <1>4, <1>5, <1>6 DEF Turn
<1>8. Talked'
  <2> SUFFICES ASSUME NEW i \in 1 .. l + 1
               PROVE  /\ messages'[i].role = "assistant" => Settled(i)'
                      /\ messages'[i].role = "tool" => Asked(i)'
    BY <1>5 DEF Talked
  <2>1. CASE i = l + 1
    BY <1>1, <1>3, <1>5, <1>6, <2>1 DEF Settled
  <2>2. CASE i # l + 1
    <3>1. i \in 1 .. l
      BY <1>5, <2>2
    <3> QED BY <1>1, <1>5, <1>l, <3>1 DEF LoopInv, Talked, Settled
  <2> QED BY <2>1, <2>2
<1> QED BY <1>5, <1>7, <1>8 DEF LoopInv

(* A text ends the run, or is answered by a reminder.                       *)
LEMMA TextHolds ==
  ASSUME LoopInv, NEW raw \in Replies, Loop!Text(raw) PROVE LoopInv'
<1> DEFINE U == Loop!Said("user")
           A == Loop!Said("assistant")
<1>1. U.role = "user" /\ A.role = "assistant" /\ U.calls = <<>> /\ A.calls = <<>>
  BY SaidIs
<1>2. at = "asking" /\ todo' = todo
  BY DEF Loop!Text, Loop!Heard
<1>3. \/ messages' = messages \o <<A, U>> /\ at' \in {"done", "asking"}
      \/ messages' = Append(messages, A) /\ at' = "done"
  BY DEF Loop!Text
<1> HIDE DEF U, A
<1>4. CASE messages' = Append(messages, A) /\ at' = "done"
  <2>1. LoopTyped'
    BY <1>1, <1>2, <1>4, OneMore, EmptyIs DEF LoopInv, LoopTyped
  <2> QED BY <1>4, <2>1 DEF LoopInv, Talked, Turn
<1>5. CASE messages' = messages \o <<A, U>> /\ at' \in {"done", "asking"}
  <2>l. PICK l \in Nat : l = Len(messages)
    BY SeqIs DEF LoopInv, LoopTyped
  <2>1. PICK S : messages \in Seq(S)
    BY DEF LoopInv, LoopTyped, IsSeq
  <2>2. /\ messages' \in Seq(S \cup {A, U}) /\ Len(messages') = l + 2
        /\ messages'[l + 1] = A /\ messages'[l + 2] = U
        /\ \A k \in 1 .. l : messages'[k] = messages[k]
    BY <1>5, <2>1, <2>l
  <2>3. LoopTyped'
    <3>1. IsSeq(messages')
      BY <2>2 DEF IsSeq
    <3>2. \A i \in 1 .. l + 2 : i \in 1 .. l \/ i = l + 1 \/ i = l + 2
      BY <2>2
    <3> QED BY <1>1, <1>2, <2>2, <3>1, <3>2, <2>l, EmptyIs DEF LoopInv, LoopTyped
  <2>4. \A k \in 1 .. l : (Asked(k) => Asked(k)') /\ (Loop!Answered(k) => Loop!Answered(k)')
    BY <2>2, <2>3, <2>l, Kept DEF LoopInv
  <2>5. Turn'
    BY <1>1, <1>5, <2>2 DEF Turn
  <2>6. Talked'
    <3> SUFFICES ASSUME NEW i \in 1 .. l + 2
                 PROVE  /\ messages'[i].role = "assistant" => Loop!Answered(i)'
                        /\ messages'[i].role = "tool" => Asked(i)'
      BY <2>2 DEF Talked, Settled
    <3>1. CASE i = l + 1
      <4>1. Loop!Answered(l + 1)'
        BY <1>1, <2>2, EmptyIs DEF Loop!Answered
      <4> QED BY <1>1, <2>2, <3>1, <4>1
    <3>2. CASE i = l + 2
      BY <1>1, <2>2, <3>2
    <3>3. CASE i \in 1 .. l
      BY <1>2, <2>2, <2>4, <2>l, <3>3 DEF LoopInv, Talked, Settled
    <3> QED BY <2>2, <3>1, <3>2, <3>3
  <2> QED BY <2>3, <2>5, <2>6 DEF LoopInv
<1> QED BY <1>3, <1>4, <1>5

(* A call is answered, whatever became of it.                               *)
LEMMA RepliedHolds ==
  ASSUME LoopInv, Loop!Running, Loop!Replied PROVE LoopInv'
<1> DEFINE m == Loop!Reply(Head(todo))
<1>l. PICK l \in Nat : l = Len(messages)
  BY SeqIs DEF LoopInv, LoopTyped
<1>1. /\ at = "running" /\ at' = "running" /\ todo # <<>> /\ todo' = Tail(todo)
      /\ messages' = Append(messages, m)
  BY DEF Loop!Running, Loop!Replied, Loop!Call
<1>2. m.role = "tool" /\ m.calls = <<>> /\ m.id = Head(todo).id
  BY DEF Loop!Reply
<1> HIDE DEF m
<1>3. /\ IsSeq(todo') /\ Len(todo') = Len(todo) - 1 /\ Len(todo) > 0 /\ Len(todo) \in Nat
      /\ Head(todo) = todo[1] /\ \A i \in 1 .. Len(todo') : todo'[i] = todo[i + 1]
  BY <1>1, TailIs, SeqIs DEF LoopInv, LoopTyped
<1>4. /\ LoopTyped' /\ Len(messages') = l + 1 /\ messages'[l + 1] = m
      /\ \A k \in 1 .. l : messages'[k] = messages[k]
      /\ \A k \in 1 .. l : (Asked(k) => Asked(k)') /\ (Loop!Answered(k) => Loop!Answered(k)')
  BY <1>1, <1>2, <1>3, <1>l, OneMore, EmptyIs DEF LoopInv
<1>5. ASSUME NEW i \in 1 .. l, Owing(i)
      PROVE  Owing(i)' /\ (Len(messages[i].calls) > 0 => Loop!AsksFor(l + 1, i)')
  <2> DEFINE ids == messages[i].calls
  <2>1. Len(ids) \in Nat /\ messages'[i].calls = ids
    BY <1>4, <1>l, SeqIs DEF LoopInv, LoopTyped
  <2> HIDE DEF ids
  <2>2. /\ i + Len(ids) = l + Len(todo)
        /\ \A n \in 1 .. Len(ids) :
             IF i + n <= l THEN messages[i + n].role = "tool" /\ messages[i + n].id = ids[n]
             ELSE todo[i + n - l].id = ids[n]
    BY <1>5, <1>l DEF Owing, ids
  <2>3. i + Len(ids) = (l + 1) + Len(todo')
    BY <1>3, <1>4, <2>1, <2>2
  <2>4. ASSUME NEW n \in 1 .. Len(ids)
        PROVE  IF i + n <= l + 1
               THEN messages'[i + n].role = "tool" /\ messages'[i + n].id = ids[n]
               ELSE todo'[i + n - (l + 1)].id = ids[n]
    <3>1. CASE i + n <= l
      <4>1. i + n \in 1 .. l /\ i + n <= l + 1
        BY <1>4, <2>1, <3>1
      <4> QED BY <1>4, <2>2, <3>1, <4>1
    <3>2. CASE i + n = l + 1
      <4>1. i + n - l = 1 /\ ~(i + n <= l)
        BY <1>4, <2>1, <3>2
      <4>2. todo[i + n - l].id = ids[n]
        BY <2>2, <4>1
      <4>3. messages'[i + n] = m /\ todo[i + n - l] = Head(todo)
        BY <1>3, <1>4, <3>2, <4>1
      <4>4. i + n <= l + 1
        BY <1>4, <2>1, <3>2
      <4> QED BY <1>2, <4>2, <4>3, <4>4
    <3>3. CASE i + n > l + 1
      <4>1. i + n - (l + 1) \in 1 .. Len(todo') /\ (i + n - (l + 1)) + 1 = i + n - l
        BY <1>3, <1>4, <2>1, <2>2, <2>3, <3>3
      <4>2. ~(i + n <= l) /\ ~(i + n <= l + 1)
        BY <1>4, <2>1, <3>3
      <4> QED BY <1>3, <2>2, <4>1, <4>2
    <3> QED BY <1>4, <3>1, <3>2, <3>3
  <2>5. Owing(i)'
    BY <1>4, <2>1, <2>3, <2>4 DEF Owing
  <2>6. Loop!AsksFor(l + 1, i)'
    BY <1>3, <1>4, <2>1, <2>2 DEF Loop!AsksFor
  <2> QED BY <2>5, <2>6
<1>6. PICK o \in 1 .. l : Len(messages[o].calls) > 0 /\ Owing(o)
  BY <1>1, <1>l DEF LoopInv, Turn
<1>7. Turn'
  BY <1>1, <1>4, <1>5, <1>6 DEF Turn
<1>8. Asked(l + 1)'
  BY <1>4, <1>5, <1>6 DEF Asked
<1>9. Talked'
  <2> SUFFICES ASSUME NEW i \in 1 .. l + 1
               PROVE  /\ messages'[i].role = "assistant" => Settled(i)'
                      /\ messages'[i].role = "tool" => Asked(i)'
    BY <1>4 DEF Talked
  <2>1. CASE i = l + 1
    BY <1>2, <1>4, <1>8, <2>1
  <2>2. CASE i \in 1 .. l
    BY <1>1, <1>4, <1>5, <1>l, <2>2 DEF LoopInv, Talked, Settled
  <2> QED BY <1>4, <2>1, <2>2
<1> QED BY <1>4, <1>7, <1>9 DEF LoopInv

(* With no call left to run everything asked for is answered.               *)
LEMMA StepEndsHolds ==
  ASSUME LoopInv, Loop!StepEnds PROVE LoopInv'
<1>1. /\ at = "running" /\ todo = <<>> /\ at' \in {"done", "asking"}
      /\ UNCHANGED <<messages, todo>>
  BY DEF Loop!StepEnds
<1>2. LoopTyped' /\ Len(messages) \in Nat
  BY <1>1, SeqIs DEF LoopInv, LoopTyped
<1>3. ASSUME NEW i \in 1 .. Len(messages), Owing(i)
      PROVE  /\ Loop!Answered(i)
             /\ Len(messages[i].calls) > 0 => messages[Len(messages)].role = "tool"
  <2>1. Len(messages[i].calls) \in Nat /\ DOMAIN messages[i].calls = 1 .. Len(messages[i].calls)
    BY SeqIs DEF LoopInv, LoopTyped
  <2>2. i + Len(messages[i].calls) = Len(messages)
    BY <1>1, <1>2, <1>3, <2>1, EmptyIs DEF Owing
  <2>3. \A n \in 1 .. Len(messages[i].calls) :
          messages[i + n].role = "tool" /\ messages[i + n].id = messages[i].calls[n]
    BY <1>2, <1>3, <2>1, <2>2 DEF Owing
  <2>4. Loop!Answered(i)
    BY <1>2, <2>1, <2>2, <2>3 DEF Loop!Answered
  <2> DEFINE n == Len(messages[i].calls)
  <2>5. n > 0 => n \in 1 .. n /\ messages[i + n].role = "tool"
    BY <2>1, <2>3
  <2> QED BY <2>2, <2>4, <2>5
<1>4. PICK o \in 1 .. Len(messages) : Len(messages[o].calls) > 0 /\ Owing(o)
  BY <1>1 DEF LoopInv, Turn
<1>5. Turn'
  BY <1>1, <1>2, <1>3, <1>4 DEF Turn
<1>6. \A i \in 1 .. Len(messages) : Loop!Answered(i)' <=> Loop!Answered(i)
  BY <1>1 DEF Loop!Answered
<1>7. \A i \in 1 .. Len(messages) : Asked(i)' <=> Asked(i)
  BY <1>1 DEF Asked, Loop!AsksFor
<1>8. Talked'
  BY <1>1, <1>3, <1>6, <1>7 DEF LoopInv, Talked, Settled
<1> QED BY <1>2, <1>5, <1>8 DEF LoopInv

LEMMA LoopSame ==
  ASSUME LoopInv, UNCHANGED <<messages, todo>>, at' \in {at, "threw"} PROVE LoopInv'
<1>1. \A i \in 1 .. Len(messages) :
        /\ Loop!Answered(i)' <=> Loop!Answered(i)
        /\ Asked(i)' <=> Asked(i)
        /\ Owing(i)' <=> Owing(i)
  BY DEF Loop!Answered, Asked, Loop!AsksFor, Owing
<1>2. LoopTyped'
  BY DEF LoopInv, LoopTyped
<1>3. Talked' /\ Turn'
  BY <1>1 DEF LoopInv, Talked, Settled, Turn
<1> QED BY <1>2, <1>3 DEF LoopInv

LEMMA LoopSteps ==
  ASSUME LoopInv, Loop!Next PROVE LoopInv'
<1>1. ASSUME NEW c \in Callers, Loop!Start(c) PROVE LoopInv'
  BY <1>1, StartHolds
<1>2. ASSUME NEW raw \in Replies, Loop!Text(raw) \/ Loop!Calls(raw) PROVE LoopInv'
  BY <1>2, TextHolds, CallsHold
<1>3. CASE Loop!NoChoices \/ Loop!GateThrows
  BY <1>3, LoopSame DEF Loop!NoChoices, Loop!GateThrows
<1>4. CASE Loop!Locked \/ Loop!Unknown \/ Loop!Rejected \/ Loop!Executed
  BY <1>4, RepliedHolds DEF Loop!Locked, Loop!Unknown, Loop!Rejected, Loop!Executed
<1>5. CASE Loop!StepEnds
  BY <1>5, StepEndsHolds
<1> QED BY <1>1, <1>2, <1>3, <1>4, <1>5 DEF Loop!Next

LEMMA LoopHolds ==
  ASSUME LoopInv, [Next]_vars PROVE LoopInv'
<1>1. CASE Loop!Next
  BY <1>1, LoopSteps
<1>2. CASE UNCHANGED agentVars
  BY <1>2, LoopSame DEF agentVars
<1> QED BY <1>1, <1>2 DEF Next, vars, OnlyLearning, OnlyReview, OnlyBot, OnlyWallet

(* loop.ts: the conversation sent is one a provider accepts.  Every message  *)
(* with tool calls is followed by one reply to each of them, in order, no     *)
(* reply stands without its call, and the last word is not the model's; after  *)
(* blocked, unknown, rejected and failed calls and joined fragments alike.     *)
THEOREM RequestsAreValid == Spec => []RequestIsValid
<1>1. Init => LoopInv
  BY LoopStarts
<1>2. LoopInv /\ [Next]_vars => LoopInv'
  BY LoopHolds
<1>3. LoopInv => RequestIsValid
  <2> SUFFICES ASSUME LoopInv, at = "asking"
               PROVE  /\ \A i \in DOMAIN messages :
                          /\ messages[i].role = "assistant" => Loop!Answered(i)
                          /\ messages[i].role = "tool" =>
                               \E j \in DOMAIN messages : Loop!AsksFor(i, j)
                      /\ messages[Len(messages)].role # "assistant"
    BY DEF RequestIsValid, Loop!RequestIsValid
  <2>1. DOMAIN messages = 1 .. Len(messages)
    BY SeqIs DEF LoopInv, LoopTyped
  <2> QED BY <2>1 DEF LoopInv, Talked, Turn, Settled, Asked
<1> QED BY <1>1, <1>2, <1>3, PTL DEF Spec

---------------------------------------------------------------------------
(* The lesson of the reviewer.                                             *)

Given ==
  \/ phase # "ask" /\ history = {} /\ lesson = {}
  \/ /\ history \in Histories /\ self \in Trades
     /\ \A conds \in lesson : conds \in Proposals /\ Review!CheckMatch(conds, self, history)

LEMMA ReviewStarts ==
  ASSUME Init PROVE Given
<1>1. CASE "review" \in moving
  BY <1>1 DEF Init, Review!Init, Given
<1>2. CASE "review" \notin moving
  BY <1>2 DEF Init, NoReview, Given
<1> QED BY <1>1, <1>2

LEMMA ReviewSteps ==
  ASSUME Given, [Next]_vars PROVE Given'
<1>1. CASE UNCHANGED reviewVars
  BY <1>1 DEF reviewVars, Given, Review!CheckMatch
<1>2. CASE Review!Next
  <2>1. UNCHANGED <<self, history>>
    BY <1>2 DEF Review!Next, Review!Unusable, Review!NoRule, Review!Propose
  <2>2. \/ lesson' = lesson
        \/ \E conds \in Proposals : lesson' = {conds} /\ Review!CheckMatch(conds, self, history)
    BY <1>2 DEF Review!Next, Review!Unusable, Review!NoRule, Review!Propose
  <2>3. phase = "ask"
    BY <1>2 DEF Review!Next, Review!Unusable, Review!NoRule, Review!Propose
  <2> QED BY <2>1, <2>2, <2>3 DEF Given
<1> QED
  BY <1>1, <1>2 DEF Next, vars, OnlyLearning, OnlyBot, OnlyWallet, OnlyLoop

(* Where a condition that parses and names at most one strategy is shown,   *)
(* with the strategy it names, it holds of the trade, and conversely.        *)
LEMMA AtMostOne ==
  ASSUME NEW S, IsFiniteSet(S), Cardinality(S) <= 1, NEW i \in S, NEW j \in S
  PROVE  i = j
<1>1. {i} \in SUBSET S /\ Cardinality({i}) = 1
  BY FS_Singleton
<1>2. Cardinality({i}) <= Cardinality(S) /\ (Cardinality(S) = Cardinality({i}) => S = {i})
  BY <1>1, FS_Subset
<1>3. Cardinality(S) \in Nat
  BY FS_CardinalityType
<1>4. S = {i}
  BY <1>1, <1>2, <1>3
<1> QED BY <1>4

LEMMA ShownIsTested ==
  ASSUME NEW conds, DOMAIN conds = 1 .. Len(conds), Review!ParseMatch(conds), Review!Plain(conds),
         NEW t \in Trades
  PROVE  Review!Applies(conds, t) <=> Review!MatchesRecord(conds, t)
<1> DEFINE on == {i \in DOMAIN conds : Review!OnStrategy(conds[i])}
           c  == Review!CandidateAsRecord(t)
<1>1. Len(conds) \in 2 .. 4
  BY DEF Review!ParseMatch, Review!MIN_CONDITIONS, Review!MAX_CONDITIONS
<1>2. Cardinality(on) <= 1 /\ \A i \in on : conds[i].op = "="
  BY DEF Review!Plain, Review!Cardinality, Cardinality
<1>3. on \subseteq 1 .. Len(conds) /\ IsFiniteSet(on)
  <2>1. on \in SUBSET (1 .. Len(conds))
    OBVIOUS
  <2>2. IsFiniteSet(1 .. Len(conds))
    BY <1>1, FS_Interval
  <2> QED BY <2>1, <2>2, FS_Subset
<1>4. \A i, j \in on : i = j
  <2> HIDE DEF on
  <2> QED BY <1>2, <1>3, AtMostOne
<1>5. \A i \in DOMAIN conds \ on : c[conds[i].field] = t[conds[i].field]
  <2>1. c = [t EXCEPT !["strategy"] = {}] /\ DOMAIN t = Fields
    BY ServicesAssumption DEF Review!CandidateAsRecord
  <2>2. \A i \in DOMAIN conds \ on : conds[i].field \in Fields /\ conds[i].field # "strategy"
    BY DEF Review!ParseMatch, Review!NumberFields, Review!TextFields, Review!OnStrategy, Fields
  <2> HIDE DEF c
  <2>3. \A f \in Fields : f # "strategy" => c[f] = t[f]
    BY <2>1
  <2> QED BY <2>2, <2>3
<1>6. DOMAIN conds \ on # {}
  BY <1>1, <1>4
<1>7. Review!Shown(conds, c) <=>
        \A i \in DOMAIN conds \ on : Review!Test(t[conds[i].field], conds[i].op, conds[i].value)
  BY <1>5, <1>6 DEF Review!Shown
<1>8. Review!ShownStrategy(conds) = {conds[i].value : i \in on}
  BY <1>1, <1>2, <1>4 DEF Review!ShownStrategy
<1>9. \A i \in on : Review!Test(t[conds[i].field], conds[i].op, conds[i].value) <=> conds[i].value \in t.strategy
  BY <1>2 DEF Review!Test, Review!OnStrategy
<1> QED BY <1>7, <1>8, <1>9 DEF Review!Applies, Review!MatchesRecord

(* Of two sets of trades, one with as many of the other outcome as is        *)
(* accepted, none or one against three, and one that is the same but for the  *)
(* trade under review.                                                        *)
LEMMA AcceptedIsNarrow ==
  ASSUME Given, NEW conds \in lesson, Review!Plain(conds)
  PROVE  LET advised == {t \in history : Review!Applies(conds, t)}
             against == {t \in advised : t.win # self.win}
         IN  against = {} \/ (Review!Cardinality(against) = 1
                              /\ Review!Cardinality(advised \cup {self}) >= 4)
<1> DEFINE all     == history \cup {self}
           hit     == {t \in all : Review!MatchesRecord(conds, t)}
           won     == {t \in hit : t.win}
           lost    == {t \in hit : ~t.win}
           advised == {t \in history : Review!Applies(conds, t)}
           against == {t \in advised : t.win # self.win}
<1>1. /\ history \subseteq Trades /\ self \in Trades /\ conds \in Proposals
      /\ Review!CheckMatch(conds, self, history)
  BY ServicesAssumption DEF Given
<1>2. /\ Review!ParseMatch(conds) /\ self \in hit
      /\ Review!AcceptBacktest(self.win, Review!BacktestMatch(conds, all))
  BY <1>1 DEF Review!CheckMatch
<1>3. \A t \in Trades : Review!Applies(conds, t) <=> Review!MatchesRecord(conds, t)
  BY <1>1, <1>2, ShownIsTested, ServicesAssumption
<1>4. advised \cup {self} = hit
  BY <1>1, <1>2, <1>3
<1>5. /\ IsFiniteSet(hit) /\ IsFiniteSet(won) /\ IsFiniteSet(lost)
      /\ Cardinality(hit) = Cardinality(won) + Cardinality(lost)
      /\ Cardinality(won) \in Nat /\ Cardinality(lost) \in Nat
  <2>1. hit \in SUBSET Trades /\ won \in SUBSET Trades /\ lost \in SUBSET Trades
    BY <1>1
  <2>2. IsFiniteSet(hit) /\ IsFiniteSet(won) /\ IsFiniteSet(lost)
    BY <2>1, ServicesAssumption, FS_Subset
  <2>3. hit = won \cup lost /\ won \cap lost = {}
    OBVIOUS
  <2> HIDE DEF hit, won, lost
  <2>4. Cardinality(won \cap lost) = 0
    BY <2>3, FS_EmptySet
  <2>5. Cardinality(won) \in Nat /\ Cardinality(lost) \in Nat
    BY <2>2, FS_CardinalityType
  <2>6. Cardinality(won \cup lost) = Cardinality(won) + Cardinality(lost) - Cardinality(won \cap lost)
    BY <2>2, FS_Union
  <2> QED BY <2>2, <2>3, <2>4, <2>5, <2>6
<1>6. Review!BacktestMatch(conds, all) = [wins |-> Cardinality(won), losses |-> Cardinality(lost)]
  BY DEF Review!BacktestMatch, Review!Cardinality, Cardinality
<1>7. self.win \in BOOLEAN /\ \A t \in hit : t.win \in BOOLEAN
  BY <1>1, ServicesAssumption
<1> DEFINE other == IF self.win THEN lost ELSE won
           same  == IF self.win THEN won ELSE lost
<1>8. /\ Cardinality(other) = 0 \/ (Cardinality(other) = 1 /\ Cardinality(same) >= 3)
      /\ IsFiniteSet(other) /\ Cardinality(hit) = Cardinality(same) + Cardinality(other)
      /\ Cardinality(same) \in Nat
  <2> HIDE DEF hit, won, lost
  <2> QED BY <1>2, <1>5, <1>6, <1>7 DEF Review!AcceptBacktest
<1>9. against = other
  <2>1. other = {t \in hit : t.win # self.win}
    BY <1>7
  <2>2. self \notin other
    BY <2>1
  <2> QED BY <1>4, <2>1, <2>2
<1> HIDE DEF hit, won, lost, other, same, advised
<1>10. Cardinality(other) = 0 => against = {}
  BY <1>8, <1>9, FS_EmptySet
<1>11. Cardinality(other) = 1 => Cardinality(against) = 1 /\ Cardinality(hit) >= 4
  BY <1>5, <1>8, <1>9
<1>12. against = {} \/ (Cardinality(against) = 1 /\ Cardinality(advised \cup {self}) >= 4)
  BY <1>4, <1>8, <1>10, <1>11
<1> QED BY <1>12 DEF Review!Cardinality, Cardinality, advised

(* A lesson of the community that stands beside a candidate is there because *)
(* none of ours fits it, and was judged on the same trades.                  *)
LEMMA BesideIsJudged ==
  ASSUME Given, NEW t \in history, NEW l \in Review!Beside(t), Review!IsCommunityBackup(l)
  PROVE  /\ \A own \in lesson : ~Review!Shown(own, Review!CandidateAsRecord(t))
         /\ l \in Community
         /\ Review!JudgeCommunityLesson(l, history \cup {self}) # "contradicted"
<1> DEFINE cand    == Review!CandidateAsRecord(t)
           ours    == Review!SplitMatchedLessons(Community \cup Review!Ours)
           chosen  == Review!SelectCommunityLessons(Community, history \cup {self})
           Fit(ls) == {k \in ls : \E conds \in k.match : Review!Shown(conds, cand)}
<1>1. l \in IF Fit(ours) # {} THEN Fit(ours) ELSE Fit(chosen)
  BY DEF Review!Beside, Review!LessonLine
<1>2. \A k \in ours : ~Review!IsCommunityBackup(k)
  BY DEF Review!SplitMatchedLessons
<1>3. Fit(ours) = {} /\ l \in chosen
  BY <1>1, <1>2
<1>4. l \in Community /\ Review!JudgeCommunityLesson(l, history \cup {self}) # "contradicted"
  BY <1>3 DEF Review!SelectCommunityLessons
<1>5. ASSUME NEW own \in lesson PROVE ~Review!Shown(own, cand)
  <2> DEFINE mine == [pinned |-> TRUE, prefer |-> self.win, match |-> {own}, wins |-> 0, losses |-> 0]
  <2>1. mine \in Review!Ours /\ mine.match = {own} /\ mine.pinned = TRUE
    BY DEF Review!Ours
  <2> HIDE DEF mine
  <2>2. mine \in ours
    BY <2>1 DEF Review!SplitMatchedLessons, Review!IsCommunityBackup
  <2> QED BY <1>3, <2>1, <2>2
<1> QED BY <1>4, <1>5

(* Such a lesson does not speak against enough of our own trades.           *)
LEMMA JudgedDoesNotMislead ==
  ASSUME Given, NEW t \in history, NEW l \in Community,
         Review!JudgeCommunityLesson(l, history \cup {self}) # "contradicted",
         NEW conds \in l.match, Review!Plain(conds)
  PROVE  ~Review!Misled(l, conds)
<1> DEFINE all     == history \cup {self}
           hit     == {u \in all : Review!MatchesRecord(conds, u)}
           advised == {u \in all : Review!Applies(conds, u)}
           inside  == Review!Total(hit) * Review!Cardinality(all)
           overall == Review!Total(all) * Review!Cardinality(hit)
           poor    == IF l.prefer THEN ~(inside > overall) ELSE ~(inside < overall)
<1>1. all \subseteq Trades
  BY ServicesAssumption DEF Given
<1>2. DOMAIN conds = 1 .. Len(conds)
  BY ServicesAssumption
<1>3. Review!ParseMatch(conds) /\ ~(Review!Cardinality(hit) >= MinTrades /\ hit # all /\ poor)
  <2> DEFINE enough == Review!Cardinality(hit) >= MinTrades /\ hit # all
             Verdict(cs) ==
               LET h   == {u \in all : Review!MatchesRecord(cs, u)}
                   ins == Review!Total(h) * Review!Cardinality(all)
                   tot == Review!Total(all) * Review!Cardinality(h)
               IN  IF ~Review!ParseMatch(cs) THEN {"contradicted"}
                   ELSE IF Review!Cardinality(h) < MinTrades \/ h = all THEN {}
                   ELSE IF IF l.prefer THEN ins > tot ELSE ins < tot THEN {"supported"}
                   ELSE {"contradicted"}
  <2>1. "contradicted" \notin UNION {Verdict(cs) : cs \in l.match}
    BY DEF Review!JudgeCommunityLesson
  <2>2. "contradicted" \notin Verdict(conds)
    <3> HIDE DEF Verdict
    <3> QED BY <2>1
  <2>3. Review!ParseMatch(conds)
    BY <2>2
  <2>4. Cardinality(hit) \in Nat
    <3>1. hit \in SUBSET Trades
      BY <1>1
    <3> QED BY <3>1, ServicesAssumption, FS_Subset, FS_CardinalityType
  <2>5. enough => ~(Review!Cardinality(hit) < MinTrades)
    <3> HIDE DEF hit
    <3> QED BY <2>4, ServicesAssumption DEF Review!Cardinality, Cardinality
  <2> QED BY <2>2, <2>3, <2>5
<1>4. hit = advised
  BY <1>1, <1>2, <1>3, ShownIsTested
<1>5. Review!Misled(l, conds) <=> Review!Cardinality(hit) >= MinTrades /\ hit # all /\ poor
  BY <1>4 DEF Review!Misled
<1> QED BY <1>3, <1>5

(* matched-lesson.ts, lesson-match.ts, community-lessons.ts: whatever the     *)
(* model proposes and the history is, an accepted lesson is shown for trades   *)
(* of the other outcome at most once and then against three, and a lesson of    *)
(* the community only where ours are silent and our trades do not contradict it. *)
THEOREM AdviceStaysNarrow == Spec => []AdviceIsNarrow
<1>1. Init => Given
  BY ReviewStarts
<1>2. Given /\ [Next]_vars => Given'
  BY ReviewSteps
<1>3. ASSUME Given PROVE AdviceIsNarrow
  <2>1. \A conds \in {c \in lesson : Review!Plain(c)} :
          LET advised == {t \in history : Review!Applies(conds, t)}
              against == {t \in advised : t.win # self.win}
          IN  against = {} \/ (Review!Cardinality(against) = 1
                               /\ Review!Cardinality(advised \cup {self}) >= 4)
    BY <1>3, AcceptedIsNarrow
  <2>2. \A t \in history : \A l \in {b \in Review!Beside(t) : Review!IsCommunityBackup(b)} :
          /\ \A own \in lesson : ~Review!Shown(own, Review!CandidateAsRecord(t))
          /\ \A conds \in {c \in l.match : Review!Plain(c)} : ~Review!Misled(l, conds)
    BY <1>3, BesideIsJudged, JudgedDoesNotMislead
  <2> QED BY <2>1, <2>2 DEF AdviceIsNarrow, Review!AdviceIsNarrow
<1> QED BY <1>1, <1>2, <1>3, PTL DEF Spec

---------------------------------------------------------------------------
(* What is learned.                                                        *)

(* The ids there can be once n lessons were made.                          *)
Tags == {"close", "redo", "follow"}
Names == Records \cup Catalog \cup {""}
AllIds == (Tags \cup {"hand", "community"}) \X Names \X Nat
Ids(n) == {id \in AllIds : id[1] \in Tags => id[3] < n}
VerdictsOf(n) == [win : BOOLEAN, lesson : SUBSET Ids(n), scored : SUBSET Ids(n)]
RowsOf(n) ==
  [pos : Records, win : BOOLEAN, settled : BOOLEAN, mirror : BOOLEAN, cites : SUBSET Ids(n),
   review : {{}} \cup {{r} : r \in VerdictsOf(n)}, bounced : BOOLEAN]
LessonsOf == [auto : BOOLEAN, pinned : BOOLEAN, wins : Nat, losses : Nat]

Says(row, id, win)     == \E r \in row.review : r.win = win /\ id \in r.scored
ScoredIn(rs, id, win)  == {i \in 1 .. Len(rs) : Says(rs[i], id, win)}
Ours(id) == id[1] # "community"
Wins(rs, id)    == Cardinality(ScoredIn(rs, id, TRUE))
Losses(rs, id)  == Cardinality(ScoredIn(rs, id, FALSE))
Reviews(rs, id) == Cardinality(ScoredIn(rs, id, TRUE) \cup ScoredIn(rs, id, FALSE))
CountIs(l, id, rs) ==
  /\ l.wins <= Wins(rs, id) /\ l.losses <= Losses(rs, id)
  /\ Ours(id) => l.wins + l.losses = Reviews(rs, id)

(* Contents of the file: what is scored is a lesson of before, and every    *)
(* lesson has the record its reviews give it.                               *)
FileOk(f, n) ==
  /\ f = [rows |-> f.rows, lessons |-> f.lessons]
  /\ f.rows \in Seq(RowsOf(n))
  /\ DOMAIN f.lessons \subseteq Ids(n) /\ f.lessons \in [DOMAIN f.lessons -> LessonsOf]
  /\ \A id \in DOMAIN f.lessons : CountIs(f.lessons[id], id, f.rows)

JobOk(w, j, n) ==
  /\ DOMAIN j = {"at", "queue", "got", "tries", "copy"}
  /\ j.queue \in Seq(RowsOf(n))
  /\ w \in {"review", "backfill"} /\ j.at # "idle" => j.queue # <<>>
  /\ j.at = "save" => \E c : j.copy = <<c>> /\ FileOk(c, n)

JobsOk(n) == job = [w \in Learn!Jobs |-> job[w]] /\ \A w \in Learn!Jobs : JobOk(w, job[w], n)
LearnOk == made \in Nat /\ FileOk(Learn!File, made) /\ JobsOk(made)
LearnInv == IF "learning" \in moving THEN LearnOk ELSE lessons = <<>>

LEMMA IdsGrow ==
  ASSUME NEW n \in Nat PROVE Ids(n) \subseteq Ids(n + 1)
<1>1. \A id \in AllIds : id[3] \in Nat
  BY DEF AllIds
<1> QED BY <1>1 DEF Ids

LEMMA IdIsNew ==
  ASSUME NEW n \in Nat, NEW id \in AllIds, id[1] \in Tags, id[3] = n
  PROVE  id \in Ids(n + 1) /\ id \notin Ids(n)
  BY DEF Ids

LEMMA RowsGrow ==
  ASSUME NEW n \in Nat PROVE RowsOf(n) \subseteq RowsOf(n + 1)
<1>1. Ids(n) \subseteq Ids(n + 1)
  BY IdsGrow
<1>2. VerdictsOf(n) \subseteq VerdictsOf(n + 1)
  BY <1>1 DEF VerdictsOf
<1> QED BY <1>1, <1>2 DEF RowsOf

LEMMA FilesGrow ==
  ASSUME NEW n \in Nat, NEW f, FileOk(f, n) PROVE FileOk(f, n + 1)
<1>1. Ids(n) \subseteq Ids(n + 1) /\ RowsOf(n) \subseteq RowsOf(n + 1)
  BY IdsGrow, RowsGrow
<1>2. f.rows \in Seq(RowsOf(n + 1))
  BY <1>1 DEF FileOk
<1> QED BY <1>1, <1>2 DEF FileOk

LEMMA JobsGrow ==
  ASSUME NEW n \in Nat, NEW w, NEW j, JobOk(w, j, n) PROVE JobOk(w, j, n + 1)
<1>1. j.queue \in Seq(RowsOf(n + 1))
  BY RowsGrow DEF JobOk
<1>2. \A c : FileOk(c, n) => FileOk(c, n + 1)
  BY FilesGrow
<1> QED BY <1>1, <1>2 DEF JobOk

LEMMA ScoredIsFinite ==
  ASSUME NEW S, NEW rs \in Seq(S), NEW id
  PROVE  /\ IsFiniteSet(ScoredIn(rs, id, TRUE)) /\ IsFiniteSet(ScoredIn(rs, id, FALSE))
         /\ Wins(rs, id) \in Nat /\ Losses(rs, id) \in Nat /\ Reviews(rs, id) \in Nat
         /\ IsFiniteSet(ScoredIn(rs, id, TRUE) \cup ScoredIn(rs, id, FALSE))
<1>1. IsFiniteSet(1 .. Len(rs))
  BY FS_Interval
<1>2. /\ ScoredIn(rs, id, TRUE) \in SUBSET (1 .. Len(rs))
      /\ ScoredIn(rs, id, FALSE) \in SUBSET (1 .. Len(rs))
      /\ ScoredIn(rs, id, TRUE) \cup ScoredIn(rs, id, FALSE) \in SUBSET (1 .. Len(rs))
  BY DEF ScoredIn
<1> QED BY <1>1, <1>2, FS_Subset, FS_CardinalityType DEF Wins, Losses, Reviews

(* Nothing of before scored a lesson that is new.                           *)
LEMMA NewIsUnscored ==
  ASSUME NEW n \in Nat, NEW rs \in Seq(RowsOf(n)), NEW id, id \notin Ids(n)
  PROVE  ScoredIn(rs, id, TRUE) = {} /\ ScoredIn(rs, id, FALSE) = {}
<1>1. ASSUME NEW i \in 1 .. Len(rs), NEW r \in rs[i].review PROVE id \notin r.scored
  <2>1. rs[i] \in RowsOf(n)
    OBVIOUS
  <2>2. r \in VerdictsOf(n)
    BY <2>1 DEF RowsOf
  <2> QED BY <2>2 DEF VerdictsOf
<1> QED BY <1>1 DEF ScoredIn, Says

(* A lesson that starts at nothing has the record of one that is new, or of *)
(* one of the community.                                                    *)
LEMMA NothingIsCounted ==
  ASSUME NEW n \in Nat, NEW rs \in Seq(RowsOf(n)), NEW l, l.wins = 0, l.losses = 0,
         NEW id, ~Ours(id) \/ id \notin Ids(n)
  PROVE  CountIs(l, id, rs)
<1>1. Wins(rs, id) \in Nat /\ Losses(rs, id) \in Nat
  BY ScoredIsFinite
<1>2. id \notin Ids(n) => Reviews(rs, id) = 0
  BY NewIsUnscored, FS_EmptySet DEF Reviews
<1> QED BY <1>1, <1>2 DEF CountIs

LEMMA ScoredAlike ==
  ASSUME NEW S, NEW T, NEW old \in Seq(S), NEW rs \in Seq(T), Len(old) <= Len(rs), NEW id, NEW win,
         \A i \in 1 .. Len(old) : Says(rs[i], id, win) <=> Says(old[i], id, win),
         \A i \in Len(old) + 1 .. Len(rs) : rs[i].review = {}
  PROVE  ScoredIn(rs, id, win) = ScoredIn(old, id, win)
<1>1. \A i \in Len(old) + 1 .. Len(rs) : ~Says(rs[i], id, win)
  BY DEF Says
<1>2. \A i \in 1 .. Len(rs) : i \in 1 .. Len(old) \/ i \in Len(old) + 1 .. Len(rs)
  OBVIOUS
<1>3. \A i \in 1 .. Len(old) : i \in 1 .. Len(rs)
  OBVIOUS
<1> QED BY <1>1, <1>2, <1>3 DEF ScoredIn

(* Lessons that are kept, or new.                                          *)
Inherited(ls, was, n, m) ==
  /\ DOMAIN ls \subseteq Ids(m) /\ ls \in [DOMAIN ls -> LessonsOf]
  /\ \A id \in DOMAIN ls :
       \/ /\ id \in DOMAIN was
          /\ ls[id].wins = was[id].wins /\ ls[id].losses = was[id].losses
       \/ /\ ls[id].wins = 0 /\ ls[id].losses = 0 /\ (~Ours(id) \/ id \notin Ids(n))

(* A change that scores nothing.                                            *)
LEMMA QuietIsOk ==
  ASSUME NEW n \in Nat, NEW m \in {n, n + 1}, NEW f, FileOk(f, n),
         NEW rs \in Seq(RowsOf(m)), Len(f.rows) <= Len(rs),
         \A i \in 1 .. Len(f.rows) : \A id : \A win : Says(rs[i], id, win) <=> Says(f.rows[i], id, win),
         \A i \in Len(f.rows) + 1 .. Len(rs) : rs[i].review = {},
         NEW ls, Inherited(ls, f.lessons, n, m)
  PROVE  FileOk([rows |-> rs, lessons |-> ls], m)
<1>1. Len(rs) \in Nat /\ Len(f.rows) \in Nat /\ f.rows \in Seq(RowsOf(n))
  BY DEF FileOk
<1>2. \A id : \A win : ScoredIn(rs, id, win) = ScoredIn(f.rows, id, win)
  <2> TAKE id
  <2> TAKE win
  <2>1. rs \in Seq(RowsOf(m)) /\ f.rows \in Seq(RowsOf(n))
    BY <1>1
  <2>2. /\ \A i \in 1 .. Len(f.rows) : Says(rs[i], id, win) <=> Says(f.rows[i], id, win)
        /\ \A i \in Len(f.rows) + 1 .. Len(rs) : rs[i].review = {}
    OBVIOUS
  <2> DEFINE old == f.rows
  <2>3. ScoredIn(rs, id, win) = ScoredIn(old, id, win)
    <3>1. old \in Seq(RowsOf(n)) /\ Len(old) <= Len(rs)
      BY <2>1
    <3>2. /\ \A i \in 1 .. Len(old) : Says(rs[i], id, win) <=> Says(old[i], id, win)
          /\ \A i \in Len(old) + 1 .. Len(rs) : rs[i].review = {}
      BY <2>2
    <3> HIDE DEF old
    <3> QED BY <2>1, <3>1, <3>2, ScoredAlike
  <2> QED BY <2>3
<1>3. \A id, l : CountIs(l, id, f.rows) => CountIs(l, id, rs)
  BY <1>2 DEF CountIs, Wins, Losses, Reviews
<1>4. ASSUME NEW id \in DOMAIN ls PROVE CountIs(ls[id], id, rs)
  <2>1. CASE /\ id \in DOMAIN f.lessons
             /\ ls[id].wins = f.lessons[id].wins /\ ls[id].losses = f.lessons[id].losses
    <3>1. CountIs(f.lessons[id], id, rs)
      BY <1>3, <2>1 DEF FileOk
    <3> QED BY <2>1, <3>1 DEF CountIs
  <2>2. CASE /\ ls[id].wins = 0 /\ ls[id].losses = 0 /\ (~Ours(id) \/ id \notin Ids(n))
    BY <1>1, <1>3, <2>2, NothingIsCounted
  <2> QED BY <2>1, <2>2 DEF Inherited
<1> QED BY <1>4 DEF FileOk, Inherited

(* A change of one row that neither adds nor takes a score.                 *)
LEMMA QuietRow ==
  ASSUME NEW n \in Nat, NEW m \in {n, n + 1}, NEW f, FileOk(f, n),
         NEW i \in 1 .. Len(f.rows), NEW row \in RowsOf(m),
         \A id : \A win : Says(row, id, win) <=> Says(f.rows[i], id, win),
         NEW ls, Inherited(ls, f.lessons, n, m)
  PROVE  FileOk([rows |-> [f.rows EXCEPT ![i] = row], lessons |-> ls], m)
<1> DEFINE old == f.rows
           rs  == [old EXCEPT ![i] = row]
<1>1. old \in Seq(RowsOf(m)) /\ Len(old) \in Nat /\ i \in 1 .. Len(old)
  BY RowsGrow DEF FileOk
<1> HIDE DEF old
<1>2. rs \in Seq(RowsOf(m)) /\ Len(rs) = Len(old) /\ rs[i] = row
      /\ \A k \in 1 .. Len(old) : k # i => rs[k] = old[k]
  BY <1>1
<1> HIDE DEF rs
<1>3. \A k \in 1 .. Len(old) : \A id : \A win : Says(rs[k], id, win) <=> Says(old[k], id, win)
  <2> TAKE k \in 1 .. Len(old)
  <2>1. CASE k = i
    BY <1>2, <2>1 DEF old
  <2>2. CASE k # i
    BY <1>2, <2>2
  <2> QED BY <2>1, <2>2
<1>4. Len(old) <= Len(rs) /\ \A k \in Len(old) + 1 .. Len(rs) : rs[k].review = {}
  BY <1>1, <1>2
<1>5. FileOk([rows |-> rs, lessons |-> ls], m)
  BY <1>2, <1>3, <1>4, QuietIsOk DEF old
<1> QED BY <1>5 DEF rs, old

LEMMA CountGrows ==
  ASSUME NEW l, NEW id, NEW rs, NEW w \in Nat, NEW n \in Nat, NEW k \in Nat,
         NEW x \in Nat, NEW y \in Nat, x <= w, y <= n, Ours(id) => x + y = k,
         \/ Wins(rs, id) = w + 1 /\ l.wins = x + 1 /\ Losses(rs, id) = n /\ l.losses = y
         \/ Wins(rs, id) = w /\ l.wins = x /\ Losses(rs, id) = n + 1 /\ l.losses = y + 1,
         Reviews(rs, id) = k + 1
  PROVE  CountIs(l, id, rs)
  BY DEF CountIs

(* The review of a row that had none: the verdict is added to the record of *)
(* the lessons the close had cited, and of no other.                         *)
LEMMA ScoredRow ==
  ASSUME NEW n \in Nat, NEW m \in {n, n + 1}, NEW f, FileOk(f, n),
         NEW i \in 1 .. Len(f.rows), f.rows[i].review = {},
         NEW cites \in SUBSET Ids(n), NEW win \in BOOLEAN,
         NEW new \in SUBSET Ids(m), \A id \in new : id \notin Ids(n),
         NEW v \in VerdictsOf(m), v.win = win, v.scored = cites \cap DOMAIN f.lessons,
         NEW row \in RowsOf(m), row.review = {v}
  PROVE  FileOk([rows    |-> [f.rows EXCEPT ![i] = row],
                 lessons |-> Learn!Score(Learn!Taught(f.lessons, new), cites, win)], m)
<1> DEFINE old == f.rows
           rs  == [old EXCEPT ![i] = row]
           was == f.lessons
           all == Learn!Taught(was, new)
           ls  == Learn!Score(all, cites, win)
<1>1. old \in Seq(RowsOf(m)) /\ Len(old) \in Nat /\ i \in 1 .. Len(old) /\ old[i].review = {}
  BY RowsGrow DEF FileOk
<1>a. /\ was \in [DOMAIN was -> LessonsOf] /\ DOMAIN was \subseteq Ids(m) /\ DOMAIN was \subseteq Ids(n)
      /\ \A id \in DOMAIN was : CountIs(was[id], id, old)
      /\ v.scored = cites \cap DOMAIN was
  BY IdsGrow DEF FileOk
<1> HIDE DEF old, was
<1>2. rs \in Seq(RowsOf(m)) /\ Len(rs) = Len(old) /\ rs[i] = row
      /\ \A k \in 1 .. Len(old) : k # i => rs[k] = old[k]
  BY <1>1
<1> HIDE DEF rs
<1>3. ASSUME NEW id PROVE
      /\ i \notin ScoredIn(old, id, TRUE) /\ i \notin ScoredIn(old, id, FALSE)
      /\ id \notin v.scored => /\ ScoredIn(rs, id, TRUE) = ScoredIn(old, id, TRUE)
                               /\ ScoredIn(rs, id, FALSE) = ScoredIn(old, id, FALSE)
      /\ id \in v.scored => /\ ScoredIn(rs, id, win) = ScoredIn(old, id, win) \cup {i}
                            /\ ScoredIn(rs, id, ~win) = ScoredIn(old, id, ~win)
  <2>1. \A w : ~Says(old[i], id, w)
    BY <1>1 DEF Says
  <2>2. \A w : Says(row, id, w) <=> w = win /\ id \in v.scored
    BY DEF Says
  <2>3. \A w : \A k \in 1 .. Len(old) : k # i => (Says(rs[k], id, w) <=> Says(old[k], id, w))
    BY <1>2
  <2>4. \A w : Says(rs[i], id, w) <=> w = win /\ id \in v.scored
    BY <1>2, <2>2
  <2>5. \A w : i \notin ScoredIn(old, id, w)
    BY <2>1 DEF ScoredIn
  <2>6. \A w : ~(w = win /\ id \in v.scored) => ScoredIn(rs, id, w) = ScoredIn(old, id, w)
    BY <1>1, <1>2, <2>1, <2>3, <2>4 DEF ScoredIn
  <2>7. id \in v.scored => ScoredIn(rs, id, win) = ScoredIn(old, id, win) \cup {i}
    BY <1>1, <1>2, <2>3, <2>4 DEF ScoredIn
  <2> QED BY <2>5, <2>6, <2>7
<1>4. /\ DOMAIN all = new \cup DOMAIN was
      /\ \A id \in new : all[id] = Learn!New(TRUE)
      /\ \A id \in DOMAIN was : id \notin new => all[id] = was[id]
  BY DEF Learn!Taught
<1>5. Learn!New(TRUE) \in LessonsOf /\ Learn!New(TRUE).wins = 0 /\ Learn!New(TRUE).losses = 0
  BY DEF Learn!New, LessonsOf
<1> HIDE DEF all
<1>6. \A id \in DOMAIN all : all[id] \in LessonsOf
  BY <1>a, <1>4, <1>5
<1> DEFINE Won(l)  == [l EXCEPT !.wins = @ + 1]
           Lost(l) == [l EXCEPT !.losses = @ + 1]
<1>7. /\ DOMAIN ls = DOMAIN all /\ ls = [id \in DOMAIN ls |-> ls[id]]
      /\ \A id \in DOMAIN all :
           ls[id] = IF id \notin cites THEN all[id] ELSE IF win THEN Won(all[id]) ELSE Lost(all[id])
  BY DEF Learn!Score
<1> HIDE DEF ls
<1>8. \A l \in LessonsOf :
        /\ Won(l) \in LessonsOf /\ Won(l).wins = l.wins + 1 /\ Won(l).losses = l.losses
        /\ Lost(l) \in LessonsOf /\ Lost(l).wins = l.wins /\ Lost(l).losses = l.losses + 1
        /\ l.wins \in Nat /\ l.losses \in Nat
  BY DEF LessonsOf
<1> HIDE DEF Won, Lost
<1>9. ls \in [DOMAIN ls -> LessonsOf] /\ DOMAIN ls \subseteq Ids(m)
  <2>1. \A id \in DOMAIN ls : ls[id] \in LessonsOf
    BY <1>6, <1>7, <1>8
  <2>2. DOMAIN ls \subseteq Ids(m)
    BY <1>a, <1>4, <1>7
  <2>3. ls \in [DOMAIN ls -> LessonsOf]
    BY <1>7, <2>1
  <2> QED BY <2>2, <2>3
<1>10. ASSUME NEW id \in DOMAIN ls PROVE CountIs(ls[id], id, rs)
  <2>1. CASE id \in new
    <3>1. id \notin Ids(n) /\ id \notin cites /\ id \notin v.scored /\ ls[id] = Learn!New(TRUE)
      BY <1>4, <1>7, <2>1
    <3>2. CountIs(ls[id], id, old)
      BY <1>5, <3>1, NothingIsCounted DEF FileOk, old
    <3> QED BY <1>3, <3>1, <3>2 DEF CountIs, Wins, Losses, Reviews
  <2>2. CASE id \notin new /\ id \notin cites
    <3>1. id \in DOMAIN was /\ id \notin v.scored /\ ls[id] = was[id]
      BY <1>4, <1>7, <2>2
    <3>2. CountIs(was[id], id, old)
      BY <1>a, <3>1
    <3> QED BY <1>3, <3>1, <3>2 DEF CountIs, Wins, Losses, Reviews
  <2>3. CASE id \notin new /\ id \in cites
    <3>1. id \in DOMAIN was /\ id \in v.scored /\ all[id] = was[id] /\ was[id] \in LessonsOf
      BY <1>a, <1>4, <1>6, <1>7, <2>3
    <3> DEFINE W == ScoredIn(old, id, TRUE)
               L == ScoredIn(old, id, FALSE)
    <3>2. /\ IsFiniteSet(W) /\ IsFiniteSet(L) /\ IsFiniteSet(W \cup L) /\ i \notin W /\ i \notin L
          /\ Cardinality(W) \in Nat /\ Cardinality(L) \in Nat /\ Cardinality(W \cup L) \in Nat
      <4>1. /\ IsFiniteSet(W) /\ IsFiniteSet(L) /\ IsFiniteSet(W \cup L)
        BY <1>1, ScoredIsFinite
      <4> QED BY <1>3, <4>1, FS_CardinalityType
    <3>3. /\ was[id].wins <= Cardinality(W) /\ was[id].losses <= Cardinality(L)
          /\ Ours(id) => was[id].wins + was[id].losses = Cardinality(W \cup L)
          /\ was[id].wins \in Nat /\ was[id].losses \in Nat
      BY <1>a, <1>8, <3>1 DEF CountIs, Wins, Losses, Reviews
    <3>4. CASE win
      <4>1. ScoredIn(rs, id, TRUE) = W \cup {i} /\ ScoredIn(rs, id, FALSE) = L
        BY <1>3, <3>1, <3>4
      <4>2. ls[id].wins = was[id].wins + 1 /\ ls[id].losses = was[id].losses
        <5>1. ls[id] = Won(was[id])
          BY <1>7, <2>3, <3>1, <3>4
        <5> QED BY <1>8, <3>1, <5>1
      <4> HIDE DEF W, L
      <4>3. Cardinality(W \cup {i}) = Cardinality(W) + 1
        BY <3>2, FS_AddElement
      <4>4. Cardinality((W \cup {i}) \cup L) = Cardinality(W \cup L) + 1
        <5>1. PICK B, X : B = W \cup L /\ X = (W \cup {i}) \cup L
          OBVIOUS
        <5>2. X = B \cup {i} /\ i \notin B /\ IsFiniteSet(B)
          BY <3>2, <5>1
        <5>3. Cardinality(X) = Cardinality(B) + 1
          BY <5>2, FS_AddElement
        <5> QED BY <5>1, <5>3, Zenon
      <4>5. /\ Wins(rs, id) = Cardinality(W) + 1 /\ Losses(rs, id) = Cardinality(L)
            /\ Reviews(rs, id) = Cardinality(W \cup L) + 1
        BY <4>1, <4>3, <4>4, Zenon DEF Wins, Losses, Reviews
      <4> QED BY <3>2, <3>3, <4>2, <4>5, CountGrows
    <3>5. CASE ~win
      <4>1. ScoredIn(rs, id, FALSE) = L \cup {i} /\ ScoredIn(rs, id, TRUE) = W
        BY <1>3, <3>1, <3>5
      <4>2. ls[id].losses = was[id].losses + 1 /\ ls[id].wins = was[id].wins
        <5>1. ls[id] = Lost(was[id])
          BY <1>7, <2>3, <3>1, <3>5
        <5> QED BY <1>8, <3>1, <5>1
      <4> HIDE DEF W, L
      <4>3. Cardinality(L \cup {i}) = Cardinality(L) + 1
        BY <3>2, FS_AddElement
      <4>4. Cardinality(W \cup (L \cup {i})) = Cardinality(W \cup L) + 1
        <5>1. PICK B, X : B = W \cup L /\ X = W \cup (L \cup {i})
          OBVIOUS
        <5>2. X = B \cup {i} /\ i \notin B /\ IsFiniteSet(B)
          BY <3>2, <5>1
        <5>3. Cardinality(X) = Cardinality(B) + 1
          BY <5>2, FS_AddElement
        <5> QED BY <5>1, <5>3, Zenon
      <4>5. /\ Wins(rs, id) = Cardinality(W) /\ Losses(rs, id) = Cardinality(L) + 1
            /\ Reviews(rs, id) = Cardinality(W \cup L) + 1
        BY <4>1, <4>3, <4>4, Zenon DEF Wins, Losses, Reviews
      <4> QED BY <3>2, <3>3, <4>2, <4>5, CountGrows
    <3> QED BY <3>4, <3>5
  <2> QED BY <2>1, <2>2, <2>3
<1>11. FileOk([rows |-> rs, lessons |-> ls], m)
  BY <1>2, <1>9, <1>10 DEF FileOk
<1> QED BY <1>11 DEF rs, ls, all, old, was

---------------------------------------------------------------------------
(* What the jobs make of a file.                                           *)

After(got) == IF got = "lesson" THEN made + 1 ELSE made

NewFor(got, new) ==
  /\ new \in SUBSET Ids(After(got)) /\ \A id \in new : id \notin Ids(made)
  /\ After(got) \in {made, made + 1}

LEMMA NewIds ==
  ASSUME made \in Nat, NEW tag \in Tags, NEW p \in Records \cup {""}, NEW got
  PROVE  NewFor(got, IF got = "lesson" THEN {<<tag, p, made>>} ELSE {})
<1>1. PICK id : id = <<tag, p, made>>
  OBVIOUS
<1>2. id \in AllIds /\ id[1] \in Tags /\ id[3] = made
  BY <1>1 DEF AllIds, Names, Tags
<1>3. id \in Ids(made + 1) /\ id \notin Ids(made)
  BY <1>2, IdIsNew
<1> QED BY <1>1, <1>3 DEF After, NewFor

LEMMA KeptIsInherited ==
  ASSUME made \in Nat, NEW f, FileOk(f, made), NEW m \in {made, made + 1}, NEW gone
  PROVE  /\ Inherited(f.lessons, f.lessons, made, m)
         /\ Inherited(Learn!Without(f.lessons, gone), f.lessons, made, m)
<1> DEFINE was  == f.lessons
           rest == Learn!Without(was, gone)
<1>1. /\ was \in [DOMAIN was -> LessonsOf] /\ DOMAIN was \subseteq Ids(m)
      /\ \A id \in DOMAIN was : was[id] \in LessonsOf
  BY IdsGrow DEF FileOk
<1>2. Inherited(was, was, made, m)
  BY <1>1 DEF Inherited
<1> HIDE DEF was
<1>3. /\ DOMAIN rest = DOMAIN was \ gone /\ rest = [id \in DOMAIN rest |-> rest[id]]
      /\ \A id \in DOMAIN rest : rest[id] = was[id]
  BY DEF Learn!Without
<1> HIDE DEF rest
<1>4. \A id \in DOMAIN rest : rest[id] \in LessonsOf
  BY <1>1, <1>3
<1>5. rest \in [DOMAIN rest -> LessonsOf]
  BY <1>3, <1>4
<1>6. Inherited(rest, was, made, m)
  BY <1>1, <1>3, <1>5 DEF Inherited
<1> QED BY <1>2, <1>6 DEF rest, was

LEMMA TaughtIsInherited ==
  ASSUME NEW n, NEW m, NEW was, NEW rest, Inherited(rest, was, n, m),
         NEW new \in SUBSET Ids(m), \A id \in new : id \notin Ids(n)
  PROVE  Inherited(Learn!Taught(rest, new), was, n, m)
<1> DEFINE ls == Learn!Taught(rest, new)
<1>1. /\ DOMAIN ls = new \cup DOMAIN rest /\ ls = [id \in DOMAIN ls |-> ls[id]]
      /\ \A id \in DOMAIN ls : ls[id] = IF id \in new THEN Learn!New(TRUE) ELSE rest[id]
  BY DEF Learn!Taught
<1>2. Learn!New(TRUE) \in LessonsOf /\ Learn!New(TRUE).wins = 0 /\ Learn!New(TRUE).losses = 0
  BY DEF Learn!New, LessonsOf
<1> HIDE DEF ls
<1>3. \A id \in DOMAIN ls : ls[id] \in LessonsOf
  BY <1>1, <1>2 DEF Inherited
<1>4. ls \in [DOMAIN ls -> LessonsOf] /\ DOMAIN ls \subseteq Ids(m)
  BY <1>1, <1>3 DEF Inherited
<1>5. Inherited(ls, was, n, m)
  BY <1>1, <1>2, <1>4 DEF Inherited
<1> QED BY <1>5 DEF ls

LEMMA ReviewOk ==
  ASSUME made \in Nat, NEW f, FileOk(f, made), NEW perf \in RowsOf(made), NEW got,
         NEW g \in Learn!CommitReview(f, perf, got)
  PROVE  FileOk(g, After(got))
<1> DEFINE new == IF got = "lesson" THEN {<<"close", perf.pos, made>>} ELSE {}
           v   == [win |-> perf.win, lesson |-> new, scored |-> perf.cites \cap DOMAIN f.lessons]
           m   == After(got)
<1>1. /\ new \in SUBSET Ids(m) /\ m \in {made, made + 1} /\ \A id \in new : id \notin Ids(made)
      /\ perf.cites \in SUBSET Ids(made) /\ perf.win \in BOOLEAN
  <2>1. perf.pos \in Records /\ perf.cites \in SUBSET Ids(made) /\ perf.win \in BOOLEAN
    BY DEF RowsOf
  <2>2. "close" \in Tags /\ "redo" \in Tags
    BY DEF Tags
  <2>3. NewFor(got, new)
    BY <2>1, <2>2, NewIds
  <2> HIDE DEF new
  <2> QED BY <2>1, <2>3 DEF NewFor
<1>2. PICK i \in DOMAIN f.rows :
        /\ f.rows[i].review = {}
        /\ g = [rows |-> [f.rows EXCEPT ![i].review = {v}],
                lessons |-> Learn!Score(Learn!Taught(f.lessons, new), perf.cites, perf.win)]
  BY DEF Learn!CommitReview, Learn!Latest
<1> HIDE DEF new, m
<1>3. v \in VerdictsOf(m) /\ v.win = perf.win /\ v.scored = perf.cites \cap DOMAIN f.lessons
  <2>1. DOMAIN f.lessons \subseteq Ids(m)
    BY <1>1, IdsGrow DEF FileOk
  <2> QED BY <1>1, <2>1 DEF VerdictsOf
<1> HIDE DEF v
<1> DEFINE row == [f.rows[i] EXCEPT !.review = {v}]
<1>4. i \in 1 .. Len(f.rows) /\ row \in RowsOf(m) /\ row.review = {v}
  <2>1. f.rows \in Seq(RowsOf(m))
    BY <1>1, RowsGrow DEF FileOk
  <2>2. i \in 1 .. Len(f.rows) /\ f.rows[i] \in RowsOf(m)
    BY <1>2, <2>1
  <2> QED BY <1>3, <2>2 DEF RowsOf
<1>5. g = [rows |-> [f.rows EXCEPT ![i] = row],
           lessons |-> Learn!Score(Learn!Taught(f.lessons, new), perf.cites, perf.win)]
  BY <1>2
<1> HIDE DEF row
<1>6. PICK cites, win : cites = perf.cites /\ win = perf.win
  OBVIOUS
<1>7. FileOk([rows |-> [f.rows EXCEPT ![i] = row],
              lessons |-> Learn!Score(Learn!Taught(f.lessons, new), cites, win)], m)
  <2>1. /\ v.win = win /\ v.scored = cites \cap DOMAIN f.lessons
        /\ win \in BOOLEAN /\ cites \in SUBSET Ids(made)
    BY <1>1, <1>3, <1>6
  <2> QED BY <1>1, <1>2, <1>3, <1>4, <2>1, ScoredRow
<1>8. FileOk(g, m)
  BY <1>5, <1>6, <1>7, Zenon
<1> QED BY <1>8 DEF m

LEMMA BackfillOk ==
  ASSUME made \in Nat, NEW f, FileOk(f, made), NEW perf \in RowsOf(made), NEW got,
         NEW g \in Learn!CommitBackfill(f, perf, got)
  PROVE  FileOk(g, After(got))
<1> DEFINE new == IF got = "lesson" THEN {<<"redo", perf.pos, made>>} ELSE {}
           m   == After(got)
<1>1. new \in SUBSET Ids(m) /\ m \in {made, made + 1} /\ \A id \in new : id \notin Ids(made)
  <2>1. perf.pos \in Records
    BY DEF RowsOf
  <2>2. "close" \in Tags /\ "redo" \in Tags
    BY DEF Tags
  <2>3. NewFor(got, new)
    BY <2>1, <2>2, NewIds
  <2> HIDE DEF new
  <2> QED BY <2>1, <2>3 DEF NewFor
<1>2. PICK i \in DOMAIN f.rows : \E r \in f.rows[i].review :
        LET gone == {l \in r.lesson \cap DOMAIN f.lessons : f.lessons[l].auto /\ ~f.lessons[l].pinned}
        IN  g = [rows |-> [f.rows EXCEPT ![i].review =
                             {[r EXCEPT !.lesson =
                                 IF new # {} THEN new ELSE IF gone = {} THEN r.lesson ELSE {}]}],
                 lessons |-> Learn!Taught(Learn!Without(f.lessons, gone), new)]
  BY DEF Learn!CommitBackfill, Learn!Latest
<1> HIDE DEF new, m
<1>3. PICK r, gone, named :
        /\ r \in f.rows[i].review
        /\ g = [rows |-> [f.rows EXCEPT ![i].review = {[r EXCEPT !.lesson = named]}],
                lessons |-> Learn!Taught(Learn!Without(f.lessons, gone), new)]
        /\ named \in {new, r.lesson, {}}
  BY <1>2
<1> DEFINE v   == [r EXCEPT !.lesson = named]
           row == [f.rows[i] EXCEPT !.review = {v}]
           ls  == Learn!Taught(Learn!Without(f.lessons, gone), new)
<1>4. i \in 1 .. Len(f.rows) /\ f.rows \in Seq(RowsOf(m)) /\ f.rows[i] \in RowsOf(m)
  <2>1. f.rows \in Seq(RowsOf(m))
    BY <1>1, RowsGrow DEF FileOk
  <2> QED BY <1>2, <2>1
<1>5. f.rows[i].review = {r} /\ r \in VerdictsOf(m)
  BY <1>3, <1>4 DEF RowsOf
<1>6. v \in VerdictsOf(m) /\ v.win = r.win /\ v.scored = r.scored
  BY <1>1, <1>3, <1>5 DEF VerdictsOf
<1> HIDE DEF v
<1>7. row \in RowsOf(m) /\ row.review = {v}
  BY <1>4, <1>6 DEF RowsOf
<1>8. g = [rows |-> [f.rows EXCEPT ![i] = row], lessons |-> ls]
  BY <1>3 DEF v
<1> HIDE DEF row
<1>9. \A id : \A win : Says(row, id, win) <=> Says(f.rows[i], id, win)
  BY <1>5, <1>6, <1>7 DEF Says
<1>10. Inherited(ls, f.lessons, made, m)
  <2>1. Inherited(Learn!Without(f.lessons, gone), f.lessons, made, m)
    BY <1>1, KeptIsInherited
  <2> QED BY <1>1, <2>1, TaughtIsInherited
<1> HIDE DEF ls
<1>11. FileOk([rows |-> [f.rows EXCEPT ![i] = row], lessons |-> ls], m)
  BY <1>1, <1>4, <1>7, <1>9, <1>10, QuietRow
<1>12. FileOk(g, m)
  BY <1>8, <1>11
<1> QED BY <1>12 DEF m

(* The lessons change and the rows do not.                                  *)
LEMMA LessonsOnly ==
  ASSUME made \in Nat, NEW f, FileOk(f, made), NEW m \in {made, made + 1},
         NEW ls, Inherited(ls, f.lessons, made, m)
  PROVE  FileOk([f EXCEPT !.lessons = ls], m)
<1> DEFINE old == f.rows
<1>1. old \in Seq(RowsOf(m)) /\ Len(old) \in Nat
  BY RowsGrow DEF FileOk
<1>2. FileOk([rows |-> old, lessons |-> ls], m)
  <2>1. \A i \in Len(old) + 1 .. Len(old) : old[i].review = {}
    BY <1>1
  <2>2. Len(old) <= Len(old)
    BY <1>1
  <2> HIDE DEF old
  <2> QED BY <1>1, <2>1, <2>2, QuietIsOk DEF old
<1>3. [f EXCEPT !.lessons = ls] = [rows |-> old, lessons |-> ls]
  BY DEF FileOk
<1> QED BY <1>2, <1>3

LEMMA MirrorOk ==
  ASSUME made \in Nat, NEW f, FileOk(f, made), NEW got, NEW g \in Learn!LearnFromMirror(f, got)
  PROVE  FileOk(g, After(got))
<1> DEFINE new == IF got = "lesson" THEN {<<"follow", "", made>>} ELSE {}
           m   == After(got)
<1>1. NewFor(got, new)
  <2>1. "follow" \in Tags /\ "" \in Records \cup {""}
    BY DEF Tags
  <2> QED BY <2>1, NewIds
<1>2. g = [f EXCEPT !.lessons = Learn!Taught(f.lessons, new)]
  BY DEF Learn!LearnFromMirror
<1> HIDE DEF new
<1>3. Inherited(Learn!Taught(f.lessons, new), f.lessons, made, m)
  <2>1. Inherited(f.lessons, f.lessons, made, m)
    BY <1>1, KeptIsInherited DEF NewFor
  <2> QED BY <1>1, <2>1, TaughtIsInherited DEF NewFor
<1> QED BY <1>1, <1>2, <1>3, LessonsOnly DEF NewFor

LEMMA EditOk ==
  ASSUME made \in Nat, NEW f, FileOk(f, made), NEW g \in Learn!EditLessons(f)
  PROVE  FileOk(g, made)
<1>1. CASE \E ids : g = [f EXCEPT !.lessons = Learn!Without(@, ids)]
  <2>1. PICK ids : g = [f EXCEPT !.lessons = Learn!Without(f.lessons, ids)]
    BY <1>1
  <2>2. Inherited(Learn!Without(f.lessons, ids), f.lessons, made, made)
    BY KeptIsInherited
  <2> QED BY <2>1, <2>2, LessonsOnly
<1>2. CASE \E id \in DOMAIN f.lessons, x \in BOOLEAN : g = [f EXCEPT !.lessons[id].pinned = x]
  <2>1. PICK id \in DOMAIN f.lessons, x \in BOOLEAN : g = [f EXCEPT !.lessons[id].pinned = x]
    BY <1>2
  <2> DEFINE was == f.lessons
             l   == [was[id] EXCEPT !.pinned = x]
             ls  == [was EXCEPT ![id] = l]
  <2>2. Inherited(was, was, made, made) /\ id \in DOMAIN was
    BY <2>1, KeptIsInherited
  <2>3. g = [f EXCEPT !.lessons = ls]
    BY <2>1
  <2> HIDE DEF was
  <2>4. l \in LessonsOf /\ l.wins = was[id].wins /\ l.losses = was[id].losses
    <3>1. was[id] \in LessonsOf
      BY <2>2 DEF Inherited
    <3> QED BY <3>1 DEF LessonsOf
  <2> HIDE DEF l
  <2>5. /\ DOMAIN ls = DOMAIN was /\ ls \in [DOMAIN ls -> LessonsOf] /\ ls[id] = l
        /\ \A k \in DOMAIN was : k # id => ls[k] = was[k]
    BY <2>2, <2>4 DEF Inherited
  <2> HIDE DEF ls
  <2>6. Inherited(ls, was, made, made)
    BY <2>2, <2>4, <2>5 DEF Inherited
  <2> QED BY <2>3, <2>6, LessonsOnly DEF was
<1> QED BY <1>1, <1>2 DEF Learn!EditLessons

LEMMA ImportOk ==
  ASSUME made \in Nat, NEW f, FileOk(f, made), NEW g \in Learn!ImportCommunityLessons(f)
  PROVE  FileOk(g, made)
<1>1. PICK listed \in SUBSET Catalog :
        g = [f EXCEPT !.lessons = Learn!MergeCommunityLessons(f.lessons, Learn!Incoming(listed))]
  BY DEF Learn!ImportCommunityLessons
<1> DEFINE was == f.lessons
           in  == Learn!Incoming(listed)
           ls  == Learn!MergeCommunityLessons(was, in)
<1>2. /\ \A id \in DOMAIN in : id \in Ids(made) /\ ~Ours(id)
      /\ \A id \in DOMAIN in : in[id] = Learn!New(FALSE)
  <2>1. DOMAIN in = {<<"community", c, 0>> : c \in listed} /\ \A id \in DOMAIN in : in[id] = Learn!New(FALSE)
    BY DEF Learn!Incoming
  <2>2. ASSUME NEW c \in listed PROVE <<"community", c, 0>> \in Ids(made) /\ ~Ours(<<"community", c, 0>>)
    <3>1. PICK id : id = <<"community", c, 0>>
      OBVIOUS
    <3>2. id \in AllIds /\ id[1] = "community" /\ id[1] \notin Tags
      BY <1>1, <3>1 DEF AllIds, Names, Tags
    <3> QED BY <3>1, <3>2 DEF Ids, Ours
  <2> QED BY <2>1, <2>2
<1> HIDE DEF in
<1>3. Inherited(was, was, made, made)
  BY KeptIsInherited
<1> HIDE DEF was
<1>4. PICK kept \in SUBSET DOMAIN was :
        ls = [id \in kept \cup DOMAIN in |-> IF id \in kept THEN was[id] ELSE in[id]]
  BY DEF Learn!MergeCommunityLessons
<1> HIDE DEF ls
<1>5. Learn!New(FALSE) \in LessonsOf /\ Learn!New(FALSE).wins = 0 /\ Learn!New(FALSE).losses = 0
  BY DEF Learn!New, LessonsOf
<1>6. \A id \in DOMAIN ls : ls[id] \in LessonsOf /\ id \in Ids(made)
  BY <1>2, <1>3, <1>4, <1>5 DEF Inherited
<1>7. Inherited(ls, was, made, made)
  BY <1>2, <1>3, <1>4, <1>5, <1>6 DEF Inherited
<1> QED BY <1>1, <1>7, LessonsOnly DEF was, in, ls

LEMMA AppendOk ==
  ASSUME made \in Nat, NEW f, FileOk(f, made), NEW g \in Learn!AppendPerformance(f)
  PROVE  FileOk(g, made)
<1>0. \A p : Learn!Mirrored(f, p) \subseteq BOOLEAN
  <2>1. \A i \in DOMAIN f.rows : f.rows[i] \in RowsOf(made)
    BY DEF FileOk
  <2>2. \A i \in DOMAIN f.rows : f.rows[i].mirror \in BOOLEAN
    BY <2>1 DEF RowsOf
  <2> QED BY <2>2 DEF Learn!Mirrored
<1>1. PICK p \in Records, w \in BOOLEAN, x \in BOOLEAN, c \in SUBSET DOMAIN f.lessons :
        g = Learn!Appended(f, p, w, x, c)
  BY <1>0 DEF Learn!AppendPerformance
<1> DEFINE row == [pos |-> p, win |-> w, settled |-> FALSE, mirror |-> x,
                   cites |-> c, review |-> {}, bounced |-> FALSE]
           old == f.rows
           rs  == Append(old, row)
<1>2. row \in RowsOf(made) /\ row.review = {}
  <2>1. c \in SUBSET Ids(made)
    BY DEF FileOk
  <2> QED BY <2>1 DEF RowsOf
<1> HIDE DEF row
<1>3. old \in Seq(RowsOf(made)) /\ g = [rows |-> rs, lessons |-> f.lessons]
  BY <1>1 DEF FileOk, row, Learn!Appended
<1> HIDE DEF old
<1>4. /\ rs \in Seq(RowsOf(made)) /\ Len(rs) = Len(old) + 1 /\ Len(old) \in Nat
      /\ rs[Len(old) + 1] = row /\ \A i \in 1 .. Len(old) : rs[i] = old[i]
  BY <1>2, <1>3
<1> HIDE DEF rs
<1>5. /\ \A i \in 1 .. Len(old) : \A id : \A win : Says(rs[i], id, win) <=> Says(old[i], id, win)
      /\ \A i \in Len(old) + 1 .. Len(rs) : rs[i].review = {}
      /\ Len(old) <= Len(rs)
  BY <1>2, <1>4
<1>6. Inherited(f.lessons, f.lessons, made, made)
  BY KeptIsInherited
<1> QED BY <1>3, <1>4, <1>5, <1>6, QuietIsOk DEF old

(* A row is marked; its review is not touched.                              *)
LEMMA RowOnly ==
  ASSUME made \in Nat, NEW f, FileOk(f, made), NEW i \in DOMAIN f.rows, NEW row \in RowsOf(made),
         row.review = f.rows[i].review
  PROVE  FileOk([f EXCEPT !.rows[i] = row], made)
<1>1. i \in 1 .. Len(f.rows)
  BY DEF FileOk
<1>2. \A id : \A win : Says(row, id, win) <=> Says(f.rows[i], id, win)
  BY DEF Says
<1>3. FileOk([rows |-> [f.rows EXCEPT ![i] = row], lessons |-> f.lessons], made)
  BY <1>1, <1>2, KeptIsInherited, QuietRow
<1>4. [f EXCEPT !.rows[i] = row] = [rows |-> [f.rows EXCEPT ![i] = row], lessons |-> f.lessons]
  BY DEF FileOk
<1> QED BY <1>3, <1>4

LEMMA SettleOk ==
  ASSUME made \in Nat, NEW f, FileOk(f, made), NEW g \in Learn!Settle(f)
  PROVE  FileOk(g, made)
<1>1. PICK i \in DOMAIN f.rows, w \in BOOLEAN : g = Learn!Settled(f, i, w)
  BY DEF Learn!Settle, Learn!Latest
<1> DEFINE row == [f.rows[i] EXCEPT !.settled = TRUE, !.win = w]
<1>2. row \in RowsOf(made) /\ row.review = f.rows[i].review
  <2>1. f.rows[i] \in RowsOf(made)
    BY DEF FileOk
  <2> QED BY <2>1 DEF RowsOf
<1>3. g = [f EXCEPT !.rows[i] = row]
  BY <1>1 DEF Learn!Settled
<1> HIDE DEF row
<1> QED BY <1>2, <1>3, RowOnly

LEMMA BounceOk ==
  ASSUME made \in Nat, NEW f, FileOk(f, made), NEW g \in Learn!BounceShadow(f)
  PROVE  FileOk(g, made)
<1>1. PICK i \in DOMAIN f.rows : g = [f EXCEPT !.rows[i] = [f.rows[i] EXCEPT !.bounced = TRUE]]
  BY DEF Learn!BounceShadow, Learn!Latest
<1> DEFINE row == [f.rows[i] EXCEPT !.bounced = TRUE]
<1>2. row \in RowsOf(made) /\ row.review = f.rows[i].review
  <2>1. f.rows[i] \in RowsOf(made)
    BY DEF FileOk
  <2> QED BY <2>1 DEF RowsOf
<1>3. g = [f EXCEPT !.rows[i] = row]
  BY <1>1
<1> HIDE DEF row
<1> QED BY <1>2, <1>3, RowOnly

(* Whatever a job makes of a sound file is a sound file.                    *)
LEMMA ChangeOk ==
  ASSUME made \in Nat, NEW f, FileOk(f, made), NEW w \in Learn!Jobs, NEW perf,
         w \in {"review", "backfill"} => perf \in RowsOf(made), NEW got,
         NEW g \in Learn!Change(w, f, perf, got)
  PROVE  FileOk(g, After(got))
<1>1. FileOk(g, made) => FileOk(g, After(got))
  BY FilesGrow DEF After
<1>2. CASE w = "review"
  BY <1>2, ReviewOk DEF Learn!Change
<1>3. CASE w = "backfill"
  BY <1>3, BackfillOk DEF Learn!Change
<1>4. CASE w = "mirror"
  BY <1>4, MirrorOk DEF Learn!Change
<1>5. CASE w = "append"
  BY <1>1, <1>5, AppendOk DEF Learn!Change
<1>6. CASE w = "settle"
  BY <1>1, <1>6, SettleOk DEF Learn!Change
<1>7. CASE w = "bounce"
  BY <1>1, <1>7, BounceOk DEF Learn!Change
<1>8. CASE w = "edit"
  BY <1>1, <1>8, EditOk DEF Learn!Change
<1>9. CASE w = "import"
  BY <1>1, <1>9, ImportOk DEF Learn!Change
<1> QED BY <1>2, <1>3, <1>4, <1>5, <1>6, <1>7, <1>8, <1>9 DEF Learn!Jobs

---------------------------------------------------------------------------
(* The jobs.                                                               *)

(* Setting a field of a job.                                                *)
LEMMA FieldIs ==
  ASSUME NEW j, DOMAIN j = {"at", "queue", "got", "tries", "copy"}, NEW x
  PROVE  /\ DOMAIN [j EXCEPT !.at = x] = DOMAIN j /\ [j EXCEPT !.at = x].at = x
         /\ [j EXCEPT !.at = x].queue = j.queue /\ [j EXCEPT !.at = x].copy = j.copy
         /\ DOMAIN [j EXCEPT !.queue = x] = DOMAIN j /\ [j EXCEPT !.queue = x].queue = x
         /\ [j EXCEPT !.queue = x].at = j.at
         /\ DOMAIN [j EXCEPT !.copy = x] = DOMAIN j /\ [j EXCEPT !.copy = x].copy = x
         /\ [j EXCEPT !.copy = x].at = j.at /\ [j EXCEPT !.copy = x].queue = j.queue
         /\ DOMAIN [j EXCEPT !.got = x] = DOMAIN j /\ [j EXCEPT !.got = x].at = j.at
         /\ [j EXCEPT !.got = x].queue = j.queue
         /\ DOMAIN [j EXCEPT !.tries = x] = DOMAIN j /\ [j EXCEPT !.tries = x].at = j.at
         /\ [j EXCEPT !.tries = x].queue = j.queue
  OBVIOUS

Asking(queue) == [Learn!Idle EXCEPT !.at = "ask", !.queue = queue]

LEMMA IdleOk ==
  ASSUME NEW w, NEW n
  PROVE  /\ JobOk(w, Learn!Idle, n)
         /\ w \notin {"review", "backfill"} =>
              /\ JobOk(w, [Learn!Idle EXCEPT !.at = "ask"], n)
              /\ JobOk(w, [Learn!Idle EXCEPT !.at = "load"], n)
<1>1. /\ DOMAIN Learn!Idle = {"at", "queue", "got", "tries", "copy"}
      /\ Learn!Idle.at = "idle" /\ Learn!Idle.queue = <<>>
  BY DEF Learn!Idle
<1>2. <<>> \in Seq(RowsOf(n))
  OBVIOUS
<1>3. JobOk(w, Learn!Idle, n)
  BY <1>1, <1>2 DEF JobOk
<1>4. ASSUME w \notin {"review", "backfill"}, NEW to \in {"ask", "load"}
      PROVE  JobOk(w, [Learn!Idle EXCEPT !.at = to], n)
  <2> DEFINE j == [Learn!Idle EXCEPT !.at = to]
  <2>1. DOMAIN j = {"at", "queue", "got", "tries", "copy"} /\ j.at = to /\ j.queue = <<>>
    BY <1>1, FieldIs
  <2> HIDE DEF j
  <2>2. JobOk(w, j, n)
    BY <1>2, <1>4, <2>1 DEF JobOk
  <2> QED BY <2>2 DEF j
<1> QED BY <1>3, <1>4

LEMMA AskingOk ==
  ASSUME NEW w, NEW n, NEW queue \in Seq(RowsOf(n)), queue # <<>>
  PROVE  JobOk(w, Asking(queue), n)
<1> DEFINE i == [Learn!Idle EXCEPT !.at = "ask"]
           j == [i EXCEPT !.queue = queue]
<1>1. DOMAIN Learn!Idle = {"at", "queue", "got", "tries", "copy"}
  BY DEF Learn!Idle
<1>2. DOMAIN i = {"at", "queue", "got", "tries", "copy"} /\ i.at = "ask"
  BY <1>1, FieldIs
<1> HIDE DEF i
<1>3. DOMAIN j = {"at", "queue", "got", "tries", "copy"} /\ j.at = "ask" /\ j.queue = queue
  BY <1>2, FieldIs
<1> HIDE DEF j
<1>4. JobOk(w, j, n)
  BY <1>3 DEF JobOk
<1> QED BY <1>4 DEF i, j, Asking

LEMMA NextOk ==
  ASSUME NEW n, JobsOk(n), NEW w \in Learn!Jobs PROVE JobOk(w, Learn!NextOf(w), n)
<1> DEFINE queue == job[w].queue
<1>1. queue \in Seq(RowsOf(n))
  BY DEF JobsOk, JobOk
<1>2. JobOk(w, Learn!Idle, n)
  BY IdleOk
<1>3. CASE Len(queue) <= 1
  BY <1>2, <1>3 DEF Learn!NextOf
<1>4. CASE ~(Len(queue) <= 1)
  <2>1. Tail(queue) \in Seq(RowsOf(n)) /\ Tail(queue) # <<>>
    BY <1>1, <1>4
  <2>2. Learn!NextOf(w) = Asking(Tail(queue))
    BY <1>4 DEF Learn!NextOf, Asking
  <2>3. JobOk(w, Asking(Tail(queue)), n)
    BY <2>1, AskingOk
  <2> QED BY <2>2, <2>3
<1> QED BY <1>3, <1>4

LEMMA TakeOk ==
  ASSUME NEW n, NEW w \in Learn!Jobs, NEW queue \in Seq(RowsOf(n)), Learn!Take(w, queue)
  PROVE  \E to : Learn!Move(w, to) /\ JobOk(w, to, n)
<1>1. CASE queue = <<>>
  BY <1>1, IdleOk DEF Learn!Take
<1>2. CASE queue # <<>>
  <2>1. Learn!Move(w, Asking(queue))
    BY <1>2 DEF Learn!Take, Asking
  <2> QED BY <1>2, <2>1, AskingOk
<1> QED BY <1>1, <1>2

LEMMA MoveOk ==
  ASSUME NEW n \in Nat, JobsOk(n), NEW m \in {n, n + 1}, NEW w \in Learn!Jobs, NEW to,
         Learn!Move(w, to), JobOk(w, to, m)
  PROVE  JobsOk(m)'
<1>1. job' = [job EXCEPT ![w] = to] /\ job = [x \in Learn!Jobs |-> job[x]]
  BY DEF Learn!Move, JobsOk
<1>2. /\ job' = [x \in Learn!Jobs |-> job'[x]] /\ job'[w] = to
      /\ \A x \in Learn!Jobs : x # w => job'[x] = job[x]
  BY <1>1
<1>3. \A x \in Learn!Jobs : JobOk(x, job[x], m)
  BY JobsGrow DEF JobsOk
<1>4. \A x \in Learn!Jobs : JobOk(x, job'[x], m)
  BY <1>2, <1>3
<1> QED BY <1>2, <1>4 DEF JobsOk

(* A queue is made of rows of the file.                                     *)
LEMMA PicksAreRows ==
  ASSUME NEW n \in Nat, NEW f, FileOk(f, n),
         NEW queue \in Learn!PickReviewable(f) \cup Learn!PickBackfillable(f)
  PROVE  queue \in Seq(RowsOf(n))
<1>1. ASSUME NEW due \in SUBSET DOMAIN f.rows, NEW q \in Learn!NewestFirst(f, due)
      PROVE  q \in Seq(RowsOf(n))
  <2>1. PICK order \in [1 .. Cardinality(due) -> due] : q = [x \in DOMAIN order |-> f.rows[order[x]]]
    BY <1>1 DEF Learn!NewestFirst, Learn!Cardinality, Cardinality
  <2>2. Cardinality(due) \in Nat
    <3>1. DOMAIN f.rows = 1 .. Len(f.rows) /\ Len(f.rows) \in Nat
      BY DEF FileOk
    <3>2. PICK k \in Nat : DOMAIN f.rows = 1 .. k
      BY <3>1
    <3>3. IsFiniteSet(1 .. k)
      BY FS_Interval
    <3> QED BY <3>2, <3>3, FS_Subset, FS_CardinalityType
  <2>3. PICK k \in Nat : k = Cardinality(due)
    BY <2>2
  <2>4. \A x \in 1 .. k : f.rows[order[x]] \in RowsOf(n)
    BY <2>1, <2>3 DEF FileOk
  <2>5. q = [x \in 1 .. k |-> f.rows[order[x]]]
    BY <2>1, <2>3
  <2> QED BY <2>4, <2>5
<1>2. CASE queue \in Learn!PickBackfillable(f)
  <2>1. {i \in DOMAIN f.rows : f.rows[i].review # {}} \in SUBSET DOMAIN f.rows
    OBVIOUS
  <2> QED BY <1>1, <1>2, <2>1 DEF Learn!PickBackfillable
<1>3. CASE queue \in Learn!PickReviewable(f)
  <2>1. PICK q \in Learn!NewestFirst(f, {i \in DOMAIN f.rows : Learn!Reviewable(f.rows[i])}) :
          queue = SubSeq(q, 1, IF Len(q) < PerTick THEN Len(q) ELSE PerTick)
    BY <1>3 DEF Learn!PickReviewable
  <2>2. {i \in DOMAIN f.rows : Learn!Reviewable(f.rows[i])} \in SUBSET DOMAIN f.rows
    OBVIOUS
  <2>3. q \in Seq(RowsOf(n))
    BY <1>1, <2>1, <2>2
  <2>4. PICK k \in 0 .. Len(q) : queue = SubSeq(q, 1, k)
    BY <2>1, <2>3, ServicesAssumption
  <2> QED BY <2>3, <2>4
<1> QED BY <1>2, <1>3

(* A job that asks goes on to load, or asks again; one that loaded saves.   *)
LEMMA LoadingOk ==
  ASSUME NEW n, JobsOk(n), NEW w \in Learn!Jobs, job[w].at = "ask", NEW x
  PROVE  /\ JobOk(w, [job[w] EXCEPT !.at = "load", !.got = x], n)
         /\ JobOk(w, [job[w] EXCEPT !.tries = x], n)
<1> DEFINE was == job[w]
           i   == [was EXCEPT !.at = "load"]
           j   == [i EXCEPT !.got = x]
           k   == [was EXCEPT !.tries = x]
<1>1. JobOk(w, was, n) /\ was.at = "ask"
  BY DEF JobsOk
<1> HIDE DEF was
<1>2. DOMAIN was = {"at", "queue", "got", "tries", "copy"}
  BY <1>1 DEF JobOk
<1>3. DOMAIN i = DOMAIN was /\ i.at = "load" /\ i.queue = was.queue
  BY <1>2, FieldIs
<1>4. DOMAIN k = DOMAIN was /\ k.at = "ask" /\ k.queue = was.queue
  BY <1>1, <1>2, FieldIs
<1> HIDE DEF i, k
<1>5. DOMAIN j = DOMAIN was /\ j.at = "load" /\ j.queue = was.queue
  BY <1>2, <1>3, FieldIs
<1> HIDE DEF j
<1>6. JobOk(w, j, n) /\ JobOk(w, k, n)
  BY <1>1, <1>2, <1>4, <1>5 DEF JobOk
<1> QED BY <1>6 DEF i, j, k, was

LEMMA SavingOk ==
  ASSUME NEW w, NEW was, NEW n, JobOk(w, was, n), was.at = "load", NEW c, FileOk(c, n)
  PROVE  JobOk(w, [was EXCEPT !.at = "save", !.copy = <<c>>], n)
<1> DEFINE i == [was EXCEPT !.at = "save"]
           j == [i EXCEPT !.copy = <<c>>]
<1>1. DOMAIN was = {"at", "queue", "got", "tries", "copy"}
  BY DEF JobOk
<1>2. DOMAIN i = DOMAIN was /\ i.at = "save" /\ i.queue = was.queue
  BY <1>1, FieldIs
<1> HIDE DEF i
<1>3. DOMAIN j = DOMAIN was /\ j.at = "save" /\ j.queue = was.queue /\ j.copy = <<c>>
  BY <1>1, <1>2, FieldIs
<1> HIDE DEF j
<1>4. JobOk(w, j, n)
  BY <1>1, <1>3 DEF JobOk
<1> QED BY <1>4 DEF i, j

LEMMA LearnStarts ==
  ASSUME Init PROVE LearnInv
<1>1. CASE "learning" \notin moving
  BY <1>1 DEF Init, NoLearning, LearnInv
<1>2. CASE "learning" \in moving
  <2>1. PICK s \in Starts :
          /\ made = 0 /\ rows = s.rows /\ lessons = [id \in s.ids |-> Learn!New(FALSE)]
          /\ job = [w \in Learn!Jobs |-> Learn!Idle]
    BY <1>2 DEF Init, Learn!Init
  <2>2. s.ids \subseteq Ids(0)
    <3>1. ASSUME NEW id \in s.ids PROVE id \in Ids(0)
      <4>1. id \in FoundIds
        BY StartsAssumption
      <4>2. PICK kind \in {"hand", "community"}, name \in Catalog : id = <<kind, name, 0>>
        BY <4>1 DEF FoundIds
      <4>3. Catalog \subseteq Names
        BY Zenon DEF Names
      <4>4. id \in AllIds
        BY <4>2, <4>3 DEF AllIds
      <4>5. id[1] \notin Tags
        BY <4>2 DEF Tags
      <4> QED BY <4>4, <4>5 DEF Ids
    <3> QED BY <3>1
  <2>3. /\ DOMAIN lessons \subseteq Ids(0)
        /\ \A id \in DOMAIN lessons : lessons[id] = Learn!New(FALSE)
        /\ lessons = [id \in DOMAIN lessons |-> lessons[id]]
    BY <2>1, <2>2
  <2>r. /\ rows \in Seq(RowsOf(0)) /\ \A i \in 1 .. Len(rows) : rows[i].review = {}
    <3>1. rows \in Seq(FoundRows(s.ids))
      BY <2>1, StartsAssumption
    <3>2. ASSUME NEW row \in FoundRows(s.ids) PROVE row \in RowsOf(0) /\ row.review = {}
      BY <2>2, <3>2 DEF FoundRows, RowsOf
    <3> QED BY <3>1, <3>2
  <2>4. /\ Learn!New(FALSE) \in LessonsOf /\ Learn!New(FALSE).wins = 0 /\ Learn!New(FALSE).losses = 0
    BY DEF Learn!New, LessonsOf
  <2>5. lessons \in [DOMAIN lessons -> LessonsOf]
    BY <2>3, <2>4
  <2>6. ASSUME NEW id \in DOMAIN lessons PROVE CountIs(lessons[id], id, rows)
    <3>1. ScoredIn(rows, id, TRUE) = {} /\ ScoredIn(rows, id, FALSE) = {}
      BY <2>r DEF ScoredIn, Says
    <3>2. Wins(rows, id) = 0 /\ Losses(rows, id) = 0 /\ Reviews(rows, id) = 0
      BY <3>1, FS_EmptySet DEF Wins, Losses, Reviews
    <3>3. PICK l : l = lessons[id] /\ l.wins = 0 /\ l.losses = 0
      BY <2>3, <2>4
    <3>4. CountIs(l, id, rows)
      BY <3>2, <3>3 DEF CountIs
    <3> QED BY <3>3, <3>4
  <2>7. /\ Learn!File = [rows |-> Learn!File.rows, lessons |-> Learn!File.lessons]
        /\ Learn!File.rows = rows /\ Learn!File.lessons = lessons
    BY DEF Learn!File
  <2>8. FileOk(Learn!File, 0)
    BY <2>3, <2>r, <2>5, <2>6, <2>7 DEF FileOk
  <2>9. \A w : JobOk(w, Learn!Idle, 0)
    BY IdleOk
  <2>10. JobsOk(0)
    BY <2>1, <2>9 DEF JobsOk
  <2> QED BY <1>2, <2>1, <2>8, <2>10 DEF LearnInv, LearnOk
<1> QED BY <1>1, <1>2

LEMMA TickHolds ==
  ASSUME LearnOk, Learn!Tick PROVE LearnOk'
<1>1. PICK queue \in Learn!PickReviewable(Learn!File) : Learn!Take("review", queue)
  BY DEF Learn!Tick
<1>2. "review" \in Learn!Jobs /\ queue \in Seq(RowsOf(made))
  BY PicksAreRows DEF LearnOk, Learn!Jobs
<1>3. JobsOk(made)'
  BY <1>1, <1>2, TakeOk, MoveOk DEF LearnOk, Learn!Tick
<1> QED BY <1>3 DEF LearnOk, Learn!Tick, Learn!File

LEMMA StartsHolds ==
  ASSUME LearnOk, NEW w \in Learn!Jobs, Learn!Start(w) PROVE LearnOk'
<1>1. /\ w # "review" /\ UNCHANGED <<rows, lessons, made>>
      /\ \/ /\ w = "backfill"
            /\ \E queue \in Learn!PickBackfillable(Learn!File) : Learn!Take(w, queue)
         \/ w # "backfill" /\ \E to \in {"ask", "load"} : Learn!Move(w, [Learn!Idle EXCEPT !.at = to])
  BY DEF Learn!Start
<1>2. \E to : Learn!Move(w, to) /\ JobOk(w, to, made)
  <2>1. CASE w = "backfill"
    BY <1>1, <2>1, PicksAreRows, TakeOk DEF LearnOk
  <2>2. CASE w # "backfill"
    BY <1>1, <2>2, IdleOk
  <2> QED BY <2>1, <2>2
<1>3. JobsOk(made)'
  BY <1>1, <1>2, MoveOk DEF LearnOk
<1> QED BY <1>1, <1>3 DEF LearnOk, Learn!File

LEMMA AnswerHolds ==
  ASSUME LearnOk, NEW w \in Learn!Jobs, Learn!Answer(w) PROVE LearnOk'
<1>1. PICK reply : Learn!Move(w, [job[w] EXCEPT !.at = "load", !.got = reply])
  BY DEF Learn!Answer
<1>2. job[w].at = "ask" /\ UNCHANGED <<rows, lessons, made>>
  BY DEF Learn!Answer
<1>3. JobOk(w, [job[w] EXCEPT !.at = "load", !.got = reply], made)
  BY <1>2, LoadingOk DEF LearnOk
<1>4. JobsOk(made)'
  BY <1>1, <1>2, <1>3, MoveOk DEF LearnOk
<1> QED BY <1>2, <1>4 DEF LearnOk, Learn!File

LEMMA FailsHolds ==
  ASSUME LearnOk, NEW w \in Learn!Jobs, Learn!Fails(w) PROVE LearnOk'
<1>1. job[w].at = "ask" /\ UNCHANGED <<rows, lessons, made>>
  BY DEF Learn!Fails
<1>2. \/ \E got : Learn!Move(w, [job[w] EXCEPT !.at = "load", !.got = got])
      \/ \E tries : Learn!Move(w, [job[w] EXCEPT !.tries = tries])
      \/ Learn!Move(w, Learn!NextOf(w)) \/ Learn!Move(w, Learn!Idle)
  BY DEF Learn!Fails, Learn!Askers
<1>3. \A got : JobOk(w, [job[w] EXCEPT !.at = "load", !.got = got], made)
  BY <1>1, LoadingOk DEF LearnOk
<1>4. \A tries : JobOk(w, [job[w] EXCEPT !.tries = tries], made)
  BY <1>1, LoadingOk DEF LearnOk
<1>5. JobOk(w, Learn!NextOf(w), made) /\ JobOk(w, Learn!Idle, made)
  BY NextOk, IdleOk DEF LearnOk
<1>6. JobsOk(made)'
  BY <1>1, <1>2, <1>3, <1>4, <1>5, MoveOk DEF LearnOk
<1> QED BY <1>1, <1>6 DEF LearnOk, Learn!File

LEMMA LoadHolds ==
  ASSUME LearnOk, NEW w \in Learn!Jobs, Learn!Load(w) PROVE LearnOk'
<1> DEFINE perf == IF job[w].queue = <<>> THEN <<>> ELSE Head(job[w].queue)
<1>0. PICK m : m = made'
  OBVIOUS
<1>1. /\ job[w].at = "load" /\ UNCHANGED <<rows, lessons>> /\ made' = m
      /\ \/ Learn!Move(w, Learn!NextOf(w))
         \/ /\ m = After(job[w].got)
            /\ \E c \in Learn!Change(w, Learn!File, perf, job[w].got) :
                 Learn!Move(w, [job[w] EXCEPT !.at = "save", !.copy = <<c>>])
      /\ m \in {made, After(job[w].got)}
  BY <1>0 DEF Learn!Load, After
<1>2. w \in {"review", "backfill"} => perf \in RowsOf(made)
  <2>1. job[w].queue \in Seq(RowsOf(made)) /\ (w \in {"review", "backfill"} => job[w].queue # <<>>)
    BY <1>1 DEF LearnOk, JobsOk, JobOk
  <2> QED BY <2>1
<1>3. \A c \in Learn!Change(w, Learn!File, perf, job[w].got) :
        m = After(job[w].got) => FileOk(c, m)
  <2> HIDE DEF perf
  <2> QED BY <1>2, ChangeOk DEF LearnOk
<1>4. m \in {made, made + 1} /\ made \in Nat
  BY <1>1 DEF After, LearnOk
<1> HIDE DEF perf
<1>5. FileOk(Learn!File, m)
  BY <1>4, FilesGrow DEF LearnOk
<1>6. JobOk(w, job[w], m) /\ JobOk(w, Learn!NextOf(w), m)
  BY <1>4, JobsGrow, NextOk DEF LearnOk, JobsOk
<1>7. \A c : FileOk(c, m) => JobOk(w, [job[w] EXCEPT !.at = "save", !.copy = <<c>>], m)
  BY <1>1, <1>6, SavingOk
<1>8. PICK to : Learn!Move(w, to) /\ JobOk(w, to, m)
  <2>1. CASE Learn!Move(w, Learn!NextOf(w))
    BY <1>6, <2>1
  <2>2. CASE /\ m = After(job[w].got)
             /\ \E c \in Learn!Change(w, Learn!File, perf, job[w].got) :
                  Learn!Move(w, [job[w] EXCEPT !.at = "save", !.copy = <<c>>])
    BY <1>3, <1>7, <2>2
  <2> QED BY <1>1, <2>1, <2>2
<1>9. JobsOk(made)'
  BY <1>1, <1>4, <1>8, MoveOk DEF LearnOk
<1>10. Learn!File' = Learn!File
  BY <1>1 DEF Learn!File
<1>11. FileOk(Learn!File, made)'
  BY <1>1, <1>5, <1>10 DEF FileOk
<1>12. made' \in Nat
  <2>1. made' = m
    BY <1>1
  <2>2. m \in Nat
    BY <1>4
  <2> QED BY <2>1, <2>2
<1> QED BY <1>9, <1>11, <1>12 DEF LearnOk

LEMMA SaveHolds ==
  ASSUME LearnOk, NEW w \in Learn!Jobs, Learn!Save(w) PROVE LearnOk'
<1>1. PICK c : job[w].copy = <<c>> /\ FileOk(c, made)
  BY DEF Learn!Save, LearnOk, JobsOk, JobOk
<1>2. rows' = c.rows /\ lessons' = c.lessons /\ made' = made /\ Learn!Move(w, Learn!NextOf(w))
  BY <1>1 DEF Learn!Save
<1>3. FileOk([rows |-> c.rows, lessons |-> c.lessons], made)
  BY <1>1 DEF FileOk
<1>4. JobsOk(made)'
  BY <1>2, NextOk, MoveOk DEF LearnOk
<1> QED BY <1>2, <1>3, <1>4 DEF LearnOk, Learn!File

LEMMA LearnRestartHolds ==
  ASSUME LearnOk, Learn!Restart PROVE LearnOk'
<1>1. /\ job' = [w \in Learn!Jobs |-> IF w \in Learn!Daemon THEN Learn!Idle ELSE job[w]]
      /\ UNCHANGED <<rows, lessons, made>>
  BY DEF Learn!Restart
<1>2. \A w : JobOk(w, Learn!Idle, made)
  BY IdleOk
<1>3. JobsOk(made)'
  BY <1>1, <1>2 DEF LearnOk, JobsOk
<1> QED BY <1>1, <1>3 DEF LearnOk, Learn!File

LEMMA LearnSteps ==
  ASSUME LearnInv, [Next]_vars PROVE LearnInv'
<1>1. CASE UNCHANGED <<moving, learnVars>>
  BY <1>1 DEF learnVars, LearnInv, LearnOk, JobsOk, Learn!File
<1>2. CASE "learning" \in moving /\ Learn!Next /\ OnlyLearning
  <2>1. LearnOk /\ moving' = moving
    BY <1>2 DEF LearnInv, OnlyLearning
  <2>2. ASSUME NEW p \in Records, Learn!Older(p) PROVE LearnOk'
    BY <2>1, <2>2 DEF Learn!Older, LearnOk, JobsOk, Learn!File
  <2>3. LearnOk'
    BY <1>2, <2>1, <2>2, TickHolds, StartsHolds, AnswerHolds, FailsHolds, LoadHolds, SaveHolds,
       LearnRestartHolds DEF Learn!Next
  <2> QED BY <1>2, <2>1, <2>3 DEF LearnInv
<1> QED BY <1>1, <1>2 DEF Next, vars, OnlyReview, OnlyBot, OnlyWallet, OnlyLoop

(* lessons.json: whatever the order in which the jobs load and save their     *)
(* copies of the file, how many rows and lessons there are, and when the       *)
(* daemon restarts, the wins and losses of a lesson are the reviews of the same *)
(* file that scored it.                                                       *)
THEOREM LessonsCountTheirReviews == Spec => []TrackRecord
<1>1. Init => LearnInv
  BY LearnStarts
<1>2. LearnInv /\ [Next]_vars => LearnInv'
  BY LearnSteps
<1>3. ASSUME LearnInv PROVE TrackRecord
  <2>1. CASE lessons = <<>>
    <3>1. DOMAIN lessons = {}
      BY <2>1
    <3> QED BY <3>1 DEF TrackRecord, Learn!TrackRecord
  <2>2. CASE LearnOk
    <3>1. rows \in Seq(RowsOf(made)) /\ \A id \in DOMAIN lessons : CountIs(lessons[id], id, rows)
      BY <2>2 DEF LearnOk, FileOk, Learn!File
    <3>2. \A id, win : Learn!Scores(id, win) = ScoredIn(rows, id, win)
      <4>1. DOMAIN rows = 1 .. Len(rows)
        BY <3>1
      <4> QED BY <4>1 DEF Learn!Scores, ScoredIn, Says
    <3>3. \A id : /\ Learn!Cardinality(Learn!Scores(id, TRUE)) = Wins(rows, id)
                  /\ Learn!Cardinality(Learn!Scores(id, FALSE)) = Losses(rows, id)
                  /\ Learn!Cardinality(Learn!Scores(id, TRUE) \cup Learn!Scores(id, FALSE)) = Reviews(rows, id)
      BY <3>2, Zenon DEF Wins, Losses, Reviews, Learn!Cardinality, Cardinality
    <3> QED BY <3>1, <3>3 DEF TrackRecord, Learn!TrackRecord, CountIs, Ours
  <2> QED BY <1>3, <2>1, <2>2 DEF LearnInv
<1> QED BY <1>1, <1>2, <1>3, PTL DEF Spec
=============================================================================
