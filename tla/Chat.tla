-------------------------------- MODULE Chat --------------------------------
(***************************************************************************)
(* The dashboard's chat: the page (web/lib/useChat.ts) posts a question,    *)
(* the web server passes it on (web/app/api/chat/route.ts), and the bridge  *)
(* (POST /chat in adapters/dashboard/routes.ts) streams the tools it calls  *)
(* and its one answer.                                                     *)
(***************************************************************************)
EXTENDS Naturals, Sequences

CONSTANTS
  MaxTurns,   \* bound on the questions
  MaxTools    \* bound on the tool calls of one turn

VARIABLES
  messages,   \* the bubbles: [role, turn]
  streaming,  \* the page waits for an answer
  trace,      \* tools of the current turn, as the page shows them: TRUE when done
  error,      \* the error the page shows, nullable
  turn,       \* questions asked so far
  reader,     \* per turn: "reads", "replied" or "done"
  bridge,     \* per turn, where the bridge is: [step, tools]
  socket,     \* per turn, frames on their way to the page; "end" closes it
  stopped,    \* turns the operator stopped
  failed      \* turns that ended in an error

page == <<messages, streaming, trace, error, turn, reader, stopped, failed>>
vars == <<page, bridge, socket>>

Turns == 1 .. MaxTurns

Init ==
  /\ messages = <<>> /\ streaming = FALSE /\ trace = <<>> /\ error = FALSE /\ turn = 0
  /\ reader = [t \in Turns |-> "done"] /\ stopped = {} /\ failed = {}
  /\ bridge = [t \in Turns |-> [step |-> "none", tools |-> 0]]
  /\ socket = [t \in Turns |-> <<>>]

(* One question at a time.                                                 *)
Eager == TRUE                                                        \* mutant
Idle  == ~streaming
SendQuestion ==
  /\ Idle /\ turn < MaxTurns /\ turn' = turn + 1
  /\ messages' = Append(messages, [role |-> "user", turn |-> turn + 1])
  /\ streaming' = TRUE /\ trace' = <<>> /\ error' = FALSE
  /\ reader' = [reader EXCEPT ![turn + 1] = "reads"]
  /\ bridge' = [bridge EXCEPT ![turn + 1].step = "asked"]
  /\ UNCHANGED <<socket, stopped, failed>>

---------------------------------------------------------------------------
(* The web server and the bridge                                           *)

Put(t, frames) == socket' = [socket EXCEPT ![t] = @ \o frames]
At(t, from, to) == bridge[t].step = from /\ bridge' = [bridge EXCEPT ![t].step = to]

(* Whatever is wrong comes back as a stream of one error frame.             *)
Connect(t) ==
  /\ \/ At(t, "asked", "over") /\ Put(t, <<"error", "end">>)
     \/ At(t, "asked", "loop") /\ UNCHANGED socket
  /\ UNCHANGED page

(* The loop has the read tools only; nobody is told after the page left.    *)
Tool(t) ==
  /\ bridge[t].step \in {"loop", "tool"}
  /\ IF bridge[t].step = "tool" THEN At(t, "tool", "loop") /\ Put(t, <<"finish">>)
     ELSE /\ bridge[t].tools < MaxTools
          /\ bridge' = [bridge EXCEPT ![t] = [step |-> "tool", tools |-> @.tools + 1]]
          /\ Put(t, <<"start">>)
  /\ UNCHANGED page

Done(t) == At(t, "loop", "over") /\ Put(t, <<"done", "end">>) /\ UNCHANGED page

(* The wallet, the positions or the LLM fail: an error frame, and the end.  *)
Throw(t) ==
  /\ \E step \in {"loop", "tool"} : At(t, step, "over")
  /\ Put(t, <<"error", "end">>)
  /\ UNCHANGED page

(* The bridge dies, or a proxy between cuts the connection.                 *)
Cut(t) ==
  /\ bridge[t].step \in {"loop", "tool"}
  /\ \E end \in {"end", "reset"} : Put(t, <<end>>)
  /\ bridge' = [bridge EXCEPT ![t].step = "over"]
  /\ UNCHANGED page

---------------------------------------------------------------------------
(* The page                                                                *)

End(t, wrong) ==
  /\ streaming' = FALSE /\ reader' = [reader EXCEPT ![t] = "done"]
  /\ error' = (error \/ wrong)
  /\ failed' = IF error' THEN failed \cup {t} ELSE failed

Receive(t) ==
  /\ reader[t] # "done" /\ socket[t] # <<>> /\ socket' = [socket EXCEPT ![t] = Tail(@)]
  /\ LET frame == Head(socket[t])
     IN  /\ messages' = IF frame = "done" THEN Append(messages, [role |-> "assistant", turn |-> t])
                        ELSE messages
         /\ trace' = IF frame = "start" THEN Append(trace, FALSE)
                     ELSE IF frame = "finish" THEN [i \in DOMAIN trace |-> TRUE] ELSE trace
         /\ IF frame \in {"end", "reset"} THEN End(t, frame = "reset" \/ reader[t] # "replied")
            ELSE /\ reader' = IF frame = "done" THEN [reader EXCEPT ![t] = "replied"] ELSE reader
                 /\ error' = (error \/ frame = "error")
                 /\ UNCHANGED <<streaming, failed>>
  /\ UNCHANGED <<turn, stopped, bridge>>

(* Nothing of a stopped turn is read any more.                             *)
StopTurn(t) ==
  /\ reader[t] # "done" /\ stopped' = stopped \cup {t} /\ End(t, FALSE)
  /\ UNCHANGED <<messages, trace, turn, bridge, socket>>

Next ==
  \/ SendQuestion
  \/ \E t \in Turns : Connect(t) \/ Tool(t) \/ Done(t) \/ Throw(t) \/ Cut(t) \/ Receive(t) \/ StopTurn(t)
Spec == Init /\ [][Next]_vars

---------------------------------------------------------------------------
(* Property                                                                *)

(* An answer stands under its own question, and no question is left with    *)
(* neither answer nor error unless the operator stopped it, however the     *)
(* stream ends (useChat.ts:98-100).                                        *)
EachAnswered ==
  /\ \A i \in DOMAIN messages : messages[i].role = "assistant" =>
       i > 1 /\ messages[i - 1] = [role |-> "user", turn |-> messages[i].turn]
  /\ \A t \in 1 .. turn : reader[t] = "done" =>
       \/ t \in stopped \cup failed
       \/ \E i \in DOMAIN messages : messages[i] = [role |-> "assistant", turn |-> t]
=============================================================================
