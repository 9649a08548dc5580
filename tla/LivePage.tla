------------------------------ MODULE LivePage ------------------------------
(***************************************************************************)
(* The dashboard's live view of the positions: asked for again and again    *)
(* (web/lib/hooks.ts), completed by the bridge with the tracked record of   *)
(* each (adapters/dashboard/routes.ts), and overlaid meanwhile by what the  *)
(* bridge pushes (adapters/dashboard/sse.ts, web/lib/useLiveEvents.ts).     *)
(***************************************************************************)
EXTENDS Naturals

CONSTANTS
  Positions,
  MaxWorth, MaxFaults  \* bounds on what moves underneath

VARIABLES
  chain,     \* positions on chain, with what they are worth
  gone,      \* positions that were there and are not any more
  tracked,   \* state.json: per position its record, none at first
  up,        \* the daemon runs
  snapshot,  \* the answer of its position cache
  stream,    \* the tab's event stream: closed for good after an error
  request,   \* the request of GET /state/positions under way, nullable
  shown,     \* the positions page, nullable: per position its worth and record
  status,    \* "online", "degraded" or "offline"
  faults     \* crashes, broken streams and lost answers so far

world == <<chain, gone, tracked>>
hub   == <<snapshot, stream>>
tab   == <<request, shown, status>>
vars  == <<world, up, hub, tab, faults>>

Held == DOMAIN chain
Open == {p \in Positions : tracked[p] \in {"deploy", "external"}}

Another(S) == CHOOSE p \in Positions : p \notin S      \* they are interchangeable

(* A push comes every three seconds while a record is open.                 *)
Pushed == stream = "open" /\ Open # {}
Query  == {[rows |-> snapshot, left |-> DOMAIN snapshot, missing |-> {}, done |-> <<>>]}

(* The page opens on a wallet that holds a position.                        *)
Init ==
  /\ chain = [p \in {Another({})} |-> 0] /\ gone = {}
  /\ tracked = [p \in Positions |-> IF p \in Held THEN "deploy" ELSE "none"]
  /\ up = TRUE /\ snapshot = chain
  /\ stream = "new"
  /\ request = Query /\ shown = {} /\ status = "online" /\ faults = 0

---------------------------------------------------------------------------
(* What moves underneath                                                   *)

Deploy ==
  /\ up /\ Positions \ (gone \cup Held) # {}
  /\ LET new == Another(gone \cup Held)
     IN  chain' = [p \in Held \cup {new} |-> IF p = new THEN 0 ELSE chain[p]]
  /\ UNCHANGED <<gone, tracked, up, hub, tab, faults>>

(* The record of the deploy hook; the operator's own positions have none.   *)
Hook(p) ==
  /\ up /\ p \in Held /\ tracked[p] \in {"none", "external"}
  /\ tracked' = [tracked EXCEPT ![p] = "deploy"]
  /\ UNCHANGED <<chain, gone, up, hub, tab, faults>>

Market ==
  /\ Held # {} /\ \A p \in Held : chain[p] < MaxWorth
  /\ chain' = [p \in Held |-> chain[p] + 1]
  /\ UNCHANGED <<gone, tracked, up, hub, tab, faults>>

Remove(p) == chain' = [x \in Held \ {p} |-> chain[x]] /\ gone' = gone \cup {p}

Withdrawn ==
  /\ \E p \in Held : Remove(p)
  /\ UNCHANGED <<tracked, up, hub, tab, faults>>

(* The management cycle closes the record of what is not on chain any more. *)
Finalise ==
  /\ up /\ \E p \in gone \cap Open : tracked' = [tracked EXCEPT ![p] = "closed"]
  /\ UNCHANGED <<chain, gone, up, hub, tab, faults>>

(* The cache has expired, or the poller forces a read.                     *)
Refresh ==
  /\ up /\ snapshot' = chain
  /\ UNCHANGED <<world, up, stream, tab, faults>>

(* A restart drops the connections.                                        *)
Stop ==
  /\ up /\ faults < MaxFaults /\ faults' = faults + 1
  /\ up' = FALSE /\ request' = {}
  /\ stream' = "closed"
  /\ UNCHANGED <<world, snapshot, shown, status>>
Start ==
  /\ ~up /\ up' = TRUE /\ snapshot' = chain
  /\ UNCHANGED <<world, stream, tab, faults>>

---------------------------------------------------------------------------
(* The event stream                                                        *)

(* The handler of /events polls at once; the page goes on without a stream  *)
(* that fails.                                                             *)
Connect ==
  /\ stream = "new" /\ stream' = IF up THEN "open" ELSE "closed"
  /\ UNCHANGED <<world, up, snapshot, tab, faults>>

(* The tick has no records: what is shown keeps its own, and nothing goes.  *)
Overwrite(old, rows) == [p \in DOMAIN rows |-> [worth |-> rows[p], record |-> "none"]]   \* mutant
Merge(old, rows) ==
  [p \in DOMAIN old \cup DOMAIN rows |->
     [worth  |-> IF p \in DOMAIN rows THEN rows[p] ELSE old[p].worth,
      record |-> IF p \in DOMAIN old THEN old[p].record ELSE "none"]]
Push ==
  /\ up /\ Pushed
  /\ LET old == IF shown = {} THEN <<>> ELSE CHOOSE s \in shown : TRUE
     IN  shown' = {Merge(old, snapshot)}
  /\ UNCHANGED <<world, up, hub, request, status, faults>>

Break ==
  /\ stream = "open" /\ faults < MaxFaults /\ faults' = faults + 1
  /\ stream' = "closed"
  /\ UNCHANGED <<world, up, snapshot, tab>>

---------------------------------------------------------------------------
(* The requests of the page                                                *)

(* A query has one request under way.  The page opens with it; a button     *)
(* starts it too, and takes no further click until it is answered.          *)
Press ==
  /\ up /\ request = {} /\ request' = Query
  /\ UNCHANGED <<world, up, hub, shown, status, faults>>

(* Its timer (ten seconds) and a focus (five) start it only when what is    *)
(* shown is as old: a push, every three seconds, puts both off again.       *)
Timer == ~Pushed /\ Press

Row(r, p, record) ==
  [r EXCEPT !.left = @ \ {p}, !.missing = @ \ {p},
            !.done = [x \in DOMAIN @ \cup {p} |->
                        IF x = p THEN [worth |-> r.rows[p], record |-> record] ELSE @[x]]]

(* The positions are completed side by side.  One without a record gets one *)
(* that says so, written without a look at what was written meanwhile.      *)
Lookup ==
  /\ \E r \in request, p \in Positions :
       /\ p \in r.left \ r.missing
       /\ request' = IF tracked[p] = "none" THEN {[r EXCEPT !.missing = @ \cup {p}]}
                     ELSE {Row(r, p, tracked[p])}
  /\ UNCHANGED <<world, up, hub, shown, status, faults>>

Reconcile ==
  /\ \E r \in request, p \in Positions :
       /\ p \in r.missing
       /\ tracked' = [tracked EXCEPT ![p] = "external"]
       /\ request' = {Row(r, p, "external")}
  /\ UNCHANGED <<chain, gone, up, hub, shown, status, faults>>

Reply ==
  /\ \E r \in request : r.left = {} /\ shown' = {r.done}
  /\ request' = {}
  /\ UNCHANGED <<world, up, hub, status, faults>>

Answering == Lookup \/ Reconcile \/ Reply

(* Any of them may be lost or refused, and the page keeps what it has; but  *)
(* a chain the bridge cannot read is answered like any other, and the page  *)
(* takes the message for its data: no positions.                            *)
Dropped ==
  /\ request # {} /\ faults < MaxFaults /\ faults' = faults + 1 /\ request' = {}
  /\ UNCHANGED <<world, up, hub, shown, status>>
Unreadable ==
  /\ \E r \in request : r.done = <<>> /\ r.missing = {}
  /\ faults < MaxFaults /\ faults' = faults + 1
  /\ request' = {} /\ shown' = {}
  /\ UNCHANGED <<world, up, hub, status>>

(* The same failure twice is no change of the data, and is counted once:    *)
(* only a failure of another kind makes the page say "offline".             *)
Health ==
  /\ status' \in IF up THEN {"online"} ELSE IF status = "online" THEN {"degraded"} ELSE {"degraded", "offline"}
  /\ UNCHANGED <<world, up, hub, request, shown, faults>>

(* A button of a row: refused when offline, and refetched when done.        *)
Close ==
  /\ up /\ status = "online"
  /\ \E s \in shown : \E p \in DOMAIN s \cap Held :
       Remove(p) /\ tracked' = [tracked EXCEPT ![p] = "closed"]
  /\ request' = Query
  /\ UNCHANGED <<up, hub, shown, status, faults>>

Next ==
  \/ Deploy \/ (\E p \in Positions : Hook(p)) \/ Market \/ Withdrawn \/ Finalise
  \/ Refresh \/ Stop \/ Start \/ Connect \/ Push \/ Break
  \/ Press \/ Timer \/ Answering \/ Dropped \/ Unreadable
  \/ Health \/ Close

(* Timers, the process manager, and answers once nothing is lost any more.  *)
Spec ==
  /\ Init /\ [][Next]_vars
  /\ WF_vars(Start) /\ WF_vars(Refresh) /\ WF_vars(Finalise) /\ WF_vars(Push)
  /\ WF_vars(Timer) /\ WF_vars(Answering) /\ WF_vars(Health)

---------------------------------------------------------------------------
(* Property                                                                *)

(* When the positions have come to rest the page shows each of them, no     *)
(* other, as it is and with its record; or else it is pushed on and on, and *)
(* shows at least each of them with what it is worth, so that a record may  *)
(* lack and a closed one stay until someone asks.  What it once shows in    *)
(* full the pushes do not take away (useLiveEvents.ts:7-12): it does not go *)
(* from one to the other for ever, whatever was lost or restarted.          *)
True    == [p \in Held |-> [worth |-> chain[p], record |-> tracked[p]]]
Settled == shown = {True} /\ status = "online"
Covered == \A p \in Held : \E s \in shown : p \in DOMAIN s /\ s[p].worth = chain[p]
Partial == Pushed /\ Covered /\ ~Settled /\ status = "online"
PageCatchesUp == <>[]Settled \/ <>[]Partial
=============================================================================
