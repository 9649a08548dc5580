---------------------------- MODULE FollowCycle ----------------------------
(***************************************************************************)
(* Follow-the-wallet: the tick of src/src/app/follow/cycle.ts over the     *)
(* state file of src/src/adapters/persistence/json/follow-repo.ts, the     *)
(* followed wallets it polls, our own positions on chain, and the operator *)
(* commands, the screener and the crashes that run between its awaits.     *)
(*                                                                         *)
(* Every action of the tick ends where the code awaits something another   *)
(* actor can change.  A mutation of the state file (a read, a change and a *)
(* write) is one step here.                                                *)
(***************************************************************************)
EXTENDS FollowRules

CONSTANTS
  Wallets,         \* wallets that can be followed
  Pools,
  MaxPositions,    \* risk.maxPositions
  MaxMirrored,     \* follow.maxMirrored
  MaxRecords,      \* MAX_MIRRORED_RECORDS of follow-wallet.ts
  MirrorRecenter,  \* follow.mirrorRecenter
  Faults,          \* what the surroundings may do, see FaultKinds
  Edits,           \* which operator commands are issued, see EditKinds
  MaxEntries,      \* bound: positions the followed wallets ever open
  MaxDeploys,      \* bound: positions we ever open
  MaxEdits,        \* bound: operator commands
  MaxAborts        \* bound: ticks cut short

FaultKinds ==
  {"degraded_poll",   \* the pool list of a wallet can be truncated
   "degraded_seed",   \* ... on the very first poll of the wallet too
   "read_lag",        \* the RPC can omit a position deployed moments ago
   "partial_write",   \* a write can take effect on chain and still report failure
   "file_read",       \* a read of the state file can fail
   "gate_read",       \* the chain read of the position gate can fail
   "edit_mid_tick",   \* operator commands arrive while a tick runs
   "outside_close",   \* a position is closed from outside the follow cycle
   "screener"}        \* the screening agent deploys too

EditKinds == {"add", "re_add", "remove", "enable", "disable", "switch"}

ASSUME CapAssumption ==
  MaxPositions \in Nat /\ MaxMirrored \in Nat /\ MaxRecords \in Nat
ASSUME SwitchAssumption ==
  MirrorRecenter \in BOOLEAN /\ Faults \subseteq FaultKinds /\ Edits \subseteq EditKinds
ASSUME BoundAssumption ==
  MaxEntries \in Nat /\ MaxDeploys \in Nat /\ MaxEdits \in Nat /\ MaxAborts \in Nat
ASSUME FiniteAssumption == IsFiniteSet(Pools) /\ IsFiniteSet(Wallets)

VARIABLES
  file,          \* follow-state.json
  follow,        \* config follow.enabled
  held,          \* the position each wallet has in each pool, 0 if none
  entries,       \* followed-wallet positions opened so far
  live,          \* our positions on chain
  fresh,         \* ours the RPC may not serve yet, still in their grace window
  deploys,       \* positions we opened so far
  screening,     \* pools whose screener deploy has passed its gate
  \* ---- the locals of the running tick; a nullable one is a set of at most one ----
  pc, phase, on, listed, ours, mirrorCount, todo,
  snap, work, opens, withheld, nextSeen, target,
  \* ---- history, read by properties only ----
  backlog,       \* per wallet, the positions it held when it was (re)followed
  failed,        \* followed-wallet positions whose mirror deploy failed: in the
                 \* round under way, and in the rounds that saved their baseline
  \* ---- bounds ----
  edits, aborts

tick    == <<pc, phase, on, listed, ours, mirrorCount, todo,
             snap, work, opens, withheld, nextSeen, target>>
chain   == <<live, fresh, deploys>>
sources == <<held, entries>>
bounds  == <<edits, aborts>>
vars    == <<file, follow, sources, chain, screening, tick, backlog, failed, bounds>>

(* Everything outside the tick except what is named. *)
others  == <<follow, sources, screening, backlog, bounds>>

Mirror   == [position: Nat, pool: Pools, wallet: Wallets, source: Nat, open: BOOLEAN]
Position == [position: Nat, pool: Pools]
Snapshot == [wallet: Wallets, pools: SUBSET Pools, reliable: BOOLEAN]
Status   == {"absent", "enabled", "disabled"}
File     == [wallets: [Wallets -> Status], seen: [Wallets -> SUBSET Pools],
             seeded: SUBSET Wallets, mirrored: SUBSET Mirror]

---------------------------------------------------------------------------
(* follow-state.json                                                       *)

EmptyFile == [wallets  |-> [w \in Wallets |-> "absent"],
              seen     |-> [w \in Wallets |-> {}],
              seeded   |-> {},
              mirrored |-> {}]

(* The list and get methods of the repo answer a failed read as an empty   *)
(* file would, and a mutation that cannot read starts from an empty file.  *)
Reads == {file} \cup (IF "file_read" \in Faults THEN {EmptyFile} ELSE {})

OpenMirrors(f) == {m \in f.mirrored : m.open}
Enabled(f) == {w \in Wallets : f.wallets[w] = "enabled"}

(* getSeen: null until the wallet has been seeded. *)
Seen(f, w) == IF w \in f.seeded THEN {f.seen[w]} ELSE {}

SetSeen(f, w, pools) == [f EXCEPT !.seen[w] = pools, !.seeded = @ \cup {w}]
ForgetPoolsOnly(f, w) == [f EXCEPT !.seen[w] = {}]           \* mutant: stays seeded
Forget(f, w) == [f EXCEPT !.seen[w] = {}, !.seeded = @ \ {w}]

(* updateMirrored: closes the record of a position, if there is one. *)
MarkClosed(records, gone) ==
  {IF m \in gone THEN [m EXCEPT !.open = FALSE] ELSE m : m \in records}
CloseRecord(f, id) ==
  [f EXCEPT !.mirrored = MarkClosed(@, {m \in @ : m.position = id})]

(* addMirrored: insert, then drop the oldest closed records past the cap.  *)
Oldest(records, n) ==
  {m \in records : Cardinality({k \in records : k.position < m.position}) < n}
PruneAny(records) ==                                         \* mutant: open ones too
  records \ Oldest(records, Cardinality(records) - MaxRecords)
Prune(records) ==
  records \ Oldest({m \in records : ~m.open}, Cardinality(records) - MaxRecords)
AddMirrored(f, m) ==
  [f EXCEPT !.mirrored = Prune({k \in @ : k.position # m.position} \cup {m})]

---------------------------------------------------------------------------
(* What the tick reads of the world                                        *)

HeldPools(w) == {p \in Pools : held[w][p] # 0}

(* getOpenPools: a truncated list can hide a pool, never invent one. *)
Snapshots(w) ==
  {[wallet |-> w, pools |-> HeldPools(w), reliable |-> TRUE]} \cup
  (IF "degraded_poll" \in Faults /\ (w \in file.seeded \/ "degraded_seed" \in Faults)
   THEN {[wallet |-> w, pools |-> P, reliable |-> FALSE] : P \in SUBSET HeldPools(w)}
   ELSE {})

(* getPositionsInPool, when the read succeeds. *)
PositionsInPool(w, p) ==
  {[position |-> {s}, lower |-> {}] : s \in {held[w][p]} \ {0}}

(* getMyPositions({force}): may lag behind a fresh deploy. *)
ChainViews == {V \in SUBSET live : \A x \in live \ V : x.position \in fresh}

Ids(positions) == {x.position : x \in positions}
PoolsOf(positions) == {x.pool : x \in positions}

(* dropOnePool: one occurrence only, two of our positions can share a pool. *)
DropOnePool(positions, p) ==
  IF p \in PoolsOf(positions)
  THEN positions \ {CHOOSE x \in positions : x.pool = p}
  ELSE positions

---------------------------------------------------------------------------
(* The tick: runFollowCycle                                                *)

(* The daemon starts on a file whose wallets have never been polled.        *)
Init ==
  /\ file \in {[EmptyFile EXCEPT !.wallets = ws] : ws \in [Wallets -> Status]}
  /\ follow \in BOOLEAN
  /\ held = [w \in Wallets |-> [p \in Pools |-> 0]] /\ entries = 0
  /\ live = {} /\ fresh = {} /\ deploys = 0 /\ screening = {}
  /\ pc = "idle" /\ phase = "none" /\ on = FALSE /\ listed = EmptyFile.wallets
  /\ ours = {} /\ mirrorCount = 0 /\ todo = {} /\ snap = {} /\ work = {}
  /\ opens = {} /\ withheld = {} /\ nextSeen = {} /\ target = {}
  /\ backlog = [w \in Wallets |-> {}] /\ failed = [now |-> {}, saved |-> {}]
  /\ edits = 0 /\ aborts = 0

(* The tick returns, or is cut short: its locals are gone. *)
EndTick ==
  /\ pc' = "idle" /\ phase' = "none" /\ on' = FALSE /\ listed' = EmptyFile.wallets
  /\ ours' = {} /\ mirrorCount' = 0 /\ todo' = {} /\ snap' = {} /\ work' = {}
  /\ opens' = {} /\ withheld' = {} /\ nextSeen' = {} /\ target' = {}

(* A tick with nothing to drain and nothing to poll leaves at once, as does *)
(* one that cannot read the file: neither changes anything, so neither is a *)
(* step here.  The busy flag is pc: a tick starts only when none runs.      *)
StartTick ==
  /\ pc = "idle"
  /\ OpenMirrors(file) # {} \/ (follow /\ Enabled(file) # {})
  /\ on' = follow
  /\ listed' = file.wallets
  /\ todo' = Enabled(file)
  /\ pc' = "chain"
  /\ UNCHANGED <<file, chain, others, failed, phase, ours, mirrorCount, snap, work,
                 opens, withheld, nextSeen, target>>

(* The records the sweep finalises: off the chain and out of the window.    *)
VanishedAnyAge(f, view) ==                                   \* mutant: no grace window
  {m \in OpenMirrors(f) : m.position \notin Ids(view)}
Vanished(f, view) ==
  {m \in OpenMirrors(f) : m.position \notin Ids(view) /\ m.position \notin fresh}

(* Our positions, and the sweep of mirrors whose position is not among them *)
(* and no longer protected by the grace window.                             *)
ReadChain ==
  /\ pc = "chain"
  /\ \E view \in ChainViews, f \in Reads :
       /\ ours' = view
       /\ file' = [file EXCEPT !.mirrored = MarkClosed(@, Vanished(f, view))]
  /\ pc' = "orphans"
  /\ UNCHANGED <<chain, others, failed, phase, on, listed, mirrorCount, todo, snap, work,
                 opens, withheld, nextSeen, target>>

ChainReadFails ==
  /\ pc = "chain"
  /\ EndTick
  /\ UNCHANGED <<file, chain, others, failed>>

(* drainOrphans: who has no followed wallet left, by the wallet list and    *)
(* the switch as they were when the tick began.                             *)
FindOrphans ==
  /\ pc = "orphans"
  /\ \E f \in Reads : work' = Orphaned(on, listed, OpenMirrors(f))
  /\ pc' = "drain"
  /\ UNCHANGED <<file, chain, others, failed, phase, on, listed, ours, mirrorCount, todo,
                 snap, opens, withheld, nextSeen, target>>

(* The first half of mirrorClose: the close is on its way to the chain. *)
StartClose(m, why) ==
  /\ work' = work \ {m}
  /\ target' = {m}
  /\ phase' = why
  /\ pc' = "closing"
  /\ UNCHANGED <<file, chain, others, failed, on, listed, ours, mirrorCount, todo, snap,
                 opens, withheld, nextSeen>>

Drain ==
  /\ pc = "drain"
  /\ \E m \in work : StartClose(m, "drain")

(* Only now is the switch honoured. *)
DrainDone ==
  /\ pc = "drain" /\ work = {}
  /\ IF ~on \/ todo = {}
     THEN EndTick
     ELSE /\ \E f \in Reads : mirrorCount' = Cardinality(OpenMirrors(f))
          /\ pc' = "poll"
          /\ UNCHANGED <<phase, on, listed, ours, todo, snap, work, opens, withheld,
                         nextSeen, target>>
  /\ UNCHANGED <<file, chain, others, failed>>

PollWallet(w) ==
  /\ pc = "poll" /\ w \in todo
  /\ \E s \in Snapshots(w) : snap' = {s}
  /\ todo' = todo \ {w}
  /\ pc' = "baseline"
  /\ UNCHANGED <<file, chain, others, failed, phase, on, listed, ours, mirrorCount, work,
                 opens, withheld, nextSeen, target>>

AllPolled ==
  /\ pc = "poll" /\ todo = {}
  /\ EndTick
  /\ UNCHANGED <<file, chain, others, failed>>

(* getSeen, listOpenMirrored and the diff.  `work' is the mirrors left to   *)
(* look at: those to close, and those to check for a re-center.             *)
DiffWallet ==
  /\ pc = "baseline"
  /\ \E s \in snap, f \in Reads, g \in Reads :
       LET mine == {m \in OpenMirrors(g) : m.wallet = s.wallet}
           diff == DiffFollowedWallet(Seen(f, s.wallet), s, PoolsOf(ours), mine)
           here == {m \in mine : m.pool \in s.pools}
       IN  /\ opens' = diff.opens
           /\ nextSeen' = diff.nextSeen
           /\ work' = diff.closes \cup
                      (IF MirrorRecenter /\ s.reliable /\ ~diff.seedOnly THEN here ELSE {})
           /\ pc' = IF diff.seedOnly THEN "save" ELSE "mirrors"
  /\ UNCHANGED <<file, chain, others, failed, phase, on, listed, ours, mirrorCount, todo,
                 snap, withheld, target>>

(* The re-center check of one mirror whose wallet is still in the pool.     *)
CheckRecenter ==
  /\ pc = "mirrors"
  /\ \E s \in snap, m \in work :
       /\ m.pool \in s.pools
       /\ DetectRecenter([position |-> {m.source}, lower |-> {}],
                         PositionsInPool(m.wallet, m.pool), 0)
       /\ StartClose(m, "recenter")

(* It has not moved, or the read of its positions failed. *)
KeepMirror ==
  /\ pc = "mirrors"
  /\ \E s \in snap, m \in work :
       /\ m.pool \in s.pools
       /\ work' = work \ {m}
  /\ UNCHANGED <<file, chain, others, failed, pc, phase, on, listed, ours, mirrorCount,
                 todo, snap, opens, withheld, nextSeen, target>>

MirrorExit ==
  /\ pc = "mirrors"
  /\ \E s \in snap, m \in work :
       /\ \A k \in work : k.pool \notin s.pools
       /\ StartClose(m, "exit")

MirrorsDone ==
  /\ pc = "mirrors" /\ work = {}
  /\ pc' = "opens"
  /\ UNCHANGED <<file, chain, others, failed, phase, on, listed, ours, mirrorCount, todo,
                 snap, work, opens, withheld, nextSeen, target>>

---------------------------------------------------------------------------
(* mirrorClose, from the write on                                          *)

AfterClose == IF phase = "drain" THEN "drain" ELSE "mirrors"

(* The position is gone from the chain, or was already: the simulated chain *)
(* answers an unknown position with success = false, which reads as closed. *)
CloseLands ==
  /\ pc = "closing"
  /\ \E m \in target :
       /\ live' = {x \in live : x.position # m.position}
       /\ fresh' = fresh \ {m.position}
  /\ pc' = "closed"
  /\ UNCHANGED <<file, deploys, others, failed, phase, on, listed, ours, mirrorCount, todo,
                 snap, work, opens, withheld, nextSeen, target>>

(* The record stays open, whatever became of the position. *)
CloseFails ==
  /\ pc = "closing"
  /\ \E m \in target :
       \/ UNCHANGED chain
       \/ /\ "partial_write" \in Faults
          /\ live' = {x \in live : x.position # m.position}
          /\ fresh' = fresh \ {m.position}
          /\ deploys' = deploys
  /\ target' = {}
  /\ phase' = "none"
  /\ pc' = AfterClose
  /\ UNCHANGED <<file, others, failed, on, listed, ours, mirrorCount, todo, snap, work,
                 opens, withheld, nextSeen>>

(* updateMirrored, and what the caller does on success: the drain drops the *)
(* position itself from the count, the others one entry of its pool.        *)
RecordClose ==
  /\ pc = "closed"
  /\ \E m \in target, f \in Reads :
       /\ file' = IF m.position \in Ids(f.mirrored) THEN CloseRecord(f, m.position) ELSE file
       /\ ours' = IF phase = "drain" THEN {x \in ours : x.position # m.position}
                  ELSE DropOnePool(ours, m.pool)
       /\ mirrorCount' = IF phase = "drain" THEN mirrorCount ELSE mirrorCount - 1
       /\ withheld' = IF phase = "recenter" THEN withheld \cup {m.pool} ELSE withheld
  /\ target' = {}
  /\ phase' = "none"
  /\ pc' = AfterClose
  /\ UNCHANGED <<chain, others, failed, on, listed, todo, snap, work, opens, nextSeen>>

---------------------------------------------------------------------------
(* Opening: mirrorCapacity, mirrorOpen and the follow_deploy_position tool *)

HasSlot == MirrorSlots(Cardinality(ours), MaxPositions, mirrorCount, MaxMirrored) > 0

(* What an attempt on pool p keeps out of the next baseline: a read that    *)
(* failed before any write is tried again, nothing else is.                 *)
HeldBackOnFailure(outcome, p) == IF outcome = "capped" THEN {} ELSE {p}   \* mutant
HeldBack(outcome, p) == IF outcome = "retry" THEN {p} ELSE {}

(* An entry that ends before any write: no slot, a read that failed, or a   *)
(* decision not to copy it.                                                 *)
SkipOpen(p) ==
  /\ pc = "opens" /\ p \in opens
  /\ opens' = opens \ {p}
  /\ \E outcome \in IF HasSlot THEN {"abandoned", "retry"} ELSE {"capped"} :
       withheld' = withheld \cup HeldBack(outcome, p)
  /\ UNCHANGED <<file, chain, others, failed, pc, phase, on, listed, ours, mirrorCount,
                 todo, snap, work, nextSeen, target>>

(* Their position was read and the mirror was sized. *)
PlanOpen(p) ==
  /\ pc = "opens" /\ p \in opens /\ HasSlot
  /\ opens' = opens \ {p}
  /\ \E s \in snap : \E theirs \in PositionsInPool(s.wallet, p) : \E id \in theirs.position :
       target' = {[position |-> 0, pool |-> p, wallet |-> s.wallet, source |-> id,
                   open |-> TRUE]}
  /\ pc' = "gate"
  /\ UNCHANGED <<file, chain, others, failed, phase, on, listed, ours, mirrorCount, todo,
                 snap, work, withheld, nextSeen>>

(* maxPositionsGate: it reads the chain again, bypassing the cache. *)
GateAllowsOneMore(view) == Cardinality(view) <= MaxPositions  \* mutant
GateAllows(view) == Cardinality(view) < MaxPositions

PassGate ==
  /\ pc = "gate"
  /\ \E view \in ChainViews : GateAllows(view)
  /\ pc' = "deploy"
  /\ UNCHANGED <<file, chain, others, failed, phase, on, listed, ours, mirrorCount, todo,
                 snap, work, opens, withheld, nextSeen, target>>

(* The wallet balance gate, or a full book. *)
RefuseGate ==
  /\ pc = "gate"
  /\ target' = {}
  /\ pc' = "opens"
  /\ UNCHANGED <<file, chain, others, failed, phase, on, listed, ours, mirrorCount, todo,
                 snap, work, opens, withheld, nextSeen>>

(* A tick cut short forgets the failures of its round with its other locals. *)
RoundLost == failed' = [failed EXCEPT !.now = {}]

(* The gate's read of the chain fails.  Neither the gate nor executeTool nor *)
(* mirrorOpen catches it: it ends the whole tick, the baseline unsaved.      *)
GateThrows ==
  /\ "gate_read" \in Faults
  /\ pc = "gate"
  /\ EndTick /\ RoundLost
  /\ UNCHANGED <<file, chain, others>>

(* A position of ours appears on chain. *)
OpenOnChain(p) ==
  /\ deploys < MaxDeploys
  /\ deploys' = deploys + 1
  /\ live' = live \cup {[position |-> deploys + 1, pool |-> p]}
  /\ fresh' = IF "read_lag" \in Faults THEN fresh \cup {deploys + 1} ELSE fresh

DeployLands ==
  /\ pc = "deploy"
  /\ \E m \in target :
       /\ OpenOnChain(m.pool)
       /\ target' = {[m EXCEPT !.position = deploys + 1]}
  /\ pc' = "opened"
  /\ UNCHANGED <<file, others, failed, phase, on, listed, ours, mirrorCount, todo, snap,
                 work, opens, withheld, nextSeen>>

(* Reported as failed; the position may be there all the same. *)
DeployFails ==
  /\ pc = "deploy"
  /\ \E m \in target :
       /\ \/ UNCHANGED chain
          \/ "partial_write" \in Faults /\ OpenOnChain(m.pool)
       /\ failed' = [failed EXCEPT !.now = @ \cup {m.source}]
       /\ withheld' = withheld \cup HeldBack("abandoned", m.pool)
  /\ target' = {}
  /\ pc' = "opens"
  /\ UNCHANGED <<file, others, phase, on, listed, ours, mirrorCount, todo, snap, work,
                 opens, nextSeen>>

(* addMirrored, after the entry technicals have been fetched. *)
RecordOpen ==
  /\ pc = "opened"
  /\ \E m \in target, f \in Reads :
       /\ file' = AddMirrored(f, m)
       /\ ours' = ours \cup {[position |-> m.position, pool |-> m.pool]}
  /\ mirrorCount' = mirrorCount + 1
  /\ target' = {}
  /\ pc' = "opens"
  /\ UNCHANGED <<chain, others, failed, phase, on, listed, todo, snap, work, opens,
                 withheld, nextSeen>>

OpensDone ==
  /\ pc = "opens" /\ opens = {}
  /\ pc' = "save"
  /\ UNCHANGED <<file, chain, others, failed, phase, on, listed, ours, mirrorCount, todo,
                 snap, work, opens, withheld, nextSeen, target>>

(* setSeen: the baseline advances, but for the pools held back. *)
SaveBaseline ==
  /\ pc = "save"
  /\ \E s \in snap, f \in Reads :
       IF nextSeen = {} THEN RoundLost /\ UNCHANGED file
       ELSE /\ file' = SetSeen(f, s.wallet, (UNION nextSeen) \ withheld)
            /\ failed' = [now |-> {}, saved |-> failed.saved \cup failed.now]
  /\ snap' = {} /\ withheld' = {} /\ nextSeen' = {}
  /\ pc' = "poll"
  /\ UNCHANGED <<chain, others, phase, on, listed, ours, mirrorCount, todo, work, opens,
                 target>>

(* The cycle throws, or the process dies and starts again. *)
Abort ==
  /\ pc # "idle" /\ aborts < MaxAborts
  /\ aborts' = aborts + 1
  /\ EndTick /\ RoundLost
  /\ UNCHANGED <<file, chain, follow, sources, screening, backlog, edits>>

TickStep ==
  \/ StartTick \/ ReadChain \/ ChainReadFails
  \/ FindOrphans \/ Drain \/ DrainDone
  \/ \E w \in Wallets : PollWallet(w)
  \/ AllPolled \/ DiffWallet
  \/ CheckRecenter \/ KeepMirror \/ MirrorExit \/ MirrorsDone
  \/ CloseLands \/ CloseFails \/ RecordClose
  \/ \E p \in Pools : SkipOpen(p) \/ PlanOpen(p)
  \/ PassGate \/ RefuseGate \/ GateThrows
  \/ DeployLands \/ DeployFails \/ RecordOpen
  \/ OpensDone \/ SaveBaseline

---------------------------------------------------------------------------
(* The followed wallets, the chain and the other writers of it             *)

(* A followed wallet opens a position; each has an address of its own. *)
SourceEnter(w, p) ==
  /\ held[w][p] = 0 /\ entries < MaxEntries
  /\ entries' = entries + 1
  /\ held' = [held EXCEPT ![w][p] = entries + 1]
  /\ UNCHANGED <<file, follow, chain, screening, tick, backlog, failed, bounds>>

SourceExit(w, p) ==
  /\ held[w][p] # 0
  /\ held' = [held EXCEPT ![w][p] = 0]
  /\ UNCHANGED <<file, follow, entries, chain, screening, tick, backlog, failed, bounds>>

(* The RPC serves the position and its grace window has passed. *)
Settle(id) ==
  /\ id \in fresh
  /\ fresh' = fresh \ {id}
  /\ UNCHANGED <<file, follow, sources, live, deploys, screening, tick, backlog, failed,
                 bounds>>

(* Closed by hand, by a Telegram command or by the local exit rules. *)
OutsideClose(x) ==
  /\ "outside_close" \in Faults
  /\ x \in live
  /\ live' = live \ {x}
  /\ fresh' = fresh \ {x.position}
  /\ UNCHANGED <<file, follow, sources, deploys, screening, tick, backlog, failed, bounds>>

(* deploy_position of the screening agent: the same gate, then its write. *)
ScreenerGate(p) ==
  /\ "screener" \in Faults
  /\ \E view \in ChainViews : GateAllows(view)
  /\ p \notin screening
  /\ screening' = screening \cup {p}
  /\ UNCHANGED <<file, follow, sources, chain, tick, backlog, failed, bounds>>

ScreenerDeploy(p) ==
  /\ p \in screening
  /\ screening' = screening \ {p}
  /\ OpenOnChain(p)
  /\ UNCHANGED <<file, follow, sources, tick, backlog, failed, bounds>>

---------------------------------------------------------------------------
(* Operator commands: the follow-wallet tools and update_config            *)

Command(kind) ==
  /\ kind \in Edits /\ edits < MaxEdits
  /\ pc = "idle" \/ "edit_mid_tick" \in Faults
  /\ edits' = edits + 1
  /\ UNCHANGED <<sources, chain, screening, tick, failed, aborts>>

(* What a wallet that is followed from now on already holds; where a mirror *)
(* of it is still open there is nothing to back-fill, it just goes on.      *)
Backlog(ws) ==
  LET Mirrored(w) == {m.pool : m \in {k \in OpenMirrors(file) : k.wallet = w}}
  IN  [w \in Wallets |->
        IF w \in ws THEN backlog[w] \cup {held[w][p] : p \in HeldPools(w) \ Mirrored(w)}
        ELSE backlog[w]]

(* add_follow_wallet upserts: on a wallet already listed it sets the switch *)
(* and leaves its baseline alone.                                           *)
AddWallet(w) ==
  /\ Command(IF file.wallets[w] = "absent" THEN "add" ELSE "re_add")
  /\ \E f \in Reads, status \in {"enabled", "disabled"} :
       /\ file' = [f EXCEPT !.wallets[w] = status]
       /\ backlog' = IF status = "disabled" \/ file.wallets[w] = "enabled"
                     THEN backlog ELSE Backlog({w})
  /\ UNCHANGED follow

RemoveWallet(w) ==
  /\ Command("remove")
  /\ file.wallets[w] # "absent"
  /\ file' = Forget([file EXCEPT !.wallets[w] = "absent"], w)
  /\ UNCHANGED <<follow, backlog>>

EnableWallet(w) ==
  /\ Command("enable")
  /\ file.wallets[w] # "absent"
  /\ file' = Forget([file EXCEPT !.wallets[w] = "enabled"], w)
  /\ backlog' = IF file.wallets[w] = "enabled" THEN backlog ELSE Backlog({w})
  /\ UNCHANGED follow

DisableWallet(w) ==
  /\ Command("disable")
  /\ file.wallets[w] # "absent"
  /\ file' = [file EXCEPT !.wallets[w] = "disabled"]
  /\ UNCHANGED <<follow, backlog>>

(* follow.enabled, changed in the live configuration. *)
SwitchFollow ==
  /\ Command("switch")
  /\ follow' = ~follow
  /\ backlog' = IF follow THEN backlog ELSE Backlog(Enabled(file))
  /\ UNCHANGED file

Surroundings ==
  \/ \E w \in Wallets, p \in Pools : SourceEnter(w, p) \/ SourceExit(w, p)
  \/ \E id \in fresh : Settle(id)
  \/ \E x \in live : OutsideClose(x)
  \/ \E p \in Pools : ScreenerGate(p) \/ ScreenerDeploy(p)
  \/ \E w \in Wallets :
       AddWallet(w) \/ RemoveWallet(w) \/ EnableWallet(w) \/ DisableWallet(w)
  \/ SwitchFollow

Next == TickStep \/ Abort \/ Surroundings

Spec == Init /\ [][Next]_vars

(* The scheduler fires the tick again and again and a tick runs to its end; *)
(* the services it depends on fail, but not for ever.  Nothing is promised  *)
(* of the followed wallets, the operator or the other writers.              *)
PollReliably(w) == PollWallet(w) /\ \E s \in snap' : s.reliable

Fairness ==
  /\ WF_vars(TickStep)
  /\ SF_vars(ReadChain)
  /\ \A w \in Wallets : SF_vars(PollReliably(w))
  /\ SF_vars(CheckRecenter)
  /\ SF_vars(CloseLands)

FairSpec == Spec /\ Fairness

---------------------------------------------------------------------------
(* Properties                                                              *)

TypeOK ==
  /\ file \in File /\ IsFiniteSet(file.mirrored)
  /\ follow \in BOOLEAN
  /\ held \in [Wallets -> [Pools -> Nat]] /\ entries \in Nat
  /\ live \in SUBSET Position /\ fresh \in SUBSET Nat /\ deploys \in Nat
  /\ screening \in SUBSET Pools
  /\ pc \in {"idle", "chain", "orphans", "drain", "poll", "baseline", "mirrors", "opens",
             "closing", "closed", "gate", "deploy", "opened", "save"}
  /\ phase \in {"none", "drain", "recenter", "exit"}
  /\ on \in BOOLEAN /\ listed \in [Wallets -> Status]
  /\ ours \in SUBSET Position /\ mirrorCount \in Int
  /\ todo \in SUBSET Wallets /\ snap \in SUBSET Snapshot
  /\ work \in SUBSET Mirror /\ target \in SUBSET Mirror
  /\ opens \in SUBSET Pools /\ withheld \in SUBSET Pools
  /\ nextSeen \in SUBSET (SUBSET Pools)
  /\ backlog \in [Wallets -> SUBSET Nat]
  /\ failed \in [now: SUBSET Nat, saved: SUBSET Nat]
  /\ edits \in Nat /\ aborts \in Nat

(* A mirror is sent to be closed only when the position it copied is gone   *)
(* (cycle.ts 300-360: an exit, or a re-center) or, in the drain, when its   *)
(* wallet was not followed as the tick began: never on a missing read.      *)
CloseIsJustified ==
  pc = "closing" =>
    \A m \in target :
      IF phase = "drain" THEN ~on \/ listed[m.wallet] # "enabled"
      ELSE held[m.wallet][m.pool] # m.source

(* A record is finalised only once its position is off the chain: neither   *)
(* mirrorClose nor the reconcile sweep (cycle.ts 95-224) writes off a       *)
(* position that is still open, which nothing would then ever close.        *)
ClosedMeansGone ==
  \A m \in file.mirrored : m.open \/ m.position \notin Ids(live)

(* Follow holds at most follow.maxMirrored mirrors (mirrorCapacity), though *)
(* the followed wallets share the budget and deploys and closes fail        *)
(* half-way.                                                                *)
MirrorCap == Cardinality(OpenMirrors(file)) <= MaxMirrored

(* Our positions never exceed risk.maxPositions (maxPositionsGate).         *)
PortfolioCap == Cardinality(live) <= MaxPositions

(* A mirror never goes into a pool we already have a position in: that      *)
(* "would double the exposure" (follow-diff.ts 83-86).                      *)
NoDoubleExposure ==
  [][pc = "deploy" /\ pc' = "opened" => \A m \in target : m.pool \notin PoolsOf(live)]_vars

(* Only entries made while the wallet is followed are mirrored: what it     *)
(* held when it was added, enabled or switched on is never back-filled.     *)
NoBackfill ==
  [][pc = "deploy" /\ pc' = "opened" => \A m \in target : m.source \notin backlog[m.wallet]]_vars

(* A mirror whose deploy failed at the write, which may have partially      *)
(* landed, is not attempted again by that tick, nor ever after once the     *)
(* tick has saved the baseline of its wallet (cycle.ts 394-409).  A tick    *)
(* that ends before it (a throw at the gate, a restart), or that polled a   *)
(* truncated list, saves none and forgets the failure.                      *)
FailedWriteNotRetried ==
  [][pc = "gate" /\ pc' = "deploy" =>
       \A m \in target : m.source \notin failed.now \cup failed.saved]_vars

(* The record of an open mirror is never dropped from the file, whatever    *)
(* is pruned or rewritten (follow-repo.ts 120-139).                         *)
KeepsOpenRecords == \A m \in OpenMirrors(file) : m.position \in Ids(file'.mirrored)
OpenMirrorKept == [][KeepsOpenRecords]_vars

(* An open mirror with nothing left to follow: the copied position is gone, *)
(* or its wallet is no longer polled.                                       *)
Stranded(id) ==
  \E m \in OpenMirrors(file) :
    /\ m.position = id
    /\ held[m.wallet][m.pool] # m.source \/ ~follow \/ file.wallets[m.wallet] # "enabled"

(* Such a mirror never stays open for ever (diff closes, re-center, drain   *)
(* and reconcile together), though polls, reads and closes fail on the way. *)
StrandedMirrorResolved == \A id \in 1..MaxDeploys : Stranded(id) ~> ~Stranded(id)
=============================================================================
