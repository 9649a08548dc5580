------------------------- MODULE FollowCycleProofs -------------------------
(***************************************************************************)
(* What holds of the follow tick for all wallets, pools, caps and faults:  *)
(* typing, the safety of closing and of the record file, the caps, and how  *)
(* large and how wide a mirror is.                                         *)
(***************************************************************************)
EXTENDS FollowCycle, MirrorSizing, FiniteSetTheorems, TLAPS

---------------------------------------------------------------------------
(* Typing of the file operations                                           *)

(* Every read of the file yields a well-formed file. *)
LEMMA ReadsType ==
  ASSUME TypeOK, NEW f \in Reads
  PROVE  f \in File /\ IsFiniteSet(f.mirrored)
<1>1. EmptyFile \in File
  BY DEF EmptyFile, File, Status
<1>2. EmptyFile.mirrored = {}
  BY DEF EmptyFile
<1>3. f = file \/ f = EmptyFile
  BY DEF Reads
<1> QED BY <1>1, <1>2, <1>3, FS_EmptySet DEF TypeOK

(* Closing some of the records keeps the record list well formed. *)
LEMMA MarkClosedType ==
  ASSUME NEW R \in SUBSET Mirror, IsFiniteSet(R), NEW gone
  PROVE  MarkClosed(R, gone) \in SUBSET Mirror /\ IsFiniteSet(MarkClosed(R, gone))
<1> DEFINE close == [m \in R |-> IF m \in gone THEN [m EXCEPT !.open = FALSE] ELSE m]
           T == MarkClosed(R, gone)
<1>1. T \in SUBSET Mirror
  BY DEF MarkClosed, Mirror
<1>2. close \in Surjection(R, T)
  BY DEF MarkClosed, Surjection
<1>3. IsFiniteSet(T)
  BY <1>2, FS_Surjection
<1> QED BY <1>1, <1>3

(* So does inserting one and pruning. *)
LEMMA AddMirroredType ==
  ASSUME NEW f \in File, IsFiniteSet(f.mirrored), NEW m \in Mirror
  PROVE  AddMirrored(f, m) \in File /\ IsFiniteSet(AddMirrored(f, m).mirrored)
<1> DEFINE kept == {k \in f.mirrored : k.position # m.position}
<1>1. IsFiniteSet(kept)
  BY FS_Subset
<1>2. IsFiniteSet(kept \cup {m})
  BY <1>1, FS_AddElement
<1>3. Prune(kept \cup {m}) \in SUBSET (kept \cup {m})
  BY DEF Prune
<1>4. IsFiniteSet(Prune(kept \cup {m}))
  BY <1>2, <1>3, FS_Subset
<1>5. kept \cup {m} \in SUBSET Mirror
  BY DEF File
<1>6. AddMirrored(f, m) = [f EXCEPT !.mirrored = Prune(kept \cup {m})]
  BY DEF AddMirrored
<1> HIDE DEF kept
<1> QED BY <1>3, <1>4, <1>5, <1>6 DEF File

(* What the diff returns, for a file and a snapshot that are well formed. *)
LEMMA DiffType ==
  ASSUME NEW seen \in SUBSET (SUBSET Pools), NEW s \in Snapshot,
         NEW P \in SUBSET Pools, NEW M \in SUBSET Mirror
  PROVE  LET d == DiffFollowedWallet(seen, s, P, M)
         IN  /\ d.opens \in SUBSET Pools /\ d.closes \in SUBSET M
             /\ d.nextSeen \in SUBSET (SUBSET Pools)
             /\ \A m \in d.closes : s.reliable /\ m.pool \notin s.pools
  BY DEF DiffFollowedWallet, Snapshot

LEMMA PositionsType ==
  ASSUME NEW P \in SUBSET Position, NEW p
  PROVE  DropOnePool(P, p) \in SUBSET Position /\ PoolsOf(P) \in SUBSET Pools
  BY DEF DropOnePool, PoolsOf, Position

(* Opening a position of ours, by whichever deployer. *)
LEMMA OpenOnChainType ==
  ASSUME TypeOK, NEW p \in Pools, OpenOnChain(p)
  PROVE  /\ live' \in SUBSET Position /\ fresh' \in SUBSET Nat /\ deploys' \in Nat
         /\ deploys' = deploys + 1
  BY DEF TypeOK, OpenOnChain, Position

(* A tick that ends leaves well-typed locals. *)
LEMMA EndTickType ==
  ASSUME EndTick
  PROVE  /\ pc' = "idle" /\ phase' = "none" /\ on' \in BOOLEAN
         /\ listed' \in [Wallets -> Status]
         /\ ours' = {} /\ mirrorCount' \in Int /\ todo' = {} /\ snap' = {} /\ work' = {}
         /\ opens' = {} /\ withheld' = {} /\ nextSeen' = {} /\ target' = {}
<1>1. EmptyFile.wallets \in [Wallets -> Status]
  BY DEF EmptyFile, Status
<1>2. listed' \in [Wallets -> Status] /\ on' \in BOOLEAN
  BY <1>1, Zenon DEF EndTick
<1>3. mirrorCount' \in Int
  BY DEF EndTick
<1> QED BY <1>2, <1>3, Zenon DEF EndTick

---------------------------------------------------------------------------
(* Type correctness, one step per action of the tick and of its            *)
(* surroundings                                                            *)

LEMMA TypeInit == ASSUME Init PROVE TypeOK
<1>1. EmptyFile \in File /\ EmptyFile.mirrored = {} /\ EmptyFile.wallets \in [Wallets -> Status]
  BY DEF EmptyFile, File, Status
<1>2. PICK ws \in [Wallets -> Status] : file = [EmptyFile EXCEPT !.wallets = ws]
  BY DEF Init
<1>3. file \in File /\ file.mirrored = {}
  BY <1>1, <1>2 DEF File
<1>4. IsFiniteSet(file.mirrored)
  BY <1>3, FS_EmptySet
<1>5. held \in [Wallets -> [Pools -> Nat]] /\ backlog \in [Wallets -> SUBSET Nat]
  BY DEF Init
<1>6. /\ pc = "idle" /\ phase = "none" /\ on \in BOOLEAN /\ follow \in BOOLEAN
      /\ listed \in [Wallets -> Status]
  BY <1>1 DEF Init
<1>7. /\ ours = {} /\ mirrorCount = 0 /\ todo = {} /\ snap = {} /\ work = {} /\ opens = {}
      /\ withheld = {} /\ nextSeen = {} /\ target = {} /\ live = {}
      /\ failed = [now |-> {}, saved |-> {}]
      /\ fresh = {} /\ screening = {} /\ deploys = 0 /\ entries = 0 /\ edits = 0 /\ aborts = 0
  BY DEF Init
<1> QED BY <1>3, <1>4, <1>5, <1>6, <1>7 DEF TypeOK

LEMMA TypeTick == ASSUME TypeOK, TickStep PROVE TypeOK'
<1> USE DEF TypeOK, chain, others, sources, bounds
<1>1. CASE StartTick
  BY <1>1 DEF StartTick, Enabled, File, Status
<1>2. CASE ReadChain
  <2>1. PICK view \in ChainViews, f \in Reads :
          ours' = view /\ file' = [file EXCEPT !.mirrored = MarkClosed(@, Vanished(f, view))]
    BY <1>2 DEF ReadChain
  <2>2. MarkClosed(file.mirrored, Vanished(f, view)) \in SUBSET Mirror
        /\ IsFiniteSet(MarkClosed(file.mirrored, Vanished(f, view)))
    BY MarkClosedType DEF File
  <2>3. file' \in File /\ IsFiniteSet(file'.mirrored)
    BY <2>1, <2>2 DEF File
  <2>4. ours' \in SUBSET Position
    BY <2>1 DEF ChainViews
  <2> QED BY <1>2, <2>3, <2>4 DEF ReadChain
<1>3. CASE ChainReadFails
  BY <1>3, EndTickType DEF ChainReadFails
<1>4. CASE FindOrphans
  BY <1>4, ReadsType DEF FindOrphans, Orphaned, OpenMirrors, File
<1>5. CASE Drain
  BY <1>5 DEF Drain, StartClose
<1>6. CASE DrainDone
  <2>1. CASE ~on \/ todo = {}
    BY <1>6, <2>1, EndTickType DEF DrainDone
  <2>2. CASE ~(~on \/ todo = {})
    <3>1. PICK f \in Reads : mirrorCount' = Cardinality(OpenMirrors(f))
      BY <1>6, <2>2 DEF DrainDone
    <3>2. IsFiniteSet(OpenMirrors(f))
      BY ReadsType, FS_Subset DEF OpenMirrors
    <3>3. mirrorCount' \in Int
      BY <3>1, <3>2, FS_CardinalityType
    <3> QED BY <1>6, <2>2, <3>3 DEF DrainDone
  <2> QED BY <2>1, <2>2
<1>7. ASSUME NEW w \in Wallets, PollWallet(w) PROVE TypeOK'
  <2>1. Snapshots(w) \subseteq Snapshot
    <3>1. HeldPools(w) \subseteq Pools
      BY DEF HeldPools
    <3>2. \A s \in Snapshots(w) : \E P \in SUBSET Pools, r \in BOOLEAN :
             s = [wallet |-> w, pools |-> P, reliable |-> r]
      BY <3>1 DEF Snapshots
    <3> QED BY <1>7, <3>2 DEF Snapshot
  <2> QED BY <1>7, <2>1 DEF PollWallet
<1>8. CASE AllPolled
  BY <1>8, EndTickType DEF AllPolled
<1>9. CASE DiffWallet
  <2>1. PICK s \in snap, f \in Reads, g \in Reads :
          LET mine == {m \in OpenMirrors(g) : m.wallet = s.wallet}
              diff == DiffFollowedWallet(Seen(f, s.wallet), s, PoolsOf(ours), mine)
              here == {m \in mine : m.pool \in s.pools}
          IN  /\ opens' = diff.opens
              /\ nextSeen' = diff.nextSeen
              /\ work' = diff.closes \cup
                         (IF MirrorRecenter /\ s.reliable /\ ~diff.seedOnly THEN here ELSE {})
              /\ pc' = IF diff.seedOnly THEN "save" ELSE "mirrors"
    BY <1>9 DEF DiffWallet
  <2> DEFINE mine == {m \in OpenMirrors(g) : m.wallet = s.wallet}
             diff == DiffFollowedWallet(Seen(f, s.wallet), s, PoolsOf(ours), mine)
  <2>2. s \in Snapshot /\ f \in File /\ g \in File
    BY ReadsType
  <2>3. Seen(f, s.wallet) \in SUBSET (SUBSET Pools)
    BY <2>2 DEF Seen, File, Snapshot
  <2>4. mine \in SUBSET Mirror
    BY <2>2 DEF OpenMirrors, File
  <2>5. PoolsOf(ours) \in SUBSET Pools
    BY PositionsType
  <2>6. diff.opens \in SUBSET Pools /\ diff.closes \in SUBSET mine
        /\ diff.nextSeen \in SUBSET (SUBSET Pools)
    <3> HIDE DEF mine
    <3> QED BY <2>2, <2>3, <2>4, <2>5, DiffType
  <2>7. /\ opens' \in SUBSET Pools /\ nextSeen' \in SUBSET (SUBSET Pools)
        /\ work' \in SUBSET Mirror /\ pc' \in {"save", "mirrors"}
    BY <2>1, <2>4, <2>6
  <2> QED BY <1>9, <2>7 DEF DiffWallet
<1>10. CASE CheckRecenter
  BY <1>10 DEF CheckRecenter, StartClose
<1>11. CASE KeepMirror
  BY <1>11 DEF KeepMirror
<1>12. CASE MirrorExit
  BY <1>12 DEF MirrorExit, StartClose
<1>13. CASE MirrorsDone
  BY <1>13 DEF MirrorsDone
<1>14. CASE CloseLands
  BY <1>14 DEF CloseLands
<1>15. CASE CloseFails
  BY <1>15 DEF CloseFails, AfterClose
<1>16. CASE RecordClose
  <2>1. PICK m \in target, f \in Reads :
          /\ file' = IF m.position \in Ids(f.mirrored) THEN CloseRecord(f, m.position) ELSE file
          /\ ours' = IF phase = "drain" THEN {x \in ours : x.position # m.position}
                     ELSE DropOnePool(ours, m.pool)
          /\ mirrorCount' = IF phase = "drain" THEN mirrorCount ELSE mirrorCount - 1
          /\ withheld' = IF phase = "recenter" THEN withheld \cup {m.pool} ELSE withheld
    BY <1>16 DEF RecordClose
  <2>2. m \in Mirror /\ f \in File /\ IsFiniteSet(f.mirrored)
    BY ReadsType
  <2>3. LET R == MarkClosed(f.mirrored, {k \in f.mirrored : k.position = m.position})
        IN  /\ R \in SUBSET Mirror /\ IsFiniteSet(R)
            /\ CloseRecord(f, m.position) = [f EXCEPT !.mirrored = R]
    BY <2>2, MarkClosedType DEF CloseRecord, File
  <2>4. file' \in File /\ IsFiniteSet(file'.mirrored)
    BY <2>1, <2>2, <2>3 DEF File
  <2>5. ours' \in SUBSET Position
    BY <2>1, PositionsType
  <2>6. mirrorCount' \in Int /\ withheld' \in SUBSET Pools
    BY <2>1, <2>2 DEF Mirror
  <2> QED BY <1>16, <2>4, <2>5, <2>6 DEF RecordClose, AfterClose
<1>17. ASSUME NEW p \in Pools, SkipOpen(p) PROVE TypeOK'
  BY <1>17 DEF SkipOpen, HeldBack
<1>18. ASSUME NEW p \in Pools, PlanOpen(p) PROVE TypeOK'
  BY <1>18 DEF PlanOpen, PositionsInPool, Mirror, Snapshot
<1>19. CASE PassGate
  BY <1>19 DEF PassGate
<1>20. CASE RefuseGate \/ GateThrows
  BY <1>20, EndTickType DEF RefuseGate, GateThrows, RoundLost
<1>21. CASE DeployLands
  <2>1. PICK m \in target : OpenOnChain(m.pool) /\ target' = {[m EXCEPT !.position = deploys + 1]}
    BY <1>21 DEF DeployLands
  <2>2. m \in Mirror /\ m.pool \in Pools
    BY DEF Mirror
  <2>3. target' \in SUBSET Mirror
    BY <2>1, <2>2 DEF Mirror
  <2> QED BY <1>21, <2>1, <2>2, <2>3, OpenOnChainType DEF DeployLands
<1>22. CASE DeployFails
  <2>1. PICK m \in target :
          /\ UNCHANGED chain \/ OpenOnChain(m.pool)
          /\ failed' = [failed EXCEPT !.now = @ \cup {m.source}]
          /\ withheld' = withheld \cup HeldBack("abandoned", m.pool)
    BY <1>22 DEF DeployFails
  <2>2. m \in Mirror /\ m.pool \in Pools /\ m.source \in Nat
    BY DEF Mirror
  <2>3. live' \in SUBSET Position /\ fresh' \in SUBSET Nat /\ deploys' \in Nat
    BY <2>1, <2>2, OpenOnChainType
  <2>4. failed' \in [now: SUBSET Nat, saved: SUBSET Nat] /\ withheld' \in SUBSET Pools
    BY <2>1, <2>2 DEF HeldBack
  <2> QED BY <1>22, <2>3, <2>4 DEF DeployFails
<1>23. CASE RecordOpen
  <2>1. PICK m \in target, f \in Reads :
          /\ file' = AddMirrored(f, m)
          /\ ours' = ours \cup {[position |-> m.position, pool |-> m.pool]}
    BY <1>23 DEF RecordOpen
  <2>2. m \in Mirror /\ f \in File /\ IsFiniteSet(f.mirrored)
    BY ReadsType
  <2>3. file' \in File /\ IsFiniteSet(file'.mirrored)
    BY <2>1, <2>2, AddMirroredType
  <2>4. ours' \in SUBSET Position
    BY <2>1, <2>2 DEF Mirror, Position
  <2> QED BY <1>23, <2>3, <2>4 DEF RecordOpen
<1>24. CASE OpensDone
  BY <1>24 DEF OpensDone
<1>25. CASE SaveBaseline
  <2>1. PICK s \in snap, f \in Reads :
          file' = IF nextSeen = {} THEN file
                  ELSE SetSeen(f, s.wallet, (UNION nextSeen) \ withheld)
    BY <1>25 DEF SaveBaseline
  <2>2. s.wallet \in Wallets /\ f \in File /\ IsFiniteSet(f.mirrored)
    BY ReadsType DEF Snapshot
  <2>3. (UNION nextSeen) \ withheld \in SUBSET Pools
    OBVIOUS
  <2>4. file' \in File /\ IsFiniteSet(file'.mirrored)
    BY <2>1, <2>2, <2>3 DEF SetSeen, File
  <2>5. failed' \in [now: SUBSET Nat, saved: SUBSET Nat]
    BY <1>25 DEF SaveBaseline, RoundLost
  <2> QED BY <1>25, <2>4, <2>5 DEF SaveBaseline
<1> QED BY <1>1, <1>2, <1>3, <1>4, <1>5, <1>6, <1>7, <1>8, <1>9, <1>10, <1>11, <1>12,
           <1>13, <1>14, <1>15, <1>16, <1>17, <1>18, <1>19, <1>20, <1>21, <1>22, <1>23,
           <1>24, <1>25
        DEF TickStep

LEMMA BacklogType ==
  ASSUME TypeOK, NEW ws \in SUBSET Wallets
  PROVE  Backlog(ws) \in [Wallets -> SUBSET Nat]
  BY DEF TypeOK, Backlog, HeldPools

(* The file operations of the operator commands. *)
LEMMA EditType ==
  ASSUME NEW f \in File, IsFiniteSet(f.mirrored), NEW w \in Wallets, NEW status \in Status
  PROVE  LET g == [f EXCEPT !.wallets[w] = status]
         IN  /\ g \in File /\ g.mirrored = f.mirrored
             /\ Forget(g, w) \in File /\ Forget(g, w).mirrored = f.mirrored
<1> DEFINE g == [f EXCEPT !.wallets[w] = status]
<1>1. g \in File /\ g.mirrored = f.mirrored
  BY DEF File
<1>2. Forget(g, w) \in File /\ Forget(g, w).mirrored = g.mirrored
  <2> HIDE DEF g
  <2> QED BY <1>1 DEF Forget, File
<1> QED BY <1>1, <1>2

LEMMA TypeSurroundings == ASSUME TypeOK, Surroundings PROVE TypeOK'
<1> USE DEF TypeOK, tick, chain, sources, bounds
<1>1. ASSUME NEW w \in Wallets, NEW p \in Pools, SourceEnter(w, p) PROVE TypeOK'
  BY <1>1 DEF SourceEnter
<1>2. ASSUME NEW w \in Wallets, NEW p \in Pools, SourceExit(w, p) PROVE TypeOK'
  BY <1>2 DEF SourceExit
<1>3. ASSUME NEW id \in fresh, Settle(id) PROVE TypeOK'
  BY <1>3 DEF Settle
<1>4. ASSUME NEW x \in live, OutsideClose(x) PROVE TypeOK'
  BY <1>4 DEF OutsideClose
<1>5. ASSUME NEW p \in Pools, ScreenerGate(p) PROVE TypeOK'
  BY <1>5 DEF ScreenerGate
<1>6. ASSUME NEW p \in Pools, ScreenerDeploy(p) PROVE TypeOK'
  BY <1>6, OpenOnChainType DEF ScreenerDeploy
<1>7. ASSUME NEW kind, Command(kind)
      PROVE  /\ held' = held /\ entries' = entries /\ edits' \in Nat /\ aborts' = aborts
             /\ UNCHANGED <<chain, screening, tick, failed>>
  BY <1>7 DEF Command
<1>8. ASSUME NEW w \in Wallets, AddWallet(w) PROVE TypeOK'
  <2>1. PICK f \in Reads, status \in {"enabled", "disabled"} :
          /\ file' = [f EXCEPT !.wallets[w] = status]
          /\ backlog' = IF status = "disabled" \/ file.wallets[w] = "enabled"
                        THEN backlog ELSE Backlog({w})
    BY <1>8 DEF AddWallet
  <2>2. file' \in File /\ IsFiniteSet(file'.mirrored)
    <3>1. f \in File /\ IsFiniteSet(f.mirrored) /\ status \in Status
      BY ReadsType DEF Status
    <3> QED BY <2>1, <3>1, EditType
  <2>3. backlog' \in [Wallets -> SUBSET Nat]
    BY <2>1, BacklogType
  <2>4. \E kind : Command(kind)
    BY <1>8 DEF AddWallet
  <2> QED BY <1>7, <1>8, <2>2, <2>3, <2>4 DEF AddWallet
<1>9. ASSUME NEW w \in Wallets, RemoveWallet(w) PROVE TypeOK'
  <2>1. file' \in File /\ IsFiniteSet(file'.mirrored)
    BY <1>9, EditType DEF RemoveWallet, Status
  <2>2. Command("remove")
    BY <1>9 DEF RemoveWallet
  <2> QED BY <1>7, <1>9, <2>1, <2>2 DEF RemoveWallet
<1>10. ASSUME NEW w \in Wallets, EnableWallet(w) PROVE TypeOK'
  <2>1. file' \in File /\ IsFiniteSet(file'.mirrored)
    BY <1>10, EditType DEF EnableWallet, Status
  <2>2. backlog' \in [Wallets -> SUBSET Nat]
    BY <1>10, BacklogType DEF EnableWallet
  <2>3. Command("enable")
    BY <1>10 DEF EnableWallet
  <2> QED BY <1>7, <1>10, <2>1, <2>2, <2>3 DEF EnableWallet
<1>11. ASSUME NEW w \in Wallets, DisableWallet(w) PROVE TypeOK'
  <2>1. file' \in File /\ IsFiniteSet(file'.mirrored)
    BY <1>11, EditType DEF DisableWallet, Status
  <2>2. Command("disable")
    BY <1>11 DEF DisableWallet
  <2> QED BY <1>7, <1>11, <2>1, <2>2 DEF DisableWallet
<1>12. CASE SwitchFollow
  <2>1. backlog' \in [Wallets -> SUBSET Nat]
    BY <1>12, BacklogType DEF SwitchFollow, Enabled
  <2>2. Command("switch") /\ follow' \in BOOLEAN /\ file' = file
    BY <1>12 DEF SwitchFollow
  <2> QED BY <1>7, <2>1, <2>2
<1> QED BY <1>1, <1>2, <1>3, <1>4, <1>5, <1>6, <1>8, <1>9, <1>10, <1>11, <1>12
        DEF Surroundings

LEMMA TypeAbort == ASSUME TypeOK, Abort PROVE TypeOK'
  BY EndTickType DEF TypeOK, Abort, RoundLost, chain, sources

LEMMA TypeStutter == ASSUME TypeOK, UNCHANGED vars PROVE TypeOK'
  BY DEF TypeOK, vars, tick, chain, sources, bounds

LEMMA TypeStep == ASSUME TypeOK, [Next]_vars PROVE TypeOK'
  BY TypeTick, TypeSurroundings, TypeAbort, TypeStutter DEF Next

(* Every variable keeps its type, and the record list stays finite, for all *)
(* wallets, pools, caps and faults.                                         *)
THEOREM TypeCorrect == Spec => []TypeOK
<1>1. Init => TypeOK
  BY TypeInit
<1>2. TypeOK /\ [Next]_vars => TypeOK'
  BY TypeStep
<1> QED BY <1>1, <1>2, PTL DEF Spec

---------------------------------------------------------------------------
(* Every close is justified.  The records name positions that existed when *)
(* they were copied, and each position of a followed wallet has a number   *)
(* of its own: so what a snapshot says is gone can never come back, and a  *)
(* decision taken on it stays right until the close is sent.               *)

SourceBound ==
  /\ \A w \in Wallets, p \in Pools : held[w][p] <= entries
  /\ \A m \in file.mirrored \cup work \cup target : 1 <= m.source /\ m.source <= entries

(* Where the tick stands decides which of its locals are in use. *)
Control ==
  /\ phase # "none" => pc \in {"closing", "closed"}
  /\ pc \in {"idle", "chain", "orphans", "drain"} \/ phase = "drain" => snap = {}
  /\ pc \in {"poll", "baseline", "opens", "gate", "deploy", "opened", "save"} => work = {}
  /\ \A s, t \in snap : s = t

(* The position a mirror copied is no longer where it was. *)
SourceGone(m) == held[m.wallet][m.pool] # m.source

Unfollowed(m) == ~on \/ listed[m.wallet] # "enabled"

Justified ==
  /\ \A s \in snap, m \in work : m.pool \notin s.pools => SourceGone(m)
  /\ pc = "baseline" =>
       \A s \in snap, m \in file.mirrored :
         s.reliable /\ m.wallet = s.wallet /\ m.pool \notin s.pools => SourceGone(m)
  /\ pc = "closing" /\ phase # "drain" => \A m \in target : SourceGone(m)
  /\ pc = "drain" \/ phase = "drain" => \A m \in work : Unfollowed(m)
  /\ phase = "drain" => \A m \in target : Unfollowed(m)

CloseInv == TypeOK /\ SourceBound /\ Control /\ Justified

LEMMA ReadsRecords ==
  ASSUME NEW f \in Reads
  PROVE  f.mirrored \subseteq file.mirrored /\ OpenMirrors(f) \subseteq file.mirrored
  BY DEF Reads, EmptyFile, OpenMirrors

LEMMA AddMirroredRecords ==
  ASSUME NEW f \in File, NEW m \in Mirror
  PROVE  AddMirrored(f, m).mirrored \subseteq f.mirrored \cup {m}
  BY DEF AddMirrored, Prune, File

(* What the tick writes to the record list: old records, closed or not, and *)
(* the mirror it has just opened.                                           *)
LEMMA TickRecords ==
  ASSUME TypeOK, TickStep
  PROVE  \A m \in file'.mirrored :
           \/ pc = "opened" /\ m \in target
           \/ \E k \in file.mirrored : m.pool = k.pool /\ m.wallet = k.wallet /\ m.source = k.source
<1> USE DEF chain, others, sources, bounds
<1>1. CASE ReadChain
  <2>1. PICK view \in ChainViews, f \in Reads :
          file' = [file EXCEPT !.mirrored = MarkClosed(@, Vanished(f, view))]
    BY <1>1 DEF ReadChain
  <2>2. file'.mirrored = MarkClosed(file.mirrored, Vanished(f, view))
    BY <2>1 DEF TypeOK, File
  <2>3. file.mirrored \in SUBSET Mirror
    BY DEF TypeOK, File
  <2>4. \A m \in MarkClosed(file.mirrored, Vanished(f, view)) : \E k \in file.mirrored :
          m.pool = k.pool /\ m.wallet = k.wallet /\ m.source = k.source
    BY <2>3 DEF MarkClosed, Mirror
  <2> QED BY <2>2, <2>4
<1>2. CASE RecordClose
  <2>1. PICK m \in target, f \in Reads :
          file' = IF m.position \in Ids(f.mirrored) THEN CloseRecord(f, m.position) ELSE file
    BY <1>2 DEF RecordClose
  <2>2. f \in File
    BY ReadsType
  <2>3. CloseRecord(f, m.position).mirrored =
          MarkClosed(f.mirrored, {k \in f.mirrored : k.position = m.position})
    BY <2>2 DEF CloseRecord, File
  <2>4. f.mirrored \in SUBSET Mirror /\ f.mirrored \subseteq file.mirrored
    BY <2>2, ReadsRecords DEF File
  <2>5. \A k \in CloseRecord(f, m.position).mirrored : \E r \in file.mirrored :
          k.pool = r.pool /\ k.wallet = r.wallet /\ k.source = r.source
    BY <2>3, <2>4 DEF MarkClosed, Mirror
  <2> QED BY <2>1, <2>5
<1>3. CASE RecordOpen
  <2>1. PICK m \in target, f \in Reads : file' = AddMirrored(f, m)
    BY <1>3 DEF RecordOpen
  <2>2. f \in File /\ m \in Mirror /\ pc = "opened"
    BY <1>3, ReadsType DEF RecordOpen, TypeOK
  <2>3. file'.mirrored \subseteq file.mirrored \cup {m}
    BY <2>1, <2>2, AddMirroredRecords, ReadsRecords
  <2> QED BY <2>2, <2>3
<1>4. CASE SaveBaseline
  <2>1. PICK s \in snap, f \in Reads :
          file' = IF nextSeen = {} THEN file ELSE SetSeen(f, s.wallet, (UNION nextSeen) \ withheld)
    BY <1>4 DEF SaveBaseline
  <2>2. SetSeen(f, s.wallet, (UNION nextSeen) \ withheld).mirrored = f.mirrored
    BY ReadsType DEF SetSeen, File
  <2> QED BY <2>1, <2>2, ReadsRecords
<1>5. CASE file' = file
  BY <1>5
<1> QED BY <1>1, <1>2, <1>3, <1>4, <1>5
        DEF TickStep, StartTick, ChainReadFails, FindOrphans, Drain, DrainDone, PollWallet,
            AllPolled, DiffWallet, CheckRecenter, KeepMirror, MirrorExit, MirrorsDone,
            StartClose, CloseLands, CloseFails, SkipOpen, PlanOpen, PassGate,
            RefuseGate, GateThrows,
            DeployLands, DeployFails, OpensDone

(* Nor do the surroundings: they keep the record list or lose it. *)
LEMMA OutsideRecords ==
  ASSUME TypeOK, Surroundings \/ Abort \/ UNCHANGED vars
  PROVE  file'.mirrored = file.mirrored \/ file'.mirrored = {}
<1>1. ASSUME NEW w \in Wallets, AddWallet(w)
      PROVE  file'.mirrored = file.mirrored \/ file'.mirrored = {}
  <2>1. PICK f \in Reads, status \in {"enabled", "disabled"} :
          file' = [f EXCEPT !.wallets[w] = status]
    BY <1>1 DEF AddWallet
  <2>2. file'.mirrored = f.mirrored
    BY <2>1, ReadsType DEF File
  <2> QED BY <2>2 DEF Reads, EmptyFile
<1>2. ASSUME NEW w \in Wallets, RemoveWallet(w) \/ EnableWallet(w) \/ DisableWallet(w)
      PROVE  file'.mirrored = file.mirrored
  <2>1. file \in File /\ IsFiniteSet(file.mirrored)
    BY DEF TypeOK
  <2> QED BY <1>2, <2>1, EditType DEF RemoveWallet, EnableWallet, DisableWallet, Status
<1>3. CASE file' = file
  BY <1>3
<1> QED BY <1>1, <1>2, <1>3
        DEF Surroundings, Abort, vars, SourceEnter, SourceExit, Settle, OutsideClose,
            ScreenerGate, ScreenerDeploy, SwitchFollow

(* The tick works on mirrors it has read from the file, and targets one of  *)
(* those or the one it is opening.                                          *)
LEMMA WorkStep ==
  ASSUME TypeOK, TickStep
  PROVE  work' \subseteq work \cup file.mirrored
<1>1. CASE FindOrphans
  BY <1>1, ReadsRecords DEF FindOrphans, Orphaned
<1>2. CASE DiffWallet
  <2>1. PICK s \in snap, f \in Reads, g \in Reads :
          work' \subseteq
            DiffFollowedWallet(Seen(f, s.wallet), s, PoolsOf(ours),
                               {m \in OpenMirrors(g) : m.wallet = s.wallet}).closes
            \cup OpenMirrors(g)
    BY <1>2 DEF DiffWallet
  <2>2. DiffFollowedWallet(Seen(f, s.wallet), s, PoolsOf(ours),
                           {m \in OpenMirrors(g) : m.wallet = s.wallet}).closes
          \subseteq OpenMirrors(g)
    BY DEF DiffFollowedWallet
  <2> QED BY <2>1, <2>2, ReadsRecords
<1>3. CASE work' \subseteq work
  BY <1>3
<1> QED BY <1>1, <1>2, <1>3
        DEF TickStep, StartTick, ReadChain, ChainReadFails, Drain, DrainDone, PollWallet,
            AllPolled, CheckRecenter, KeepMirror, MirrorExit, MirrorsDone, StartClose,
            CloseLands, CloseFails, RecordClose, SkipOpen, PlanOpen, PassGate,
            RefuseGate, GateThrows,
            DeployLands, DeployFails, RecordOpen, OpensDone, SaveBaseline, EndTick

LEMMA TargetStep ==
  ASSUME TickStep
  PROVE  \/ target' \subseteq target \cup work
         \/ DeployLands
         \/ \E p \in Pools : PlanOpen(p)
  BY DEF TickStep, StartTick, ReadChain, ChainReadFails, FindOrphans, Drain, DrainDone,
         PollWallet, AllPolled, DiffWallet, CheckRecenter, KeepMirror, MirrorExit,
         MirrorsDone, StartClose, CloseLands, CloseFails, RecordClose, SkipOpen,
         PassGate,
         RefuseGate, GateThrows, DeployFails, RecordOpen, OpensDone, SaveBaseline, EndTick

---------------------------------------------------------------------------
(* The parts of CloseInv, one after the other                              *)

LEMMA SourceBoundStep ==
  ASSUME TypeOK, SourceBound, [Next]_vars
  PROVE  SourceBound'
<1> USE DEF SourceBound
<1>1. CASE TickStep
  <2> USE DEF chain, others, sources, bounds
  <2>1. held' = held /\ entries' = entries
    BY <1>1 DEF TickStep, StartTick, ReadChain, ChainReadFails, FindOrphans, Drain, DrainDone,
          PollWallet, AllPolled, DiffWallet, CheckRecenter, KeepMirror, MirrorExit, MirrorsDone,
          StartClose, CloseLands, CloseFails, RecordClose, SkipOpen, PlanOpen, PassGate,
          RefuseGate, GateThrows, DeployLands, DeployFails, RecordOpen, OpensDone, SaveBaseline
  <2>2. \A m \in file'.mirrored : 1 <= m.source /\ m.source <= entries
    <3>1. TAKE m \in file'.mirrored
    <3>2. CASE m \in target
      BY <3>2
    <3>3. CASE \E k \in file.mirrored : m.source = k.source
      BY <3>3
    <3> QED BY <1>1, <3>2, <3>3, TickRecords
  <2>3. \A m \in work' : 1 <= m.source /\ m.source <= entries
    BY <1>1, WorkStep
  <2>4. \A m \in target' : 1 <= m.source /\ m.source <= entries
    <3>1. ASSUME NEW p \in Pools, PlanOpen(p)
          PROVE  \A m \in target' : 1 <= m.source /\ m.source <= entries
      <4>1. PICK s \in snap : \E theirs \in PositionsInPool(s.wallet, p) :
              \E id \in theirs.position :
                target' = {[position |-> 0, pool |-> p, wallet |-> s.wallet, source |-> id,
                            open |-> TRUE]}
        BY <3>1 DEF PlanOpen
      <4>2. target' = {[position |-> 0, pool |-> p, wallet |-> s.wallet,
                        source |-> held[s.wallet][p], open |-> TRUE]}
            /\ held[s.wallet][p] # 0
        BY <4>1 DEF PositionsInPool
      <4>3. s.wallet \in Wallets
        BY DEF TypeOK, Snapshot
      <4>4. held[s.wallet][p] \in Nat
        BY <4>3 DEF TypeOK
      <4> QED BY <4>2, <4>3, <4>4
    <3>2. CASE DeployLands
      <4>1. PICK m \in target : target' = {[m EXCEPT !.position = deploys + 1]}
        BY <3>2 DEF DeployLands
      <4>2. [m EXCEPT !.position = deploys + 1].source = m.source
        BY DEF TypeOK, Mirror
      <4> QED BY <4>1, <4>2
    <3>3. CASE target' \subseteq target \cup work
      BY <3>3
    <3> QED BY <1>1, <3>1, <3>2, <3>3, TargetStep
  <2> QED BY <2>1, <2>2, <2>3, <2>4
<1>2. ASSUME NEW w \in Wallets, NEW p \in Pools, SourceEnter(w, p) PROVE SourceBound'
  <2>1. /\ held' = [held EXCEPT ![w][p] = entries + 1] /\ entries' = entries + 1
        /\ file' = file /\ work' = work /\ target' = target
    BY <1>2 DEF SourceEnter, tick
  <2>2. entries \in Nat /\ held \in [Wallets -> [Pools -> Nat]]
    BY DEF TypeOK
  <2>3. \A v \in Wallets, q \in Pools : held'[v][q] \in {held[v][q], entries + 1}
    BY <2>1, <2>2
  <2>4. \A m \in file.mirrored \cup work \cup target : m.source \in Nat
    BY DEF TypeOK, File, Mirror
  <2> QED BY <2>1, <2>2, <2>3, <2>4
<1>3. ASSUME NEW w \in Wallets, NEW p \in Pools, SourceExit(w, p) PROVE SourceBound'
  BY <1>3 DEF SourceExit, TypeOK, tick
<1>4. ASSUME held' = held, entries' = entries, work' \subseteq work, target' \subseteq target,
             file'.mirrored = file.mirrored \/ file'.mirrored = {}
      PROVE  SourceBound'
  BY <1>4
<1>5. CASE Surroundings \/ Abort \/ UNCHANGED vars
  <2>1. CASE \E w \in Wallets, p \in Pools : SourceEnter(w, p) \/ SourceExit(w, p)
    BY <1>2, <1>3, <2>1
  <2>2. CASE ~ \E w \in Wallets, p \in Pools : SourceEnter(w, p) \/ SourceExit(w, p)
    <3>1. held' = held /\ entries' = entries /\ work' \subseteq work /\ target' \subseteq target
      BY <1>5, <2>2
         DEF Surroundings, Abort, EndTick, vars, Settle, OutsideClose, ScreenerGate,
             ScreenerDeploy, Command, AddWallet, RemoveWallet, EnableWallet, DisableWallet,
             SwitchFollow, sources, tick
    <3> QED BY <1>4, <1>5, <3>1, OutsideRecords
  <2> QED BY <2>1, <2>2
<1> QED BY <1>1, <1>5 DEF Next

LEMMA ControlStep ==
  ASSUME TypeOK, Control, [Next]_vars
  PROVE  Control'
<1> USE DEF Control
<1>1. CASE TickStep
  <2>1. CASE DiffWallet
    <3>1. PICK s \in snap, f \in Reads, g \in Reads :
            LET mine == {m \in OpenMirrors(g) : m.wallet = s.wallet}
                diff == DiffFollowedWallet(Seen(f, s.wallet), s, PoolsOf(ours), mine)
            IN  /\ pc' = IF diff.seedOnly THEN "save" ELSE "mirrors"
                /\ diff.seedOnly => work' = diff.closes
      BY <2>1 DEF DiffWallet
    <3>2. pc' \in {"save", "mirrors"} /\ (pc' = "save" => work' = {})
      BY <3>1 DEF DiffFollowedWallet
    <3> QED BY <2>1, <3>2 DEF DiffWallet
  <2>2. CASE DrainDone
    BY <2>2 DEF DrainDone, EndTick
  <2>3. CASE StartTick \/ ReadChain \/ ChainReadFails \/ FindOrphans \/ Drain \/ AllPolled
             \/ CheckRecenter \/ KeepMirror \/ MirrorExit \/ MirrorsDone \/ GateThrows
    BY <2>3 DEF StartTick, ReadChain, ChainReadFails, FindOrphans, Drain, AllPolled, GateThrows,
          CheckRecenter, KeepMirror, MirrorExit, MirrorsDone, StartClose, EndTick
  <2>4. CASE CloseLands \/ CloseFails \/ RecordClose
    BY <2>4 DEF CloseLands, CloseFails, RecordClose, AfterClose
  <2>5. CASE PassGate \/ RefuseGate \/ DeployLands \/ DeployFails \/ RecordOpen \/ OpensDone
             \/ SaveBaseline \/ \E p \in Pools : SkipOpen(p) \/ PlanOpen(p)
    BY <2>5 DEF PassGate, RefuseGate, DeployLands, DeployFails, RecordOpen, OpensDone,
          SaveBaseline, SkipOpen, PlanOpen
  <2>6. CASE \E w \in Wallets : PollWallet(w)
    BY <2>6 DEF PollWallet
  <2> QED BY <1>1, <2>1, <2>2, <2>3, <2>4, <2>5, <2>6 DEF TickStep
<1>2. CASE Abort
  BY <1>2 DEF Abort, EndTick
<1>3. CASE UNCHANGED tick
  BY <1>3 DEF tick
<1> QED BY <1>1, <1>2, <1>3
        DEF Next, Surroundings, vars, SourceEnter, SourceExit, Settle, OutsideClose,
            ScreenerGate, ScreenerDeploy, Command, AddWallet, RemoveWallet, EnableWallet,
            DisableWallet, SwitchFollow

(* A copied position that is gone stays gone, whatever the wallet does. *)
LEMMA GoneStaysGone ==
  ASSUME TypeOK, SourceBound, Surroundings \/ Abort \/ UNCHANGED vars,
         NEW m \in file.mirrored \cup work \cup target, SourceGone(m)
  PROVE  SourceGone(m)'
<1>1. m.wallet \in Wallets /\ m.pool \in Pools /\ m.source \in Nat /\ m.source <= entries
  BY DEF TypeOK, SourceBound, File, Mirror
<1>2. 1 <= m.source
  BY DEF SourceBound
<1>3. ASSUME NEW w \in Wallets, NEW p \in Pools, SourceEnter(w, p) PROVE SourceGone(m)'
  <2>1. held'[m.wallet][m.pool] \in {held[m.wallet][m.pool], entries + 1}
    BY <1>1, <1>3 DEF SourceEnter, TypeOK
  <2> QED BY <1>1, <2>1 DEF SourceGone, TypeOK
<1>4. ASSUME NEW w \in Wallets, NEW p \in Pools, SourceExit(w, p) PROVE SourceGone(m)'
  <2>1. held'[m.wallet][m.pool] \in {held[m.wallet][m.pool], 0}
    BY <1>1, <1>4 DEF SourceExit, TypeOK
  <2> QED BY <1>1, <1>2, <2>1 DEF SourceGone, TypeOK
<1>5. CASE held' = held
  BY <1>5 DEF SourceGone
<1> QED BY <1>3, <1>4, <1>5
        DEF Surroundings, Abort, vars, Settle, OutsideClose, ScreenerGate, ScreenerDeploy,
            Command, AddWallet, RemoveWallet, EnableWallet, DisableWallet, SwitchFollow, sources

LEMMA JustifiedOutside ==
  ASSUME CloseInv, Surroundings \/ Abort \/ UNCHANGED vars
  PROVE  Justified'
<1> USE DEF CloseInv
<1>1. CASE Abort
  BY <1>1 DEF Abort, EndTick, Justified
<1>2. CASE UNCHANGED tick
  <2>1. \A m : Unfollowed(m)' <=> Unfollowed(m)
    BY <1>2 DEF Unfollowed, tick
  <2>2. \A m \in file'.mirrored \cup work' \cup target' :
          m \in file.mirrored \cup work \cup target
    BY <1>2, OutsideRecords DEF tick
  <2>3. \A m \in file'.mirrored \cup work' \cup target' : SourceGone(m) => SourceGone(m)'
    BY <2>2, GoneStaysGone
  <2>4. file'.mirrored \subseteq file.mirrored
    BY OutsideRecords
  <2> QED BY <1>2, <2>1, <2>3, <2>4 DEF Justified, tick
<1> QED BY <1>1, <1>2
        DEF Surroundings, vars, SourceEnter, SourceExit, Settle, OutsideClose, ScreenerGate,
            ScreenerDeploy, Command, AddWallet, RemoveWallet, EnableWallet, DisableWallet,
            SwitchFollow

LEMMA JustifiedTick ==
  ASSUME CloseInv, TickStep
  PROVE  Justified'
<1> USE DEF CloseInv, others, sources, chain, bounds
<1>0. ASSUME held' = held, NEW m PROVE SourceGone(m)' <=> SourceGone(m)
  BY <1>0 DEF SourceGone
<1>1. CASE FindOrphans
  <2>1. PICK f \in Reads : work' = Orphaned(on, listed, OpenMirrors(f))
    BY <1>1 DEF FindOrphans
  <2>2. \A m \in work' : Unfollowed(m)
    BY <2>1 DEF Orphaned, Unfollowed
  <2>3. snap = {} /\ phase = "none"
    BY <1>1 DEF FindOrphans, Control
  <2> QED BY <1>1, <2>2, <2>3 DEF FindOrphans, Justified, Unfollowed
<1>2. CASE Drain
  BY <1>2 DEF Drain, StartClose, Justified, Unfollowed, Control
<1>3. ASSUME NEW w \in Wallets, PollWallet(w) PROVE Justified'
  <2>1. PICK s \in Snapshots(w) : snap' = {s}
    BY <1>3 DEF PollWallet
  <2>2. s.wallet = w /\ (s.reliable => s.pools = HeldPools(w))
    BY <2>1 DEF Snapshots
  <2>3. \A m \in file.mirrored :
          s.reliable /\ m.wallet = s.wallet /\ m.pool \notin s.pools => SourceGone(m)
    BY <2>2 DEF HeldPools, SourceGone, SourceBound, TypeOK, File, Mirror
  <2>4. work = {} /\ phase = "none" /\ file' = file /\ held' = held /\ pc' = "baseline"
        /\ work' = work /\ phase' = phase
    BY <1>3 DEF PollWallet, Control
  <2> QED BY <1>0, <2>1, <2>3, <2>4 DEF Justified
<1>4. CASE DiffWallet
  <2>1. PICK s \in snap, f \in Reads, g \in Reads :
          LET mine == {m \in OpenMirrors(g) : m.wallet = s.wallet}
              diff == DiffFollowedWallet(Seen(f, s.wallet), s, PoolsOf(ours), mine)
              here == {m \in mine : m.pool \in s.pools}
          IN  work' \subseteq diff.closes \cup here
    BY <1>4 DEF DiffWallet
  <2>2. \A m \in work' : m.pool \in s.pools \/
          (s.reliable /\ m \in OpenMirrors(g) /\ m.wallet = s.wallet /\ m.pool \notin s.pools)
    BY <2>1 DEF DiffFollowedWallet
  <2>3. \A m \in work' : m.pool \notin s.pools => SourceGone(m)
    BY <1>4, <2>2, ReadsRecords DEF DiffWallet, Justified
  <2>4. \A t \in snap : t = s
    BY DEF Control
  <2> QED BY <1>0, <1>4, <2>3, <2>4 DEF DiffWallet, Justified, Control
<1>5. CASE CheckRecenter
  <2>1. PICK s \in snap, m \in work :
          /\ DetectRecenter([position |-> {m.source}, lower |-> {}],
                            PositionsInPool(m.wallet, m.pool), 0)
          /\ StartClose(m, "recenter")
    BY <1>5 DEF CheckRecenter
  <2>2. SourceGone(m)
    BY <2>1 DEF DetectRecenter, PositionsInPool, SourceGone
  <2> QED BY <1>0, <1>5, <2>1, <2>2 DEF StartClose, CheckRecenter, Justified
<1>6. CASE KeepMirror
  BY <1>0, <1>6 DEF KeepMirror, Justified, Control
<1>7. CASE MirrorExit
  <2>1. PICK s \in snap, m \in work : m.pool \notin s.pools /\ StartClose(m, "exit")
    BY <1>7 DEF MirrorExit
  <2>2. SourceGone(m)
    BY <2>1 DEF Justified
  <2> QED BY <1>0, <1>7, <2>1, <2>2 DEF StartClose, MirrorExit, Justified
<1>8. CASE CloseLands \/ CloseFails \/ RecordClose
  BY <1>0, <1>8 DEF CloseLands, CloseFails, RecordClose, AfterClose, Justified, Unfollowed, Control
<1>9. CASE StartTick \/ ReadChain \/ ChainReadFails \/ AllPolled \/ MirrorsDone \/ DrainDone
           \/ SaveBaseline \/ GateThrows
  BY <1>0, <1>9 DEF StartTick, ReadChain, ChainReadFails, AllPolled, MirrorsDone, DrainDone,
        SaveBaseline, GateThrows, EndTick, Justified, Control
<1>10. CASE PassGate \/ RefuseGate \/ DeployLands \/ DeployFails \/ RecordOpen \/ OpensDone
            \/ \E p \in Pools : SkipOpen(p) \/ PlanOpen(p)
  <2>1. work = {} /\ work' = work /\ phase = "none" /\ phase' = phase
        /\ pc' \notin {"baseline", "drain"}
    BY <1>10 DEF PassGate, RefuseGate, DeployLands, DeployFails, RecordOpen, OpensDone,
          SkipOpen, PlanOpen, Control
  <2>2. pc' # "closing"
    BY <1>10 DEF PassGate, RefuseGate, DeployLands, DeployFails, RecordOpen, OpensDone,
          SkipOpen, PlanOpen
  <2> QED BY <2>1, <2>2 DEF Justified
<1> QED BY <1>1, <1>2, <1>3, <1>4, <1>5, <1>6, <1>7, <1>8, <1>9, <1>10 DEF TickStep

LEMMA CloseInvStep ==
  ASSUME CloseInv, [Next]_vars
  PROVE  CloseInv'
  BY TypeStep, SourceBoundStep, ControlStep, JustifiedTick, JustifiedOutside DEF CloseInv, Next

LEMMA CloseInvInit == ASSUME Init PROVE CloseInv
<1>1. file.mirrored = {}
  BY DEF Init, EmptyFile
<1>2. work = {} /\ target = {} /\ snap = {} /\ phase = "none" /\ pc = "idle" /\ entries = 0
  BY DEF Init
<1>3. SourceBound
  BY <1>1, <1>2 DEF Init, SourceBound
<1> QED BY <1>1, <1>2, <1>3, TypeInit DEF CloseInv, Control, Justified

(* Follow sends a close only for a mirror whose copied position is gone, or *)
(* whose wallet was not followed when the tick began, under any truncated   *)
(* list, failed read, restart or command in the middle of a tick.           *)
THEOREM ClosesAreJustified == Spec => []CloseIsJustified
<1>1. CloseInv => CloseIsJustified
  BY DEF CloseInv, Justified, CloseIsJustified, SourceGone, Unfollowed
<1> QED BY <1>1, CloseInvInit, CloseInvStep, PTL DEF Spec

---------------------------------------------------------------------------
(* A record is closed only when its position is off the chain.  Positions  *)
(* of ours are numbered as they open, so none comes back; and a view of    *)
(* the chain may miss only those in their grace window, which the sweep    *)
(* leaves alone.                                                           *)

IdBound ==
  /\ \A x \in live : x.position <= deploys
  /\ \A m \in file.mirrored \cup work \cup target : m.position <= deploys

ClosedIsGone ==
  /\ \A m \in file.mirrored : m.open \/ m.position \notin Ids(live)
  /\ pc = "closed" => \A m \in target : m.position \notin Ids(live)
  /\ pc \in {"gate", "deploy", "opened"} => \A m \in target : m.open
  /\ \A m, k \in target : m = k

RecordInv == TypeOK /\ IdBound /\ ClosedIsGone

(* The chain as any step but an opening leaves it. *)
LiveShrinks == live' \subseteq live /\ deploys' = deploys

LEMMA OpenOnChainIds ==
  ASSUME TypeOK, NEW p \in Pools, OpenOnChain(p)
  PROVE  /\ deploys' = deploys + 1
         /\ live' = live \cup {[position |-> deploys + 1, pool |-> p]}
  BY DEF OpenOnChain

(* The records after any step: each is an old one, perhaps closed because   *)
(* its position is off the chain, or the mirror just opened.                *)
LEMMA RecordsStep ==
  ASSUME RecordInv, [Next]_vars
  PROVE  \A m \in file'.mirrored :
           \/ pc = "opened" /\ m \in target
           \/ \E k \in file.mirrored :
                /\ m.position = k.position
                /\ m = k \/ (m.open = FALSE /\ k.position \notin Ids(live))
<1> USE DEF RecordInv
<1>1. CASE ReadChain
  <2>1. PICK view \in ChainViews, f \in Reads :
          file' = [file EXCEPT !.mirrored = MarkClosed(@, Vanished(f, view))]
    BY <1>1 DEF ReadChain
  <2>2. file'.mirrored = MarkClosed(file.mirrored, Vanished(f, view))
    BY <2>1 DEF TypeOK, File
  <2>3. \A k \in Vanished(f, view) : k.position \notin Ids(live)
    BY DEF Vanished, ChainViews, Ids
  <2>4. file.mirrored \in SUBSET Mirror
    BY DEF TypeOK, File
  <2> QED BY <2>2, <2>3, <2>4 DEF MarkClosed, Mirror
<1>2. CASE RecordClose
  <2>1. PICK m \in target, f \in Reads :
          file' = IF m.position \in Ids(f.mirrored) THEN CloseRecord(f, m.position) ELSE file
    BY <1>2 DEF RecordClose
  <2>2. f \in File
    BY ReadsType
  <2>3. CloseRecord(f, m.position).mirrored =
          MarkClosed(f.mirrored, {k \in f.mirrored : k.position = m.position})
    BY <2>2 DEF CloseRecord, File
  <2>4. f.mirrored \in SUBSET Mirror /\ f.mirrored \subseteq file.mirrored
    BY <2>2, ReadsRecords DEF File
  <2>5. m.position \notin Ids(live)
    BY <1>2 DEF RecordClose, ClosedIsGone
  <2> QED BY <2>1, <2>3, <2>4, <2>5 DEF MarkClosed, Mirror
<1>3. CASE RecordOpen
  <2>1. PICK m \in target, f \in Reads : file' = AddMirrored(f, m)
    BY <1>3 DEF RecordOpen
  <2>2. f \in File /\ m \in Mirror /\ pc = "opened"
    BY <1>3, ReadsType DEF RecordOpen, TypeOK
  <2> QED BY <2>1, <2>2, AddMirroredRecords, ReadsRecords
<1>4. CASE SaveBaseline
  <2>1. PICK s \in snap, f \in Reads :
          file' = IF nextSeen = {} THEN file ELSE SetSeen(f, s.wallet, (UNION nextSeen) \ withheld)
    BY <1>4 DEF SaveBaseline
  <2>2. SetSeen(f, s.wallet, (UNION nextSeen) \ withheld).mirrored = f.mirrored
    BY ReadsType DEF SetSeen, File
  <2> QED BY <2>1, <2>2, ReadsRecords
<1>5. CASE file' = file
  BY <1>5
<1>6. CASE Surroundings \/ Abort \/ UNCHANGED vars
  BY <1>6, OutsideRecords
<1> QED BY <1>1, <1>2, <1>3, <1>4, <1>5, <1>6
        DEF Next, TickStep, StartTick, ChainReadFails, FindOrphans, Drain, DrainDone, PollWallet,
            AllPolled, DiffWallet, CheckRecenter, KeepMirror, MirrorExit, MirrorsDone,
            StartClose, CloseLands, CloseFails, SkipOpen, PlanOpen, PassGate,
            RefuseGate, GateThrows,
            DeployLands, DeployFails, OpensDone, others, chain, sources, bounds

(* What is live afterwards: what was, or a position with a new number. *)
LEMMA LiveStep ==
  ASSUME TypeOK, [Next]_vars
  PROVE  /\ deploys' \in {deploys, deploys + 1}
         /\ \A x \in live' : x \in live \/ (x.position = deploys + 1 /\ deploys' = deploys + 1)
<1> USE DEF chain, others, sources, bounds
<1>1. ASSUME NEW p \in Pools, OpenOnChain(p)
      PROVE  /\ deploys' = deploys + 1
             /\ \A x \in live' : x \in live \/ x.position = deploys + 1
  BY <1>1, OpenOnChainIds
<1>2. CASE DeployLands \/ DeployFails
  <2>1. \A m \in target : m.pool \in Pools
    BY DEF TypeOK, Mirror
  <2>2. LiveShrinks \/ \E p \in Pools : OpenOnChain(p)
    BY <1>2, <2>1 DEF DeployLands, DeployFails, LiveShrinks
  <2> QED BY <1>1, <2>2 DEF LiveShrinks
<1>3. CASE \E p \in Pools : ScreenerDeploy(p)
  BY <1>1, <1>3 DEF ScreenerDeploy
<1>4. CASE LiveShrinks
  BY <1>4 DEF LiveShrinks
<1> QED BY <1>2, <1>3, <1>4
        DEF Next, TickStep, StartTick, ReadChain, ChainReadFails, FindOrphans, Drain, DrainDone,
            PollWallet, AllPolled, DiffWallet, CheckRecenter, KeepMirror, MirrorExit, MirrorsDone,
            StartClose, CloseLands, CloseFails, RecordClose, SkipOpen, PlanOpen, PassGate,

            RefuseGate, GateThrows, RecordOpen, OpensDone, SaveBaseline, Abort, Surroundings, SourceEnter,
            SourceExit, Settle, OutsideClose, ScreenerGate, Command, AddWallet, RemoveWallet,
            EnableWallet, DisableWallet, SwitchFollow, vars, LiveShrinks

LEMMA IdBoundStep ==
  ASSUME RecordInv, [Next]_vars
  PROVE  IdBound'
<1> USE DEF RecordInv
<1>1. deploys \in Nat /\ deploys' \in {deploys, deploys + 1}
  BY LiveStep DEF TypeOK
<1>2. \A x \in live : x.position \in Nat /\ x.position <= deploys
  BY DEF TypeOK, Position, IdBound
<1>3. \A m \in file.mirrored \cup work \cup target : m.position \in Nat /\ m.position <= deploys
  BY DEF TypeOK, File, Mirror, IdBound
<1>4. \A x \in live' : x.position <= deploys'
  BY <1>1, <1>2, LiveStep
<1>5. \A m \in file'.mirrored : m.position <= deploys'
  <2>1. TAKE m \in file'.mirrored
  <2>2. \E k \in file.mirrored \cup target : m.position = k.position
    BY <2>1, RecordsStep
  <2>3. PICK k \in file.mirrored \cup target : m.position = k.position
    BY <2>2
  <2>4. k.position \in Nat /\ k.position <= deploys
    BY <1>3
  <2> QED BY <1>1, <2>3, <2>4
<1>6. \A m \in work' \cup target' : m.position <= deploys'
  <2>1. ASSUME work' \cup target' \subseteq work \cup target \cup file.mirrored
        PROVE  \A m \in work' \cup target' : m.position <= deploys'
    BY <1>1, <1>3, <2>1
  <2>2. CASE DeployLands
    <3>1. PICK m \in target : target' = {[m EXCEPT !.position = deploys + 1]}
                             /\ OpenOnChain(m.pool) /\ work' = work
      BY <2>2 DEF DeployLands
    <3>2. [m EXCEPT !.position = deploys + 1].position = deploys + 1
      BY DEF TypeOK, Mirror
    <3>3. deploys' = deploys + 1
      BY <3>1 DEF OpenOnChain
    <3>4. \A k \in work' : k.position <= deploys'
      BY <1>1, <1>3, <3>1, <3>3
    <3>5. \A k \in target' : k.position = deploys + 1
      BY <3>1, <3>2, Zenon
    <3>6. \A k \in target' : k.position <= deploys'
      BY <1>1, <3>3, <3>5
    <3> QED BY <3>4, <3>6
  <2>3. ASSUME NEW p \in Pools, PlanOpen(p)
        PROVE  \A m \in work' \cup target' : m.position <= deploys'
    <3>1. \A m \in target' : m.position = 0
      BY <2>3 DEF PlanOpen
    <3>2. work' = work
      BY <2>3 DEF PlanOpen
    <3> QED BY <1>1, <1>3, <3>1, <3>2
  <2>4. CASE TickStep
    BY <2>1, <2>2, <2>3, <2>4, WorkStep, TargetStep
  <2>5. CASE Surroundings \/ Abort \/ UNCHANGED vars
    <3>1. work' \subseteq work /\ target' \subseteq target
      BY <2>5
         DEF Surroundings, Abort, EndTick, vars, SourceEnter, SourceExit, Settle, OutsideClose,
             ScreenerGate, ScreenerDeploy, Command, AddWallet, RemoveWallet, EnableWallet,
             DisableWallet, SwitchFollow, tick
    <3> QED BY <2>1, <3>1
  <2> QED BY <2>4, <2>5 DEF Next
<1> QED BY <1>4, <1>5, <1>6 DEF IdBound

LEMMA ClosedIsGoneStep ==
  ASSUME RecordInv, [Next]_vars
  PROVE  ClosedIsGone'
<1> USE DEF RecordInv
<1>1. ASSUME NEW m \in file.mirrored \cup work \cup target, m.position \notin Ids(live)
      PROVE  m.position \notin Ids(live')
  <2>1. m.position \in Nat /\ m.position <= deploys /\ deploys \in Nat
    BY DEF TypeOK, File, Mirror, IdBound
  <2> QED BY <1>1, <2>1, LiveStep DEF Ids
<1>2. pc = "opened" => \A m \in target : m.open
  BY DEF ClosedIsGone
<1>3. \A m \in file'.mirrored : m.open \/ m.position \notin Ids(live')
  <2>1. TAKE m \in file'.mirrored
  <2>2. CASE pc = "opened" /\ m \in target
    BY <1>2, <2>2
  <2>3. CASE \E k \in file.mirrored :
               /\ m.position = k.position
               /\ m = k \/ (m.open = FALSE /\ k.position \notin Ids(live))
    BY <1>1, <2>3 DEF ClosedIsGone
  <2> QED BY <2>2, <2>3, RecordsStep
<1>4. (pc' = "closed") => \A m \in target' : m.position \notin Ids(live')
  <2>1. CASE CloseLands
    <3>1. PICK m \in target : live' = {x \in live : x.position # m.position}
      BY <2>1 DEF CloseLands
    <3>2. target' = {m}
      BY <2>1, <3>1 DEF CloseLands, ClosedIsGone
    <3> QED BY <3>1, <3>2 DEF Ids
  <2>2. CASE UNCHANGED tick
    BY <1>1, <2>2 DEF tick, ClosedIsGone
  <2>3. CASE pc' # "closed"
    BY <2>3
  <2> QED BY <2>1, <2>2, <2>3
          DEF Next, TickStep, StartTick, ReadChain, ChainReadFails, FindOrphans, Drain, DrainDone,
              PollWallet, AllPolled, DiffWallet, CheckRecenter, KeepMirror, MirrorExit,
              MirrorsDone, StartClose, CloseFails, RecordClose, AfterClose, SkipOpen, PlanOpen,
              PassGate, RefuseGate, GateThrows, DeployLands, DeployFails, RecordOpen, OpensDone,
              SaveBaseline, Abort, EndTick, Surroundings, SourceEnter, SourceExit, Settle,
              OutsideClose, ScreenerGate, ScreenerDeploy, Command, AddWallet, RemoveWallet,
              EnableWallet, DisableWallet, SwitchFollow, vars
<1>5. (pc' \in {"gate", "deploy", "opened"}) => \A m \in target' : m.open
  <2>1. CASE \E p \in Pools : PlanOpen(p)
    BY <2>1 DEF PlanOpen
  <2>2. CASE DeployLands
    <3>1. PICK m \in target : target' = {[m EXCEPT !.position = deploys + 1]}
      BY <2>2 DEF DeployLands
    <3>2. [m EXCEPT !.position = deploys + 1].open = m.open
      BY DEF TypeOK, Mirror
    <3> QED BY <2>2, <3>1, <3>2 DEF DeployLands, ClosedIsGone
  <2>3. CASE UNCHANGED tick \/ PassGate
    BY <2>3 DEF tick, PassGate, ClosedIsGone
  <2>4. CASE pc' \notin {"gate", "deploy", "opened"}
    BY <2>4
  <2> QED BY <2>1, <2>2, <2>3, <2>4
          DEF Next, TickStep, StartTick, ReadChain, ChainReadFails, FindOrphans, Drain, DrainDone,
              PollWallet, AllPolled, DiffWallet, CheckRecenter, KeepMirror, MirrorExit,
              MirrorsDone, StartClose, CloseLands, CloseFails, RecordClose, AfterClose, SkipOpen,

              RefuseGate, GateThrows, DeployFails, RecordOpen, OpensDone, SaveBaseline, Abort, EndTick,
              Surroundings, SourceEnter, SourceExit, Settle, OutsideClose, ScreenerGate,
              ScreenerDeploy, Command, AddWallet, RemoveWallet, EnableWallet, DisableWallet,
              SwitchFollow, vars
<1>6. \A m, k \in target' : m = k
  <2>1. CASE target' = {} \/ \E m : target' = {m}
    BY <2>1
  <2>2. CASE target' = target
    BY <2>2 DEF ClosedIsGone
  <2> QED BY <2>1, <2>2
          DEF Next, TickStep, StartTick, ReadChain, ChainReadFails, FindOrphans, Drain, DrainDone,
              PollWallet, AllPolled, DiffWallet, CheckRecenter, KeepMirror, MirrorExit,
              MirrorsDone, StartClose, CloseLands, CloseFails, RecordClose, SkipOpen, PlanOpen,
              PassGate, RefuseGate, GateThrows, DeployLands, DeployFails, RecordOpen, OpensDone,
              SaveBaseline, Abort, EndTick, Surroundings, SourceEnter, SourceExit, Settle,
              OutsideClose, ScreenerGate, ScreenerDeploy, Command, AddWallet, RemoveWallet,
              EnableWallet, DisableWallet, SwitchFollow, vars, tick
<1> QED BY <1>3, <1>4, <1>5, <1>6 DEF ClosedIsGone

LEMMA RecordInit == ASSUME Init PROVE RecordInv
<1>1. file.mirrored = {}
  BY DEF Init, EmptyFile
<1> QED BY <1>1, TypeInit DEF Init, RecordInv, IdBound, ClosedIsGone

LEMMA RecordInvStep == ASSUME RecordInv, [Next]_vars PROVE RecordInv'
  BY TypeStep, IdBoundStep, ClosedIsGoneStep DEF RecordInv

(* No record is ever closed over a position that is still on the chain, so  *)
(* none is left that nothing would close: whatever the RPC delays within    *)
(* the grace window, whatever closes a position first, through restarts.    *)
THEOREM ClosedRecordsAreGone == Spec => []ClosedMeansGone
<1>1. RecordInv => ClosedMeansGone
  BY DEF RecordInv, ClosedIsGone, ClosedMeansGone
<1> QED BY <1>1, RecordInit, RecordInvStep, PTL DEF Spec

---------------------------------------------------------------------------
(* An open record is never lost while the file can be read                 *)

LEMMA PruneKeepsOpen ==
  ASSUME NEW R, NEW m \in R, m.open
  PROVE  m \in Prune(R)
  BY DEF Prune, Oldest

LEMMA AddKeepsOpen ==
  ASSUME NEW f \in File, NEW m \in Mirror, m.open, NEW k \in f.mirrored, k.open
  PROVE  k.position \in Ids(AddMirrored(f, m).mirrored)
<1> DEFINE R == {r \in f.mirrored : r.position # m.position} \cup {m}
<1>1. AddMirrored(f, m).mirrored = Prune(R)
  BY DEF AddMirrored, File
<1>2. m \in Prune(R) /\ (k \in R => k \in Prune(R))
  BY PruneKeepsOpen
<1> QED BY <1>1, <1>2 DEF Ids

(* Pruning, closing, editing and restarting keep the record of every open   *)
(* mirror, provided the state file can be read.                             *)
THEOREM OpenRecordsAreKept ==
  ASSUME "file_read" \notin Faults
  PROVE  Spec => OpenMirrorKept
<1>1. Reads = {file}
  BY DEF Reads
<1>2. ASSUME RecordInv, [Next]_vars PROVE KeepsOpenRecords
  <2> USE <1>2 DEF RecordInv
  <2>1. file \in File
    BY DEF TypeOK
  <2>2. ASSUME NEW gone, file'.mirrored = MarkClosed(file.mirrored, gone) PROVE KeepsOpenRecords
    <3> SUFFICES \A k \in OpenMirrors(file) : k.position \in Ids(file'.mirrored)
      BY DEF KeepsOpenRecords
    <3>1. TAKE k \in OpenMirrors(file)
    <3> DEFINE r == IF k \in gone THEN [k EXCEPT !.open = FALSE] ELSE k
    <3>2. k \in file.mirrored /\ k \in Mirror
      BY <2>1, <3>1 DEF OpenMirrors, File
    <3>3. r.position = k.position
      BY <3>2 DEF Mirror
    <3>4. r \in file'.mirrored
      BY <2>2, <3>2 DEF MarkClosed
    <3> QED BY <3>3, <3>4 DEF Ids
  <2>3. CASE ReadChain
    <3>1. PICK view \in ChainViews, f \in Reads :
            file' = [file EXCEPT !.mirrored = MarkClosed(@, Vanished(f, view))]
      BY <2>3 DEF ReadChain
    <3>2. file'.mirrored = MarkClosed(file.mirrored, Vanished(f, view))
      BY <2>1, <3>1 DEF File
    <3> QED BY <2>2, <3>2
  <2>4. CASE RecordClose
    <3>1. PICK m \in target :
            file' = IF m.position \in Ids(file.mirrored)
                    THEN CloseRecord(file, m.position) ELSE file
      BY <1>1, <2>4 DEF RecordClose
    <3>2. CloseRecord(file, m.position).mirrored =
            MarkClosed(file.mirrored, {k \in file.mirrored : k.position = m.position})
      BY <2>1 DEF CloseRecord, File
    <3>3. CASE file' = file
      BY <3>3 DEF KeepsOpenRecords, OpenMirrors, Ids
    <3> QED BY <2>2, <3>1, <3>2, <3>3
  <2>5. CASE RecordOpen
    <3>1. PICK m \in target : file' = AddMirrored(file, m)
      BY <1>1, <2>5 DEF RecordOpen
    <3>2. m \in Mirror /\ m.open
      BY <2>5 DEF RecordOpen, TypeOK, ClosedIsGone
    <3> QED BY <2>1, <3>1, <3>2, AddKeepsOpen DEF KeepsOpenRecords, OpenMirrors
  <2>6. CASE file'.mirrored = file.mirrored
    BY <2>6 DEF KeepsOpenRecords, OpenMirrors, Ids
  <2>7. CASE SaveBaseline
    BY <1>1, <2>1, <2>6, <2>7 DEF SaveBaseline, SetSeen, File
  <2>8. ASSUME NEW w \in Wallets,
               AddWallet(w) \/ RemoveWallet(w) \/ EnableWallet(w) \/ DisableWallet(w)
        PROVE  KeepsOpenRecords
    <3>1. \A status \in Status : [file EXCEPT !.wallets[w] = status].mirrored = file.mirrored
          /\ Forget([file EXCEPT !.wallets[w] = status], w).mirrored = file.mirrored
      BY <2>1, EditType DEF TypeOK
    <3> QED BY <1>1, <2>6, <2>8, <3>1
            DEF AddWallet, RemoveWallet, EnableWallet, DisableWallet, Status
  <2> QED BY <2>3, <2>4, <2>5, <2>6, <2>7, <2>8
          DEF Next, TickStep, StartTick, ChainReadFails, FindOrphans, Drain, DrainDone,
              PollWallet, AllPolled, DiffWallet, CheckRecenter, KeepMirror, MirrorExit,
              MirrorsDone, StartClose, CloseLands, CloseFails, SkipOpen, PlanOpen, PassGate,

              RefuseGate, GateThrows, DeployLands, DeployFails, OpensDone, Abort, Surroundings, SourceEnter,
              SourceExit, Settle, OutsideClose, ScreenerGate, ScreenerDeploy, SwitchFollow,
              others, chain, sources, bounds, vars
<1>3. RecordInv /\ [Next]_vars => [KeepsOpenRecords]_vars
  BY <1>2
<1> QED BY <1>3, RecordInit, RecordInvStep, PTL DEF Spec, OpenMirrorKept

---------------------------------------------------------------------------
(* The cap on mirrors.  The tick counts the open records once, after the     *)
(* drain, and counts along: what it closes must be open, and closed once,    *)
(* for the count to stay at or above the records.                           *)

Open == OpenMirrors(file)

ClosingCopy == pc \in {"closing", "closed"} /\ phase # "drain"
Counting ==
  \/ pc \in {"poll", "baseline", "mirrors", "opens", "gate", "deploy", "opened", "save"}
  \/ ClosingCopy

Budget ==
  /\ \A m, k \in Open : m.position = k.position => m = k
  /\ Cardinality(Open) <= MaxMirrored
  /\ Counting => Cardinality(Open) <= mirrorCount
  /\ pc \in {"gate", "deploy", "opened"} => mirrorCount < MaxMirrored
  /\ pc = "mirrors" \/ ClosingCopy => work \subseteq Open
  /\ ClosingCopy => target \subseteq Open /\ target \cap work = {}

Countable == IsFiniteSet(live) /\ IsFiniteSet(ours)

BudgetInv == RecordInv /\ Countable /\ Budget

LEMMA CountableStep == ASSUME Countable, [Next]_vars PROVE Countable'
<1> USE DEF chain, others, sources, bounds, Countable
<1>1. ASSUME NEW p, OpenOnChain(p) PROVE IsFiniteSet(live')
  BY <1>1, FS_AddElement DEF OpenOnChain
<1>2. CASE DeployLands \/ DeployFails
  BY <1>1, <1>2 DEF DeployLands, DeployFails
<1>3. CASE \E p \in Pools : ScreenerDeploy(p)
  BY <1>1, <1>3 DEF ScreenerDeploy, tick
<1>4. CASE ReadChain
  BY <1>4, FS_Subset DEF ReadChain, ChainViews
<1>5. CASE RecordOpen
  BY <1>5, FS_AddElement DEF RecordOpen
<1>6. CASE live' \subseteq live /\ (ours' \subseteq ours \/ ours' = {})
  BY <1>6, FS_Subset, FS_EmptySet
<1>7. CASE RecordClose
  BY <1>6, <1>7 DEF RecordClose, DropOnePool
<1>8. CASE TickStep
  BY <1>2, <1>4, <1>5, <1>6, <1>7, <1>8
     DEF TickStep, StartTick, ChainReadFails, FindOrphans, Drain, DrainDone, PollWallet,
         AllPolled, DiffWallet, CheckRecenter, KeepMirror, MirrorExit, MirrorsDone, StartClose,
         CloseLands, CloseFails, SkipOpen, PlanOpen, PassGate,
         RefuseGate, GateThrows, OpensDone,
         SaveBaseline, EndTick
<1> QED BY <1>3, <1>6, <1>8
        DEF Next, Abort, EndTick, Surroundings, vars, SourceEnter, SourceExit, Settle,
            OutsideClose, ScreenerGate, Command, AddWallet, RemoveWallet, EnableWallet,
            DisableWallet, SwitchFollow, tick

LEMMA OpenType ==
  ASSUME TypeOK
  PROVE  Open \in SUBSET Mirror /\ IsFiniteSet(Open) /\ Cardinality(Open) \in Nat
<1>1. IsFiniteSet(file.mirrored) /\ file.mirrored \in SUBSET Mirror
  BY DEF TypeOK, File
<1>2. Open \in SUBSET Mirror /\ Open \subseteq file.mirrored
  BY <1>1 DEF Open, OpenMirrors
<1>3. IsFiniteSet(Open)
  BY <1>1, <1>2, FS_Subset
<1> QED BY <1>2, <1>3, FS_CardinalityType

LEMMA SameOpen == file'.mirrored = file.mirrored => Open' = Open
  BY DEF Open, OpenMirrors

LEMMA FewerOpen ==
  ASSUME TypeOK, NEW S, S \subseteq Open
  PROVE  Cardinality(S) \in Nat /\ Cardinality(S) <= Cardinality(Open)
  BY OpenType, FS_Subset, FS_CardinalityType

(* Records that are closed leave the open ones.                             *)
LEMMA ClosingLeaves ==
  ASSUME NEW R \in SUBSET Mirror, NEW gone,
         file'.mirrored = MarkClosed(R, gone), R \subseteq file.mirrored
  PROVE  Open' \subseteq {m \in Open : m \notin gone}
<1> SUFFICES ASSUME NEW k \in Open' PROVE k \in Open /\ k \notin gone
  OBVIOUS
<1>1. k \in MarkClosed(R, gone) /\ k.open
  BY DEF Open, OpenMirrors
<1>2. PICK m \in R : k = IF m \in gone THEN [m EXCEPT !.open = FALSE] ELSE m
  BY <1>1 DEF MarkClosed
<1>3. m \notin gone
  BY <1>1, <1>2 DEF Mirror
<1> QED BY <1>1, <1>2, <1>3 DEF Open, OpenMirrors

(* The steps that write no records.                                        *)
LEMMA RecordsStay ==
  ASSUME TypeOK, Reads = {file}, [Next]_vars, ~ReadChain, ~RecordClose, ~RecordOpen
  PROVE  Open' = Open
<1>1. file \in File
  BY DEF TypeOK
<1>2. CASE SaveBaseline
  BY <1>1, <1>2, SameOpen DEF SaveBaseline, SetSeen, File
<1>3. ASSUME NEW w \in Wallets,
             AddWallet(w) \/ RemoveWallet(w) \/ EnableWallet(w) \/ DisableWallet(w)
      PROVE  Open' = Open
  <2>1. \A status \in Status : [file EXCEPT !.wallets[w] = status].mirrored = file.mirrored
        /\ Forget([file EXCEPT !.wallets[w] = status], w).mirrored = file.mirrored
    BY <1>1, EditType DEF TypeOK
  <2> QED BY <1>3, <2>1, SameOpen
          DEF AddWallet, RemoveWallet, EnableWallet, DisableWallet, Status
<1>4. CASE file' = file
  BY <1>4, SameOpen
<1> QED BY <1>2, <1>3, <1>4
        DEF Next, TickStep, StartTick, ChainReadFails, FindOrphans, Drain, DrainDone,
            PollWallet, AllPolled, DiffWallet, CheckRecenter, KeepMirror, MirrorExit,
            MirrorsDone, StartClose, CloseLands, CloseFails, SkipOpen, PlanOpen, PassGate,

            RefuseGate, GateThrows, DeployLands, DeployFails, OpensDone, Abort, Surroundings, SourceEnter,
            SourceExit, Settle, OutsideClose, ScreenerGate, ScreenerDeploy, SwitchFollow,
            others, chain, sources, bounds, vars

LEMMA BudgetReadChain ==
  ASSUME BudgetInv, ReadChain PROVE Budget'
<1>1. PICK view \in ChainViews, f \in Reads :
        file' = [file EXCEPT !.mirrored = MarkClosed(@, Vanished(f, view))]
  BY DEF ReadChain
<1>2. file'.mirrored = MarkClosed(file.mirrored, Vanished(f, view))
  BY <1>1 DEF BudgetInv, RecordInv, TypeOK, File
<1>3. Open' \subseteq Open
  BY <1>2, ClosingLeaves DEF BudgetInv, RecordInv, TypeOK, File
<1>4. Cardinality(Open') \in Nat /\ Cardinality(Open') <= Cardinality(Open)
  BY <1>3, FewerOpen DEF BudgetInv, RecordInv
<1>5. Cardinality(Open) \in Nat
  BY OpenType DEF BudgetInv, RecordInv
<1>6. pc' = "orphans"
  BY DEF ReadChain
<1> QED BY <1>3, <1>4, <1>5, <1>6, CapAssumption DEF BudgetInv, Budget, Counting, ClosingCopy

LEMMA BudgetRecordClose ==
  ASSUME BudgetInv, Reads = {file}, RecordClose PROVE Budget'
<1> USE DEF BudgetInv, RecordInv
<1>1. PICK m \in target :
        file' = IF m.position \in Ids(file.mirrored) THEN CloseRecord(file, m.position) ELSE file
  BY DEF RecordClose
<1> DEFINE Rest == {k \in Open : k.position # m.position}
<1>2. Open' \subseteq Rest
  <2>1. CASE m.position \in Ids(file.mirrored)
    <3>1. file'.mirrored =
            MarkClosed(file.mirrored, {k \in file.mirrored : k.position = m.position})
      BY <1>1, <2>1 DEF CloseRecord, TypeOK, File
    <3> DEFINE gone == {k \in file.mirrored : k.position = m.position}
    <3>2. file.mirrored \in SUBSET Mirror /\ file'.mirrored = MarkClosed(file.mirrored, gone)
      BY <3>1 DEF TypeOK, File
    <3> HIDE DEF gone
    <3>3. Open' \subseteq {k \in Open : k \notin gone}
      BY <3>2, ClosingLeaves
    <3> QED BY <3>3 DEF Open, OpenMirrors, gone
  <2>2. CASE m.position \notin Ids(file.mirrored)
    <3>1. Open' = Open
      BY <1>1, <2>2, SameOpen
    <3> QED BY <2>2, <3>1 DEF Open, OpenMirrors, Ids
  <2> QED BY <2>1, <2>2
<1>3. Open' \subseteq Open
  BY <1>2
<1>4. /\ Cardinality(Open') \in Nat /\ Cardinality(Open) \in Nat
      /\ Cardinality(Open') <= Cardinality(Open)
  BY <1>3, FewerOpen, OpenType
<1>5. pc = "closed" /\ target' = {}
  BY DEF RecordClose
<1>6. CASE phase = "drain"
  <2>1. pc' = "drain"
    BY <1>6 DEF RecordClose, AfterClose
  <2> QED BY <1>3, <1>4, <2>1, CapAssumption DEF Budget, Counting, ClosingCopy
<1>7. CASE phase # "drain"
  <2>1. pc' = "mirrors" /\ mirrorCount' = mirrorCount - 1 /\ work' = work
    BY <1>7 DEF RecordClose, AfterClose
  <2>2. m \in Open /\ m \notin work /\ work \subseteq Open /\ Cardinality(Open) <= mirrorCount
    BY <1>5, <1>7 DEF Budget, Counting, ClosingCopy
  <2>3. Open' \subseteq Open \ {m}
    BY <1>2
  <2>4. Cardinality(Open \ {m}) = Cardinality(Open) - 1 /\ IsFiniteSet(Open \ {m})
    BY <2>2, OpenType, FS_RemoveElement
  <2>5. Cardinality(Open') <= Cardinality(Open) - 1
    BY <2>3, <2>4, FS_Subset
  <2>6. mirrorCount \in Int
    BY DEF TypeOK
  <2>7. Cardinality(Open') <= mirrorCount'
    BY <1>4, <2>1, <2>2, <2>5, <2>6
  <2>8. work' \subseteq Open'
    <3>1. SUFFICES ASSUME NEW k \in work PROVE k \in Open'
      BY <2>1
    <3>2. k.position # m.position /\ k \in Open
      BY <2>2, <3>1 DEF Budget
    <3>3. k \in file.mirrored /\ k.open /\ file \in File
      BY <3>2 DEF Open, OpenMirrors, TypeOK
    <3>4. k \in CloseRecord(file, m.position).mirrored
      BY <3>2, <3>3 DEF CloseRecord, MarkClosed, File
    <3> QED BY <1>1, <3>3, <3>4 DEF Open, OpenMirrors
  <2> QED BY <1>3, <1>4, <2>1, <2>7, <2>8, CapAssumption DEF Budget, Counting, ClosingCopy
<1> QED BY <1>6, <1>7

LEMMA BudgetRecordOpen ==
  ASSUME BudgetInv, Reads = {file}, RecordOpen PROVE Budget'
<1> USE DEF BudgetInv, RecordInv
<1>1. PICK m \in target : file' = AddMirrored(file, m)
  BY DEF RecordOpen
<1> DEFINE Rest == {k \in Open : k.position # m.position}
<1>2. Open' \subseteq Rest \cup {m}
  <2>1. file'.mirrored = Prune({k \in file.mirrored : k.position # m.position} \cup {m})
    BY <1>1 DEF AddMirrored, TypeOK, File
  <2> QED BY <2>1 DEF Prune, Open, OpenMirrors
<1>3. Open' \subseteq Open \cup {m}
  BY <1>2
<1>4. IsFiniteSet(Open \cup {m}) /\ Cardinality(Open \cup {m}) <= Cardinality(Open) + 1
  <2>1. Cardinality(Open \cup {m}) = IF m \in Open THEN Cardinality(Open) ELSE Cardinality(Open) + 1
    BY OpenType, FS_AddElement
  <2> QED BY <2>1, OpenType, FS_AddElement
<1>5. Cardinality(Open') <= Cardinality(Open \cup {m}) /\ IsFiniteSet(Open')
  BY <1>3, <1>4, FS_Subset
<1>6. Cardinality(Open) \in Nat /\ Cardinality(Open') \in Nat /\ Cardinality(Open \cup {m}) \in Nat
  BY <1>4, <1>5, OpenType, FS_CardinalityType
<1>7. pc = "opened" /\ pc' = "opens" /\ mirrorCount' = mirrorCount + 1 /\ mirrorCount \in Int
  BY DEF RecordOpen, TypeOK
<1>8. Cardinality(Open) <= mirrorCount /\ mirrorCount < MaxMirrored
  BY <1>7 DEF Budget, Counting
<1>9. Cardinality(Open') <= mirrorCount' /\ mirrorCount' <= MaxMirrored
  BY <1>4, <1>5, <1>6, <1>7, <1>8, CapAssumption
<1>10. Cardinality(Open') <= MaxMirrored
  BY <1>6, <1>7, <1>9, CapAssumption
<1>11. \A k, r \in Open' : k.position = r.position => k = r
  BY <1>2 DEF Budget
<1> QED BY <1>7, <1>9, <1>10, <1>11 DEF Budget, Counting, ClosingCopy

LEMMA BudgetDiff ==
  ASSUME BudgetInv, Reads = {file}, DiffWallet, Open' = Open PROVE Budget'
<1> USE DEF BudgetInv, RecordInv
<1>1. pc = "baseline" /\ pc' \in {"save", "mirrors"} /\ mirrorCount' = mirrorCount
  BY DEF DiffWallet
<1>2. PICK s \in snap :
        work' \subseteq
          DiffFollowedWallet(Seen(file, s.wallet), s, PoolsOf(ours),
                             {m \in OpenMirrors(file) : m.wallet = s.wallet}).closes
          \cup OpenMirrors(file)
  BY DEF DiffWallet
<1>3. work' \subseteq Open
  BY <1>2 DEF DiffFollowedWallet, Open
<1> QED BY <1>1, <1>3 DEF Budget, Counting, ClosingCopy

LEMMA BudgetStep ==
  ASSUME BudgetInv, Reads = {file}, [Next]_vars PROVE Budget'
<1> USE DEF BudgetInv, RecordInv
<1>1. CASE ReadChain
  BY <1>1, BudgetReadChain
<1>2. CASE RecordClose
  BY <1>2, BudgetRecordClose
<1>3. CASE RecordOpen
  BY <1>3, BudgetRecordOpen
<1>4. ASSUME ~ReadChain, ~RecordClose, ~RecordOpen PROVE Budget'
  <2>o. Open' = Open
    BY <1>4, RecordsStay
  <2>1. CASE DiffWallet
    BY <2>o, <2>1, BudgetDiff
  <2>2. CASE DrainDone
    <3>1. EndTick \/ (pc' = "poll" /\ mirrorCount' = Cardinality(Open))
      BY <2>2 DEF DrainDone, Open
    <3>2. EndTick => pc' = "idle"
      BY DEF EndTick
    <3>3. Cardinality(Open) \in Nat
      BY OpenType
    <3> QED BY <2>o, <3>1, <3>2, <3>3 DEF Budget, Counting, ClosingCopy
  <2>3. CASE ChainReadFails \/ AllPolled \/ GateThrows \/ Abort
    <3>1. pc' = "idle"
      BY <2>3 DEF ChainReadFails, AllPolled, GateThrows, Abort, EndTick
    <3> QED BY <2>o, <3>1 DEF Budget, Counting, ClosingCopy
  <2>4. CASE StartTick \/ FindOrphans
    <3>1. pc' \in {"chain", "drain"}
      BY <2>4 DEF StartTick, FindOrphans
    <3> QED BY <2>o, <3>1 DEF Budget, Counting, ClosingCopy
  <2>5. CASE Drain
    <3>1. pc' = "closing" /\ phase' = "drain"
      BY <2>5 DEF Drain, StartClose
    <3> QED BY <2>o, <3>1 DEF Budget, Counting, ClosingCopy
  <2>6. CASE CheckRecenter \/ MirrorExit
    <3>1. PICK m \in work, why \in {"recenter", "exit"} : StartClose(m, why) /\ pc = "mirrors"
      BY <2>6 DEF CheckRecenter, MirrorExit
    <3> QED BY <2>o, <3>1 DEF StartClose, Budget, Counting, ClosingCopy
  <2>7. CASE KeepMirror \/ MirrorsDone
    BY <2>o, <2>7 DEF KeepMirror, MirrorsDone, Budget, Counting, ClosingCopy
  <2>8. CASE CloseLands
    BY <2>o, <2>8 DEF CloseLands, Budget, Counting, ClosingCopy
  <2>9. CASE CloseFails
    BY <2>o, <2>9 DEF CloseFails, AfterClose, Budget, Counting, ClosingCopy
  <2>10. ASSUME NEW p \in Pools, PlanOpen(p) PROVE Budget'
    <3>1. MirrorSlots(Cardinality(ours), MaxPositions, mirrorCount, MaxMirrored) > 0
      BY <2>10 DEF PlanOpen, HasSlot
    <3>2. pc = "opens" /\ pc' = "gate" /\ mirrorCount' = mirrorCount
      BY <2>10 DEF PlanOpen
    <3>3. mirrorCount < MaxMirrored
      <4> DEFINE a == MaxPositions - Cardinality(ours)
                 b == MaxMirrored - mirrorCount
      <4>1. mirrorCount \in Int /\ MaxMirrored \in Nat /\ a \in Int /\ b \in Int
        BY CapAssumption, FS_CardinalityType DEF TypeOK, Countable
      <4>2. Smaller(Larger(0, a), Larger(0, b)) > 0
        BY <3>1 DEF MirrorSlots
      <4> HIDE DEF a, b
      <4>3. b > 0
        BY <4>1, <4>2 DEF Smaller, Larger
      <4> QED BY <4>1, <4>3 DEF b
    <3> QED BY <2>o, <3>2, <3>3 DEF Budget, Counting, ClosingCopy
  <2>11. CASE PassGate \/ DeployLands \/ OpensDone \/ SaveBaseline
              \/ \E p \in Pools : SkipOpen(p)
    BY <2>o, <2>11 DEF PassGate, DeployLands, OpensDone, SaveBaseline, SkipOpen,
                       Budget, Counting, ClosingCopy
  <2>12. CASE RefuseGate \/ DeployFails \/ \E w \in Wallets : PollWallet(w)
    BY <2>o, <2>12 DEF RefuseGate, DeployFails, PollWallet, Budget, Counting, ClosingCopy
  <2>13. CASE UNCHANGED tick
    BY <2>o, <2>13 DEF tick, Budget, Counting, ClosingCopy
  <2>14. CASE Surroundings \/ UNCHANGED vars
    BY <2>13, <2>14
       DEF Surroundings, vars, SourceEnter, SourceExit, Settle, OutsideClose, ScreenerGate,
           ScreenerDeploy, Command, AddWallet, RemoveWallet, EnableWallet, DisableWallet,
           SwitchFollow
  <2> QED BY <1>4, <2>1, <2>2, <2>3, <2>4, <2>5, <2>6, <2>7, <2>8, <2>9, <2>10, <2>11, <2>12,
             <2>14 DEF Next, TickStep
<1> QED BY <1>1, <1>2, <1>3, <1>4

LEMMA BudgetInit == ASSUME Init PROVE BudgetInv
<1>1. file.mirrored = {} /\ pc = "idle"
  BY DEF Init, EmptyFile
<1>2. RecordInv
  BY RecordInit
<1>3. Open = {} /\ Cardinality({}) = 0
  BY <1>1, FS_EmptySet DEF Open, OpenMirrors
<1>4. Cardinality(Open) <= MaxMirrored
  BY <1>3, CapAssumption
<1>5. Countable
  BY FS_EmptySet DEF Init, Countable
<1> QED BY <1>1, <1>2, <1>3, <1>4, <1>5 DEF BudgetInv, Budget, Counting, ClosingCopy

LEMMA BudgetInvStep == ASSUME BudgetInv, Reads = {file}, [Next]_vars PROVE BudgetInv'
  BY BudgetStep, CountableStep, TypeStep, IdBoundStep, ClosedIsGoneStep
     DEF BudgetInv, RecordInv

(* mirrorCapacity: follow.maxMirrored is kept, whatever fails or lags, dies  *)
(* or is closed from outside and whatever the operator does in the middle of *)
(* a tick, provided the state file can be read.                             *)
THEOREM MirrorsAreCapped ==
  ASSUME "file_read" \notin Faults
  PROVE  Spec => []MirrorCap
<1>1. Reads = {file}
  BY DEF Reads
<1>2. BudgetInv /\ [Next]_vars => BudgetInv'
  BY <1>1, BudgetInvStep
<1>3. BudgetInv => MirrorCap
  BY DEF BudgetInv, Budget, MirrorCap, Open
<1> QED BY <1>2, <1>3, BudgetInit, PTL DEF Spec

---------------------------------------------------------------------------
(* The cap on positions.  With no other deployer and no lag the gate sees    *)
(* what is there, and between it and the write positions can only close.    *)

Book ==
  /\ fresh = {} /\ screening = {}
  /\ IsFiniteSet(live) /\ Cardinality(live) <= MaxPositions
  /\ pc = "deploy" => Cardinality(live) < MaxPositions

LEMMA BookShrinks ==
  ASSUME Book, live' \subseteq live, fresh' \subseteq fresh, screening' = screening,
         pc' = "deploy" => pc = "deploy"
  PROVE  Book'
<1>1. IsFiniteSet(live') /\ Cardinality(live') <= Cardinality(live)
  BY FS_Subset DEF Book
<1>2. Cardinality(live) \in Nat /\ Cardinality(live') \in Nat
  BY <1>1, FS_CardinalityType DEF Book
<1> QED BY <1>1, <1>2, CapAssumption DEF Book

LEMMA BookGrows ==
  ASSUME Book, "read_lag" \notin Faults, pc = "deploy", pc' # "deploy", screening' = screening,
         NEW p, OpenOnChain(p)
  PROVE  Book'
<1>1. live' = live \cup {[position |-> deploys + 1, pool |-> p]} /\ fresh' = fresh
  BY DEF OpenOnChain
<1>2. IsFiniteSet(live') /\ Cardinality(live') <= Cardinality(live) + 1
  <2>1. IsFiniteSet(live) /\ Cardinality(live) \in Nat
    BY FS_CardinalityType DEF Book
  <2>2. /\ IsFiniteSet(live')
        /\ Cardinality(live') = IF [position |-> deploys + 1, pool |-> p] \in live
                                THEN Cardinality(live) ELSE Cardinality(live) + 1
    BY <1>1, <2>1, FS_AddElement
  <2> QED BY <2>1, <2>2
<1>3. Cardinality(live) \in Nat /\ Cardinality(live') \in Nat
  BY <1>2, FS_CardinalityType DEF Book
<1>4. Cardinality(live') <= MaxPositions
  BY <1>2, <1>3, CapAssumption DEF Book
<1> QED BY <1>1, <1>2, <1>4 DEF Book

LEMMA BookStep ==
  ASSUME Book, "read_lag" \notin Faults, "screener" \notin Faults, [Next]_vars
  PROVE  Book'
<1> USE DEF chain, others, sources, bounds
<1>1. CASE PassGate
  <2>1. ChainViews = {live}
    BY DEF ChainViews, Book
  <2>2. Cardinality(live) < MaxPositions
    BY <1>1, <2>1 DEF PassGate, GateAllows
  <2> QED BY <1>1, <2>2 DEF PassGate, Book
<1>2. CASE DeployLands
  <2>1. PICK m \in target : OpenOnChain(m.pool)
    BY <1>2 DEF DeployLands
  <2> QED BY <1>2, <2>1, BookGrows DEF DeployLands
<1>3. CASE DeployFails
  <2>1. PICK m \in target : UNCHANGED chain \/ OpenOnChain(m.pool)
    BY <1>3 DEF DeployFails
  <2>2. pc = "deploy" /\ pc' = "opens" /\ screening' = screening
    BY <1>3 DEF DeployFails
  <2> QED BY <2>1, <2>2, BookGrows, BookShrinks
<1>4. CASE \E p \in Pools : ScreenerGate(p) \/ ScreenerDeploy(p)
  BY <1>4 DEF ScreenerGate, ScreenerDeploy, Book
<1>5. CASE CloseLands \/ CloseFails \/ RecordClose
  BY <1>5, BookShrinks DEF CloseLands, CloseFails, RecordClose, AfterClose
<1>6. CASE /\ live' \subseteq live /\ fresh' \subseteq fresh /\ screening' = screening
           /\ pc' = "deploy" => pc = "deploy"
  BY <1>6, BookShrinks
<1>7. CASE TickStep
  BY <1>1, <1>2, <1>3, <1>5, <1>6, <1>7
     DEF TickStep, StartTick, ReadChain, ChainReadFails, FindOrphans, Drain, DrainDone,
         PollWallet, AllPolled, DiffWallet, CheckRecenter, KeepMirror, MirrorExit,
         MirrorsDone, StartClose, SkipOpen, PlanOpen,
         RefuseGate, GateThrows, RecordOpen, OpensDone,
         SaveBaseline, EndTick
<1>8. CASE Abort \/ Surroundings \/ UNCHANGED vars
  BY <1>4, <1>6, <1>8
     DEF Abort, EndTick, Surroundings, vars, SourceEnter, SourceExit, Settle, OutsideClose,
         Command, AddWallet, RemoveWallet, EnableWallet, DisableWallet, SwitchFollow, tick
<1> QED BY <1>7, <1>8 DEF Next

(* maxPositionsGate: risk.maxPositions is kept when follow is the only one   *)
(* to deploy and the RPC shows a position once it is there, also where a     *)
(* write reported as failed has taken effect.                               *)
THEOREM PortfolioIsCapped ==
  ASSUME "read_lag" \notin Faults, "screener" \notin Faults
  PROVE  Spec => []PortfolioCap
<1>1. Init => Book
  <2>1. ASSUME Init PROVE live = {} /\ fresh = {} /\ screening = {} /\ pc = "idle"
    BY <2>1 DEF Init
  <2> QED BY <2>1, FS_EmptySet, CapAssumption DEF Book
<1>2. Book /\ [Next]_vars => Book'
  BY BookStep
<1>3. Book => PortfolioCap
  BY DEF Book, PortfolioCap
<1> QED BY <1>1, <1>2, <1>3, PTL DEF Spec

---------------------------------------------------------------------------
(* No pool holds two of our positions, where the tick is the only deployer, *)
(* the RPC shows what is there and a write does what it reports.  Between   *)
(* the two reads of the chain the tick keeps its own list: everything live  *)
(* is on it but the position just deployed, and it lists every open mirror. *)

Seat(m) == [position |-> m.position, pool |-> m.pool]
Apart(S) == \A x, y \in S : x.pool = y.pool => x = y
Opening == pc \in {"gate", "deploy", "opened"}

(* A record of ours, or one about to be made, names the pool of its position. *)
SeatsKnown ==
  \A m \in Open \cup (IF pc = "opened" THEN target ELSE {}), x \in live :
    m.position = x.position => m.pool = x.pool

ListHolds ==
  pc \notin {"idle", "chain"} =>
    /\ Apart(ours)
    /\ \A x \in live \ ours : pc = "opened" /\ \A m \in target : x = Seat(m)
    /\ \A m \in Open : Seat(m) \in ours

(* What is being closed is alone in its pool. *)
ClosingAlone ==
  /\ pc \in {"drain", "mirrors", "closing", "closed"} =>
       \A m \in work, x \in live : x.pool = m.pool => x.position = m.position
  /\ pc \in {"closing", "closed"} =>
       \A m \in target, x \in live : x.pool = m.pool => x.position = m.position

OpensFree ==
  /\ pc \in {"mirrors", "opens"} \/ Opening \/ ClosingCopy => opens \cap PoolsOf(ours) = {}
  /\ Opening => \A m \in target : m.pool \notin PoolsOf(ours) \cup opens

Exposure ==
  /\ fresh = {} /\ screening = {} /\ Apart(live)
  /\ SeatsKnown /\ ListHolds /\ ClosingAlone /\ OpensFree

ExposureInv == BudgetInv /\ Exposure

SureFaults == Faults \cap {"read_lag", "file_read", "screener", "partial_write"} = {}

LEMMA ExposureOutside ==
  ASSUME Exposure, UNCHANGED tick, Open' = Open, live' \subseteq live, fresh' = {}, screening' = {}
  PROVE  Exposure'
  BY DEF Exposure, tick, SeatsKnown, ListHolds, ClosingAlone, OpensFree, Apart, Opening,
         ClosingCopy, Seat, PoolsOf

LEMMA ExposureReset ==
  ASSUME Exposure, pc' \in {"idle", "chain"}, Open' = Open,
         live' = live, fresh' = fresh, screening' = screening
  PROVE  Exposure'
  BY DEF Exposure, SeatsKnown, ListHolds, ClosingAlone, OpensFree, Apart, Opening, ClosingCopy

LEMMA ExposureReadChain ==
  ASSUME ExposureInv, SureFaults, ReadChain
  PROVE  Exposure'
<1> USE DEF ExposureInv, BudgetInv, RecordInv
<1>1. Reads = {file} /\ ChainViews = {live}
  BY DEF Reads, SureFaults, ChainViews, Exposure
<1>2. ours' = live /\ file' = [file EXCEPT !.mirrored = MarkClosed(@, Vanished(file, live))]
  BY <1>1 DEF ReadChain
<1>3. file'.mirrored = MarkClosed(file.mirrored, Vanished(file, live))
  BY <1>2 DEF TypeOK, File
<1>4. Open' \subseteq {m \in Open : m \notin Vanished(file, live)}
  <2>1. file.mirrored \in SUBSET Mirror
    BY DEF TypeOK, File
  <2> DEFINE gone == Vanished(file, live)
  <2>2. file'.mirrored = MarkClosed(file.mirrored, gone)
    BY <1>3
  <2> HIDE DEF gone
  <2>3. Open' \subseteq {m \in Open : m \notin gone}
    BY <2>1, <2>2, ClosingLeaves
  <2> QED BY <2>3 DEF gone
<1>5. \A m \in Open' : m \in Open /\ m.position \in Ids(live)
  BY <1>4 DEF Vanished, Exposure, Open
<1>6. \A m \in Open' : Seat(m) \in live
  <2>1. SUFFICES ASSUME NEW m \in Open' PROVE Seat(m) \in live
    OBVIOUS
  <2>2. PICK x \in live : x.position = m.position
    BY <1>5 DEF Ids
  <2>3. m.pool = x.pool /\ x = [position |-> x.position, pool |-> x.pool]
    BY <1>5, <2>2 DEF Exposure, SeatsKnown, TypeOK, Position
  <2> QED BY <2>2, <2>3 DEF Seat
<1>7. pc' = "orphans" /\ UNCHANGED <<live, fresh, screening>>
  BY DEF ReadChain, chain, others
<1>8. SeatsKnown'
  BY <1>5, <1>7 DEF Exposure, SeatsKnown
<1> QED BY <1>2, <1>6, <1>7, <1>8
        DEF Exposure, ListHolds, ClosingAlone, OpensFree, Opening, ClosingCopy, Apart

(* What is on the list and recorded is alone in its pool. *)
LEMMA OpenIsAlone ==
  ASSUME Exposure, pc \notin {"idle", "chain", "opened"}, NEW m \in Open, NEW x \in live,
         x.pool = m.pool
  PROVE  x.position = m.position
<1>1. x \in ours /\ Seat(m) \in ours /\ Apart(ours)
  BY DEF Exposure, ListHolds
<1>2. Seat(m).pool = m.pool /\ Seat(m).position = m.position
  BY DEF Seat
<1>3. x = Seat(m)
  BY <1>1, <1>2 DEF Apart
<1> QED BY <1>2, <1>3

(* The diff never opens a pool we are in, or one mirrored already. *)
LEMMA DiffOpens ==
  ASSUME NEW seen, NEW s, NEW P, NEW M
  PROVE  LET d == DiffFollowedWallet(seen, s, P, M)
         IN  /\ d.opens \cap P = {} /\ d.opens \subseteq s.pools
             /\ \A m \in M : m.pool \notin d.opens
             /\ d.opens \cap UNION seen = {}
             /\ d.nextSeen \subseteq {s.pools}
             /\ seen = {} => d.opens = {} /\ d.nextSeen = {s.pools}
             /\ s.reliable => d.nextSeen = {s.pools}
             /\ d.closes \subseteq M
<1> DEFINE d == DiffFollowedWallet(seen, s, P, M)
<1>1. CASE seen = {}
  BY <1>1 DEF DiffFollowedWallet
<1>2. CASE seen # {}
  <2>1. /\ d.closes \subseteq M
        /\ d.nextSeen = IF s.reliable THEN {s.pools} ELSE {}
    BY <1>2 DEF DiffFollowedWallet
  <2>2. \A p \in d.opens : p \in s.pools /\ p \notin P /\ p \notin UNION seen
    BY <1>2 DEF DiffFollowedWallet
  <2>3. \A p \in d.opens, m \in M : p # m.pool
    BY <1>2 DEF DiffFollowedWallet
  <2> HIDE DEF d
  <2> QED BY <1>2, <2>1, <2>2, <2>3 DEF d
<1> QED BY <1>1, <1>2

LEMMA ExposureWork ==
  ASSUME ExposureInv, SureFaults, FindOrphans \/ DiffWallet
  PROVE  Exposure'
<1> USE DEF ExposureInv, BudgetInv, RecordInv, chain, others
<1>1. Reads = {file}
  BY DEF Reads, SureFaults
<1>2. Open' = Open
  BY SameOpen DEF FindOrphans, DiffWallet
<1>3. CASE FindOrphans
  <2>1. work' \subseteq Open
    BY <1>1, <1>3 DEF FindOrphans, Orphaned, Open
  <2>2. pc = "orphans" /\ pc' = "drain"
    BY <1>3 DEF FindOrphans
  <2>3. \A m \in work', x \in live : x.pool = m.pool => x.position = m.position
    BY <2>1, <2>2, OpenIsAlone
  <2> QED BY <1>2, <1>3, <2>2, <2>3
          DEF FindOrphans, Exposure, SeatsKnown, ListHolds, ClosingAlone, OpensFree, Opening,
              ClosingCopy
<1>4. CASE DiffWallet
  <2>1. PICK s \in snap :
          LET mine == {m \in OpenMirrors(file) : m.wallet = s.wallet}
              diff == DiffFollowedWallet(Seen(file, s.wallet), s, PoolsOf(ours), mine)
              here == {m \in mine : m.pool \in s.pools}
          IN  /\ opens' = diff.opens
              /\ work' \subseteq diff.closes \cup here
              /\ pc' \in {"save", "mirrors"}
    BY <1>1, <1>4 DEF DiffWallet
  <2>2. work' \subseteq Open
    BY <2>1, DiffOpens DEF Open
  <2>3. opens' \cap PoolsOf(ours) = {}
    BY <2>1, DiffOpens
  <2>4. pc = "baseline"
    BY <1>4 DEF DiffWallet
  <2>5. \A m \in work', x \in live : x.pool = m.pool => x.position = m.position
    BY <2>2, <2>4, OpenIsAlone
  <2> QED BY <1>2, <1>4, <2>1, <2>3, <2>4, <2>5
          DEF DiffWallet, Exposure, SeatsKnown, ListHolds, ClosingAlone, OpensFree, Opening,
              ClosingCopy, PoolsOf
<1> QED BY <1>3, <1>4

LEMMA ExposureRecordClose ==
  ASSUME ExposureInv, SureFaults, RecordClose
  PROVE  Exposure'
<1> USE DEF ExposureInv, BudgetInv, RecordInv
<1>1. Reads = {file}
  BY DEF Reads, SureFaults
<1>2. PICK m \in target :
        /\ file' = IF m.position \in Ids(file.mirrored) THEN CloseRecord(file, m.position) ELSE file
        /\ ours' = IF phase = "drain" THEN {x \in ours : x.position # m.position}
                   ELSE DropOnePool(ours, m.pool)
  BY <1>1 DEF RecordClose
<1>3. /\ pc = "closed" /\ pc' = AfterClose /\ phase' = "none" /\ target' = {}
      /\ UNCHANGED <<live, fresh, screening, work, opens>>
  BY DEF RecordClose, chain, others
<1>4. Open' \subseteq {k \in Open : k.position # m.position}
  <2>1. CASE m.position \in Ids(file.mirrored)
    <3> DEFINE gone == {k \in file.mirrored : k.position = m.position}
    <3>1. file'.mirrored = MarkClosed(file.mirrored, gone) /\ file.mirrored \in SUBSET Mirror
      BY <1>2, <2>1 DEF CloseRecord, TypeOK, File
    <3> HIDE DEF gone
    <3>2. Open' \subseteq {k \in Open : k \notin gone}
      BY <3>1, ClosingLeaves
    <3> QED BY <3>2 DEF Open, OpenMirrors, gone
  <2>2. CASE m.position \notin Ids(file.mirrored)
    <3>1. Open' = Open
      BY <1>2, <2>2, SameOpen
    <3> QED BY <2>2, <3>1 DEF Open, OpenMirrors, Ids
  <2> QED BY <2>1, <2>2
<1>5. \A x \in live : x \in ours /\ x.position # m.position
  BY <1>3 DEF Exposure, ListHolds, ClosedIsGone, Ids
<1>6. ours' \subseteq ours
  BY <1>2 DEF DropOnePool
<1>7. CASE phase = "drain"
  <2>1. \A x \in live : x \in ours'
    BY <1>2, <1>5, <1>7
  <2>2. \A k \in Open' : Seat(k) \in ours'
    BY <1>2, <1>3, <1>4, <1>7 DEF Exposure, ListHolds, Seat
  <2> QED BY <1>3, <1>4, <1>6, <1>7, <2>1, <2>2
          DEF AfterClose, Exposure, SeatsKnown, ListHolds, ClosingAlone, OpensFree, Opening,
              ClosingCopy, Apart
<1>8. CASE phase # "drain"
  <2>1. m \in Open /\ Seat(m) \in ours
    BY <1>3, <1>8 DEF Budget, ClosingCopy, Exposure, ListHolds
  <2>2. PICK y \in ours : y.pool = m.pool /\ ours' = ours \ {y}
    <3>1. m.pool \in PoolsOf(ours)
      <4>1. Seat(m).pool = m.pool
        BY DEF Seat
      <4> QED BY <2>1, <4>1 DEF PoolsOf
    <3> DEFINE y == CHOOSE x \in ours : x.pool = m.pool
    <3>2. y \in ours /\ y.pool = m.pool
      BY <3>1 DEF PoolsOf
    <3>3. ours' = ours \ {y}
      BY <1>2, <1>8, <3>1 DEF DropOnePool
    <3> HIDE DEF y
    <3> QED BY <3>2, <3>3
  <2>3. y = Seat(m)
    BY <1>3, <2>1, <2>2 DEF Exposure, ListHolds, Apart, Seat
  <2>4. \A x \in live : x \in ours'
    BY <1>5, <2>2, <2>3 DEF Seat
  <2>5. \A k \in Open' : Seat(k) \in ours'
    BY <1>3, <1>4, <2>2, <2>3 DEF Exposure, ListHolds, Seat
  <2>6. opens \cap PoolsOf(ours') = {}
    BY <1>3, <1>6, <1>8 DEF Exposure, OpensFree, ClosingCopy, PoolsOf
  <2> QED BY <1>3, <1>4, <1>6, <1>8, <2>4, <2>5, <2>6
          DEF AfterClose, Exposure, SeatsKnown, ListHolds, ClosingAlone, OpensFree, Opening,
              ClosingCopy, Apart
<1> QED BY <1>7, <1>8

LEMMA ExposureDeploy ==
  ASSUME ExposureInv, SureFaults, DeployLands
  PROVE  Exposure'
<1> USE DEF ExposureInv, BudgetInv, RecordInv
<1>1. PICK m \in target :
        OpenOnChain(m.pool) /\ target' = {[m EXCEPT !.position = deploys + 1]}
  BY DEF DeployLands
<1> DEFINE new == [position |-> deploys + 1, pool |-> m.pool]
           n == [m EXCEPT !.position = deploys + 1]
<1>2. m \in Mirror /\ deploys \in Nat
  BY DEF TypeOK
<1>3. n.position = deploys + 1 /\ n.pool = m.pool /\ Seat(n) = new
  BY <1>2 DEF Mirror, Seat
<1>4. /\ live' = live \cup {new} /\ fresh' = {} /\ target' = {n}
      /\ pc = "deploy" /\ pc' = "opened" /\ UNCHANGED <<file, screening, ours, opens>>
  BY <1>1 DEF DeployLands, OpenOnChain, SureFaults, others, Exposure
<1>5. Open' = Open
  BY <1>4, SameOpen
<1>6. \A x \in live : x.position \in Nat /\ x.position <= deploys
  BY DEF IdBound, TypeOK, Position
<1>7. \A k \in Open : k.position \in Nat /\ k.position <= deploys
  BY DEF IdBound, TypeOK, File, Mirror, Open, OpenMirrors
<1>8. m.pool \notin PoolsOf(ours) \cup opens
  BY <1>4 DEF Exposure, OpensFree, Opening
<1>9. \A x \in live : x \in ours
  BY <1>4 DEF Exposure, ListHolds
<1> HIDE DEF n
<1>10. Apart(live')
  <2>1. new.pool = m.pool /\ \A x \in live : x.pool # m.pool
    BY <1>8, <1>9 DEF PoolsOf
  <2>2. Apart(live)
    BY DEF Exposure
  <2> HIDE DEF new
  <2> QED BY <1>4, <2>1, <2>2 DEF Apart
<1>11. SeatsKnown'
  <2>1. new.position = deploys + 1 /\ new.pool = m.pool
    OBVIOUS
  <2>2. \A k \in Open, x \in live' : k.position = x.position => k.pool = x.pool
    <3> HIDE DEF new
    <3> QED BY <1>2, <1>4, <1>7, <2>1 DEF Exposure, SeatsKnown
  <2>3. \A x \in live' : n.position = x.position => n.pool = x.pool
    <3> HIDE DEF new
    <3> QED BY <1>2, <1>3, <1>4, <1>6, <2>1
  <2> QED BY <1>4, <1>5, <2>2, <2>3 DEF SeatsKnown
<1>12. ListHolds'
  BY <1>3, <1>4, <1>5, <1>9 DEF Exposure, ListHolds
<1>13. ClosingAlone' /\ OpensFree'
  BY <1>3, <1>4, <1>8 DEF Exposure, ClosingAlone, OpensFree, Opening, ClosingCopy
<1> QED BY <1>4, <1>10, <1>11, <1>12, <1>13 DEF Exposure

LEMMA ExposureRecordOpen ==
  ASSUME ExposureInv, SureFaults, RecordOpen
  PROVE  Exposure'
<1> USE DEF ExposureInv, BudgetInv, RecordInv
<1>1. Reads = {file}
  BY DEF Reads, SureFaults
<1>2. PICK m \in target : file' = AddMirrored(file, m) /\ ours' = ours \cup {Seat(m)}
  BY <1>1 DEF RecordOpen, Seat
<1>3. /\ pc = "opened" /\ pc' = "opens" /\ phase' = phase
      /\ UNCHANGED <<live, fresh, screening, opens>>
  BY DEF RecordOpen, chain, others
<1>4. Open' \subseteq Open \cup {m}
  <2>1. file'.mirrored = Prune({k \in file.mirrored : k.position # m.position} \cup {m})
    BY <1>2 DEF AddMirrored, TypeOK, File
  <2> QED BY <2>1 DEF Prune, Open, OpenMirrors
<1>5. m.pool \notin PoolsOf(ours) \cup opens /\ Seat(m).pool = m.pool
  BY <1>3 DEF Exposure, OpensFree, Opening, Seat
<1>6. Apart(ours')
  BY <1>2, <1>3, <1>5 DEF Exposure, ListHolds, Apart, PoolsOf
<1>7. \A x \in live : x \in ours'
  BY <1>2, <1>3 DEF Exposure, ListHolds
<1>8. \A k \in Open' : Seat(k) \in ours'
  BY <1>2, <1>3, <1>4 DEF Exposure, ListHolds
<1>9. opens \cap PoolsOf(ours') = {}
  BY <1>2, <1>3, <1>5 DEF Exposure, OpensFree, Opening, PoolsOf
<1>10. SeatsKnown'
  BY <1>2, <1>3, <1>4 DEF Exposure, SeatsKnown
<1> QED BY <1>3, <1>6, <1>7, <1>8, <1>9, <1>10
        DEF Exposure, ListHolds, ClosingAlone, OpensFree, Opening, ClosingCopy

(* The invariant is kept by every step. *)
LEMMA ExposureStep ==
  ASSUME ExposureInv, SureFaults, [Next]_vars
  PROVE  Exposure'
<1> USE DEF ExposureInv, BudgetInv, RecordInv
<1>r. Reads = {file}
  BY DEF Reads, SureFaults
<1>1. CASE ReadChain \/ RecordClose \/ RecordOpen \/ FindOrphans \/ DiffWallet \/ DeployLands
  BY <1>1, ExposureReadChain, ExposureRecordClose, ExposureRecordOpen, ExposureWork,
     ExposureDeploy
<1>2. ASSUME ~ReadChain, ~RecordClose, ~RecordOpen, ~FindOrphans, ~DiffWallet, ~DeployLands
      PROVE  Exposure'
  <2> USE DEF chain, others
  <2>o. Open' = Open
    BY <1>r, <1>2, RecordsStay
  <2>1. CASE StartTick \/ ChainReadFails \/ AllPolled \/ GateThrows \/ Abort
    <3>1. pc' \in {"idle", "chain"} /\ UNCHANGED <<live, fresh, screening>>
      BY <2>1 DEF StartTick, ChainReadFails, AllPolled, GateThrows, Abort, EndTick
    <3> QED BY <2>o, <3>1, ExposureReset
  <2>2. CASE DrainDone
    <3>1. UNCHANGED <<live, fresh, screening>> /\ pc = "drain"
      BY <2>2 DEF DrainDone
    <3>2. EndTick \/ (pc' = "poll" /\ UNCHANGED <<phase, ours>>)
      BY <2>2 DEF DrainDone
    <3>3. CASE EndTick
      BY <2>o, <3>1, <3>3, ExposureReset DEF EndTick
    <3>4. CASE pc' = "poll" /\ UNCHANGED <<phase, ours>>
      BY <2>o, <3>1, <3>4
         DEF Exposure, SeatsKnown, ListHolds, ClosingAlone, OpensFree, Opening, ClosingCopy
    <3> QED BY <3>2, <3>3, <3>4
  <2>3. CASE Drain \/ CheckRecenter \/ MirrorExit
    <3>1. PICK m \in work, why \in {"drain", "recenter", "exit"} :
            StartClose(m, why) /\ pc = IF why = "drain" THEN "drain" ELSE "mirrors"
      BY <2>3 DEF Drain, CheckRecenter, MirrorExit
    <3> QED BY <2>o, <3>1
            DEF StartClose, Exposure, SeatsKnown, ListHolds, ClosingAlone, OpensFree, Opening,
                ClosingCopy
  <2>4. CASE CloseLands \/ CloseFails
    <3>1. /\ live' \subseteq live /\ fresh' = {} /\ UNCHANGED <<screening, ours, opens, work>>
          /\ target' \subseteq target /\ pc = "closing"
          /\ (pc' = "closed" /\ phase' = phase) \/ (pc' = AfterClose /\ target' = {})
      BY <2>4 DEF CloseLands, CloseFails, SureFaults, Exposure
    <3> QED BY <2>o, <3>1
            DEF AfterClose, Exposure, SeatsKnown, ListHolds, ClosingAlone, OpensFree, Opening,
                ClosingCopy, Apart
  <2>5. CASE KeepMirror \/ MirrorsDone \/ OpensDone \/ SaveBaseline
    BY <2>o, <2>5
       DEF KeepMirror, MirrorsDone, OpensDone, SaveBaseline, Exposure, SeatsKnown, ListHolds,
           ClosingAlone, OpensFree, Opening, ClosingCopy
  <2>6. CASE \E p \in Pools : SkipOpen(p)
    BY <2>o, <2>6
       DEF SkipOpen, Exposure, SeatsKnown, ListHolds, ClosingAlone, OpensFree, Opening,
           ClosingCopy
  <2>7. ASSUME NEW p \in Pools, PlanOpen(p) PROVE Exposure'
    <3>1. /\ pc = "opens" /\ pc' = "gate" /\ p \in opens /\ opens' = opens \ {p}
          /\ \A m \in target' : m.pool = p
          /\ UNCHANGED <<live, fresh, screening, ours>>
      BY <2>7 DEF PlanOpen
    <3> QED BY <2>o, <3>1
            DEF Exposure, SeatsKnown, ListHolds, ClosingAlone, OpensFree, Opening, ClosingCopy
  <2>8. CASE PassGate \/ RefuseGate \/ DeployFails
    <3>1. /\ UNCHANGED <<live, fresh, screening, ours, opens, phase>>
          /\ Opening /\ pc # "opened" /\ pc' \in {"deploy", "opens"} /\ target' \subseteq target
      BY <2>8 DEF PassGate, RefuseGate, DeployFails, SureFaults, Opening
    <3> QED BY <2>o, <3>1
            DEF Exposure, SeatsKnown, ListHolds, ClosingAlone, OpensFree, Opening, ClosingCopy
  <2>9. CASE \E w \in Wallets : PollWallet(w)
    BY <2>o, <2>9
       DEF PollWallet, Exposure, SeatsKnown, ListHolds, ClosingAlone, OpensFree, Opening,
           ClosingCopy
  <2>10. CASE Surroundings \/ UNCHANGED vars
    <3>1. UNCHANGED tick /\ live' \subseteq live /\ fresh' = {} /\ screening' = {}
      BY <2>10
         DEF Surroundings, vars, SourceEnter, SourceExit, Settle, OutsideClose, ScreenerGate,
             ScreenerDeploy, Command, AddWallet, RemoveWallet, EnableWallet, DisableWallet,
             SwitchFollow, SureFaults, Exposure
    <3> QED BY <2>o, <3>1, ExposureOutside
  <2> QED BY <1>2, <2>1, <2>2, <2>3, <2>4, <2>5, <2>6, <2>7, <2>8, <2>9, <2>10
          DEF Next, TickStep
<1> QED BY <1>1, <1>2

(* A mirror never goes into a pool we already have a position in            *)
(* (follow-diff.ts 83-86), whatever polls are truncated, positions closed   *)
(* from outside, commands given mid-tick and ticks cut short, provided the  *)
(* file is read, the RPC does not lag, no write half-lands and the screener *)
(* does not deploy too: each of these four can break it.                    *)
THEOREM MirrorsOpenAlone ==
  ASSUME Faults \cap {"read_lag", "file_read", "screener", "partial_write"} = {}
  PROVE  Spec => NoDoubleExposure
<1>1. SureFaults /\ Reads = {file}
  BY DEF SureFaults, Reads
<1>2. Init => ExposureInv
  <2> SUFFICES ASSUME Init PROVE ExposureInv
    OBVIOUS
  <2>1. BudgetInv /\ Open = {}
    BY BudgetInit DEF Open, OpenMirrors, Init, EmptyFile
  <2> QED BY <2>1
          DEF Init, ExposureInv, Exposure, SeatsKnown, ListHolds, ClosingAlone, OpensFree,
              Opening, ClosingCopy, Apart
<1>3. ExposureInv /\ [Next]_vars => ExposureInv'
  BY <1>1, ExposureStep, BudgetInvStep DEF ExposureInv
<1>4. ExposureInv /\ [Next]_vars =>
        (pc = "deploy" /\ pc' = "opened" => \A m \in target : m.pool \notin PoolsOf(live))
  BY DEF ExposureInv, Exposure, ListHolds, OpensFree, Opening, PoolsOf
<1> QED BY <1>2, <1>3, <1>4, PTL DEF Spec, NoDoubleExposure

---------------------------------------------------------------------------
(* What is opened, and when.  A round of the tick is about one wallet and   *)
(* one snapshot of it; what it may open was not in the baseline it read.    *)

Locals ==
  /\ pc = "idle" => todo = {} /\ work = {}
  /\ pc \notin {"closing", "closed", "gate", "deploy", "opened"} => target = {}
  /\ pc = "poll" => snap = {}
  /\ Opening => snap # {}
  /\ pc = "save" => opens = {}
  /\ pc \in {"idle", "chain", "orphans", "drain", "poll", "baseline"} \/ phase = "drain" =>
       opens = {} /\ withheld = {} /\ nextSeen = {}

Seedable ==
  /\ \A w \in Wallets : file.wallets[w] = "absent" => w \notin file.seeded
  /\ todo \subseteq Enabled(file)
  /\ \A s \in snap : s.wallet \in Enabled(file) /\ (s.reliable \/ s.wallet \in file.seeded)

Diffed ==
  /\ \A s \in snap :
       /\ \A m \in work \cup target : m.wallet = s.wallet
       /\ opens \subseteq s.pools
       /\ nextSeen = IF s.reliable /\ pc # "baseline" THEN {s.pools} ELSE {}
       /\ \A m \in Open : m.wallet = s.wallet => m.pool \notin opens
       /\ Opening => \A m \in target : m.pool \in s.pools
  /\ opens \cap withheld = {}
  /\ \A m \in work \cup target : m.pool \notin opens
  /\ Opening => \A m \in target :
       m.pool \notin withheld /\ \A k \in Open : k.wallet = m.wallet => k.pool # m.pool

(* A position of a followed wallet sits in one pool of one wallet. *)
Placed ==
  /\ \A w, v \in Wallets, p, q \in Pools :
       held[w][p] # 0 /\ held[w][p] = held[v][q] => w = v /\ p = q
  /\ \A m \in file.mirrored \cup work \cup target, v \in Wallets, q \in Pools :
       held[v][q] = m.source => v = m.wallet /\ q = m.pool

RoundInv == TypeOK /\ SourceBound /\ Control /\ Locals /\ Seedable /\ Diffed /\ Placed

(* The state file is read, no command lands in the middle of a tick, and    *)
(* the first poll of a wallet sees all its pools.                           *)
SteadyFaults == Faults \cap {"file_read", "edit_mid_tick", "degraded_seed"} = {}

LEMMA LocalsStep ==
  ASSUME TypeOK, Control, Locals, [Next]_vars
  PROVE  Locals'
<1> USE DEF Locals, Control, chain, others, Opening
<1>1. CASE StartTick \/ ReadChain \/ ChainReadFails \/ FindOrphans \/ AllPolled \/ GateThrows
  BY <1>1 DEF StartTick, ReadChain, ChainReadFails, FindOrphans, AllPolled, GateThrows, EndTick
<1>2. CASE Drain \/ CheckRecenter \/ MirrorExit
  BY <1>2 DEF Drain, CheckRecenter, MirrorExit, StartClose
<1>3. CASE DrainDone
  BY <1>3 DEF DrainDone, EndTick
<1>4. CASE \E w \in Wallets : PollWallet(w)
  BY <1>4 DEF PollWallet
<1>5. CASE DiffWallet
  <2>1. PICK s \in snap, f \in Reads, g \in Reads :
          LET mine == {m \in OpenMirrors(g) : m.wallet = s.wallet}
              diff == DiffFollowedWallet(Seen(f, s.wallet), s, PoolsOf(ours), mine)
          IN  /\ opens' = diff.opens
              /\ pc' = IF diff.seedOnly THEN "save" ELSE "mirrors"
    BY <1>5 DEF DiffWallet
  <2>2. pc' \in {"save", "mirrors"} /\ (pc' = "save" => opens' = {})
    BY <2>1 DEF DiffFollowedWallet
  <2> QED BY <1>5, <2>2 DEF DiffWallet
<1>6. CASE KeepMirror \/ MirrorsDone \/ OpensDone \/ SaveBaseline
  BY <1>6 DEF KeepMirror, MirrorsDone, OpensDone, SaveBaseline
<1>7. CASE CloseLands \/ CloseFails \/ RecordClose
  BY <1>7 DEF CloseLands, CloseFails, RecordClose, AfterClose
<1>8. CASE \E p \in Pools : SkipOpen(p) \/ PlanOpen(p)
  BY <1>8 DEF SkipOpen, PlanOpen
<1>9. CASE PassGate \/ RefuseGate \/ DeployLands \/ DeployFails \/ RecordOpen
  BY <1>9 DEF PassGate, RefuseGate, DeployLands, DeployFails, RecordOpen
<1>10. CASE Abort
  BY <1>10 DEF Abort, EndTick
<1>11. CASE UNCHANGED tick
  BY <1>11 DEF tick
<1> QED BY <1>1, <1>2, <1>3, <1>4, <1>5, <1>6, <1>7, <1>8, <1>9, <1>10, <1>11
        DEF Next, TickStep, Surroundings, vars, SourceEnter, SourceExit, Settle, OutsideClose,
            ScreenerGate, ScreenerDeploy, Command, AddWallet, RemoveWallet, EnableWallet,
            DisableWallet, SwitchFollow

(* The operator's commands, between two ticks. *)
Edited ==
  \/ \E w \in Wallets : AddWallet(w) \/ RemoveWallet(w) \/ EnableWallet(w) \/ DisableWallet(w)
  \/ SwitchFollow

LEMMA EditStep ==
  ASSUME TypeOK, SteadyFaults, Edited
  PROVE  /\ pc = "idle" /\ UNCHANGED <<held, entries, tick, failed>>
         /\ file'.mirrored = file.mirrored
         /\ file'.seeded \subseteq file.seeded
         /\ \A w \in file'.seeded : file'.seen[w] = file.seen[w]
         /\ \A w \in Wallets : file'.wallets[w] = "absent" =>
              file.wallets[w] = "absent" \/ w \notin file'.seeded
<1>1. Reads = {file} /\ file \in File
  BY DEF Reads, SteadyFaults, TypeOK
<1>2. pc = "idle" /\ UNCHANGED <<held, entries, tick, failed>>
  BY DEF Edited, AddWallet, RemoveWallet, EnableWallet, DisableWallet, SwitchFollow, Command,
         SteadyFaults, sources
<1>3. ASSUME NEW w \in Wallets, NEW status \in {"absent", "enabled", "disabled"}
      PROVE  LET g == [file EXCEPT !.wallets[w] = status]
             IN  /\ g.mirrored = file.mirrored /\ g.seeded = file.seeded /\ g.seen = file.seen
                 /\ g.wallets = [file.wallets EXCEPT ![w] = status]
                 /\ g \in File
  BY <1>1 DEF File, Status
<1>4. ASSUME NEW w \in Wallets, NEW g \in File
      PROVE  LET h == Forget(g, w)
             IN  /\ h.mirrored = g.mirrored /\ h.seeded = g.seeded \ {w}
                 /\ \A v \in h.seeded : h.seen[v] = g.seen[v]
                 /\ h.wallets = g.wallets
  <2>1. \A v \in g.seeded \ {w} : [g.seen EXCEPT ![w] = {}][v] = g.seen[v]
    BY DEF File
  <2> QED BY <2>1 DEF Forget, File
<1>5. ASSUME NEW w \in Wallets, NEW status \in {"enabled", "disabled"},
             file' = [file EXCEPT !.wallets[w] = status]
      PROVE  /\ file'.mirrored = file.mirrored /\ file'.seeded = file.seeded
             /\ file'.seen = file.seen
             /\ \A v \in Wallets : file'.wallets[v] = "absent" => file.wallets[v] = "absent"
  <2>1. /\ file'.mirrored = file.mirrored /\ file'.seeded = file.seeded
        /\ file'.seen = file.seen /\ file'.wallets = [file.wallets EXCEPT ![w] = status]
    BY <1>3, <1>5
  <2> QED BY <1>1, <2>1 DEF File
<1>6. ASSUME NEW w \in Wallets, NEW status \in {"absent", "enabled"},
             file' = Forget([file EXCEPT !.wallets[w] = status], w)
      PROVE  /\ file'.mirrored = file.mirrored /\ file'.seeded = file.seeded \ {w}
             /\ \A v \in file'.seeded : file'.seen[v] = file.seen[v]
             /\ \A v \in Wallets : file'.wallets[v] = "absent" =>
                  file.wallets[v] = "absent" \/ v \notin file'.seeded
  <2> DEFINE g == [file EXCEPT !.wallets[w] = status]
  <2>1. /\ g.mirrored = file.mirrored /\ g.seeded = file.seeded /\ g.seen = file.seen
        /\ g.wallets = [file.wallets EXCEPT ![w] = status] /\ g \in File
    BY <1>3
  <2>2. file' = Forget(g, w)
    BY <1>6
  <2> HIDE DEF g
  <2>3. /\ file'.mirrored = g.mirrored /\ file'.seeded = g.seeded \ {w}
        /\ \A v \in file'.seeded : file'.seen[v] = g.seen[v]
        /\ file'.wallets = g.wallets
    BY <1>4, <2>1, <2>2
  <2> QED BY <1>1, <2>1, <2>3 DEF File
<1>7. ASSUME NEW w \in Wallets, AddWallet(w) \/ DisableWallet(w)
      PROVE  \E status \in {"enabled", "disabled"} : file' = [file EXCEPT !.wallets[w] = status]
  BY <1>1, <1>7 DEF AddWallet, DisableWallet
<1>8. ASSUME NEW w \in Wallets, RemoveWallet(w) \/ EnableWallet(w)
      PROVE  \E status \in {"absent", "enabled"} :
               file' = Forget([file EXCEPT !.wallets[w] = status], w)
  BY <1>8 DEF RemoveWallet, EnableWallet
<1>9. CASE SwitchFollow
  BY <1>2, <1>9 DEF SwitchFollow
<1> QED BY <1>2, <1>5, <1>6, <1>7, <1>8, <1>9 DEF Edited

(* Only the last step of a round writes the wallet part of the file. *)
LEMMA TickFile ==
  ASSUME TypeOK, Reads = {file}, TickStep \/ Abort
  PROVE  /\ file'.wallets = file.wallets
         /\ ~SaveBaseline => file'.seeded = file.seeded /\ file'.seen = file.seen
<1>1. file \in File
  BY DEF TypeOK
<1>2. CASE ReadChain
  <2>1. PICK R : file' = [file EXCEPT !.mirrored = R]
    BY <1>2 DEF ReadChain
  <2> QED BY <1>1, <2>1 DEF File
<1>3. CASE RecordClose
  <2>1. PICK m \in target : file' = file \/ file' = CloseRecord(file, m.position)
    BY <1>3 DEF RecordClose
  <2> QED BY <1>1, <2>1 DEF CloseRecord, File
<1>4. CASE RecordOpen
  <2>1. PICK m \in target : file' = AddMirrored(file, m)
    BY <1>4 DEF RecordOpen
  <2> QED BY <1>1, <2>1 DEF AddMirrored, File
<1>5. CASE SaveBaseline
  <2>1. PICK w, P : file' = file \/ file' = SetSeen(file, w, P)
    BY <1>5 DEF SaveBaseline
  <2> QED BY <1>1, <1>5, <2>1 DEF SetSeen, File
<1>6. CASE file' = file
  BY <1>6
<1> QED BY <1>2, <1>3, <1>4, <1>5, <1>6
        DEF TickStep, StartTick, ChainReadFails, FindOrphans, Drain, DrainDone, PollWallet,
            AllPolled, DiffWallet, CheckRecenter, KeepMirror, MirrorExit, MirrorsDone,
            StartClose, CloseLands, CloseFails, SkipOpen, PlanOpen, PassGate,
            RefuseGate, GateThrows,
            DeployLands, DeployFails, OpensDone, Abort

LEMMA SaveStep ==
  ASSUME TypeOK, Reads = {file}, SaveBaseline
  PROVE  \E s \in snap :
           /\ file'.wallets = file.wallets /\ file'.mirrored = file.mirrored
           /\ IF nextSeen = {} THEN file' = file
              ELSE /\ file'.seeded = file.seeded \cup {s.wallet}
                   /\ file'.seen = [file.seen EXCEPT ![s.wallet] = (UNION nextSeen) \ withheld]
<1>1. PICK s \in snap :
        file' = IF nextSeen = {} THEN file
                ELSE SetSeen(file, s.wallet, (UNION nextSeen) \ withheld)
  BY DEF SaveBaseline
<1> QED BY <1>1 DEF SetSeen, TypeOK, File

LEMMA SeedableStep ==
  ASSUME TypeOK, Control, Locals, Seedable, SteadyFaults, [Next]_vars
  PROVE  Seedable'
<1> USE DEF chain, others
<1>r. Reads = {file}
  BY DEF Reads, SteadyFaults
<1>1. CASE SaveBaseline
  <2>1. PICK s \in snap :
          /\ file'.wallets = file.wallets
          /\ file' = file \/ file'.seeded = file.seeded \cup {s.wallet}
    BY <1>r, <1>1, SaveStep
  <2>2. snap' = {} /\ todo' = todo
    BY <1>1 DEF SaveBaseline
  <2>3. file.wallets[s.wallet] # "absent"
    BY DEF Seedable, Enabled
  <2> QED BY <2>1, <2>2, <2>3 DEF Seedable, Enabled
<1>2. CASE \E w \in Wallets : PollWallet(w)
  <2>0. PICK w \in todo : PollWallet(w)
    BY <1>2 DEF PollWallet
  <2>1. PICK s \in Snapshots(w) : snap' = {s} /\ todo' = todo \ {w} /\ file' = file
    BY <2>0 DEF PollWallet
  <2>2. s.wallet = w /\ (s.reliable \/ w \in file.seeded)
    BY <2>1 DEF Snapshots, SteadyFaults
  <2> QED BY <2>1, <2>2 DEF Seedable, Enabled
<1>3. CASE Edited
  <2>1. todo = {} /\ snap = {} /\ UNCHANGED tick
    BY <1>3, EditStep DEF Locals, Control
  <2> QED BY <1>3, <2>1, EditStep DEF Seedable, tick
<1>4. ASSUME UNCHANGED <<file, snap>>, todo' = todo \/ todo' = {} \/ todo' = Enabled(file)
      PROVE  Seedable'
  BY <1>4 DEF Seedable, Enabled
<1>5. ASSUME file'.wallets = file.wallets, file'.seeded = file.seeded,
             snap' = snap \/ snap' = {}, todo' = todo \/ todo' = {} \/ todo' = Enabled(file)
      PROVE  Seedable'
  BY <1>5 DEF Seedable, Enabled
<1>6. ASSUME TickStep \/ Abort, ~SaveBaseline, ~ \E w \in Wallets : PollWallet(w)
      PROVE  Seedable'
  <2>1. (snap' = snap \/ snap' = {}) /\ (todo' = todo \/ todo' = {} \/ todo' = Enabled(file))
    BY <1>6
       DEF TickStep, StartTick, ReadChain, ChainReadFails, FindOrphans, Drain, DrainDone,
           AllPolled, DiffWallet, CheckRecenter, KeepMirror, MirrorExit, MirrorsDone, StartClose,
           CloseLands, CloseFails, RecordClose, SkipOpen, PlanOpen, PassGate,
           RefuseGate, GateThrows,
           DeployLands, DeployFails, RecordOpen, OpensDone, Abort, EndTick
  <2> QED BY <1>r, <1>5, <1>6, <2>1, TickFile
<1>7. CASE UNCHANGED <<file, tick>>
  BY <1>4, <1>7 DEF tick
<1> QED BY <1>1, <1>2, <1>3, <1>6, <1>7
        DEF Next, Surroundings, Edited, vars, SourceEnter, SourceExit, Settle, OutsideClose,
            ScreenerGate, ScreenerDeploy

LEMMA PlacedStep ==
  ASSUME TypeOK, SourceBound, Placed, [Next]_vars
  PROVE  Placed'
<1> USE DEF chain, others, sources
<1> DEFINE At(m) ==
             \A v \in Wallets, q \in Pools :
               held[v][q] = m.source => v = m.wallet /\ q = m.pool
<1>1. CASE TickStep
  <2>1. held' = held
    BY <1>1 DEF TickStep, StartTick, ReadChain, ChainReadFails, FindOrphans, Drain, DrainDone,
          PollWallet, AllPolled, DiffWallet, CheckRecenter, KeepMirror, MirrorExit, MirrorsDone,
          StartClose, CloseLands, CloseFails, RecordClose, SkipOpen, PlanOpen, PassGate,
          RefuseGate, GateThrows, DeployLands, DeployFails, RecordOpen, OpensDone, SaveBaseline
  <2>2. \A m \in file.mirrored \cup work \cup target : At(m)
    BY DEF Placed
  <2>3. \A m \in file'.mirrored : At(m)
    <3>1. TAKE m \in file'.mirrored
    <3>2. PICK k \in file.mirrored \cup target :
            m.pool = k.pool /\ m.wallet = k.wallet /\ m.source = k.source
      BY <1>1, TickRecords
    <3> QED BY <2>2, <3>2
  <2>4. \A m \in work' : At(m)
    BY <1>1, <2>2, WorkStep
  <2>5. \A m \in target' : At(m)
    <3>1. ASSUME NEW p \in Pools, PlanOpen(p) PROVE \A m \in target' : At(m)
      <4>1. PICK s \in snap : \E theirs \in PositionsInPool(s.wallet, p) :
              \E id \in theirs.position :
                target' = {[position |-> 0, pool |-> p, wallet |-> s.wallet, source |-> id,
                            open |-> TRUE]}
        BY <3>1 DEF PlanOpen
      <4>2. target' = {[position |-> 0, pool |-> p, wallet |-> s.wallet,
                        source |-> held[s.wallet][p], open |-> TRUE]}
            /\ held[s.wallet][p] # 0
        BY <4>1 DEF PositionsInPool
      <4>3. s.wallet \in Wallets
        BY DEF TypeOK, Snapshot
      <4>4. \A v \in Wallets, q \in Pools : held[v][q] = held[s.wallet][p] => v = s.wallet /\ q = p
        BY <4>2, <4>3 DEF Placed
      <4> QED BY <4>2, <4>4
    <3>2. CASE DeployLands
      <4>1. PICK m \in target : target' = {[m EXCEPT !.position = deploys + 1]}
        BY <3>2 DEF DeployLands
      <4> DEFINE n == [m EXCEPT !.position = deploys + 1]
      <4>2. n.source = m.source /\ n.wallet = m.wallet /\ n.pool = m.pool
        BY DEF TypeOK, Mirror
      <4> HIDE DEF n
      <4>3. At(m)
        BY <2>2, <4>1
      <4>4. At(n)
        BY <4>2, <4>3
      <4> HIDE DEF At
      <4> QED BY <4>1, <4>4 DEF n
    <3>3. CASE target' \subseteq target \cup work
      BY <2>2, <3>3
    <3> QED BY <1>1, <3>1, <3>2, <3>3, TargetStep
  <2> HIDE DEF At
  <2>6. \A m \in file'.mirrored \cup work' \cup target' : At(m)
    BY <2>3, <2>4, <2>5
  <2> QED BY <2>1, <2>6 DEF Placed, At
<1>2. ASSUME Surroundings \/ Abort \/ UNCHANGED vars
      PROVE  file'.mirrored \cup work' \cup target' \subseteq file.mirrored \cup work \cup target
  <2>1. work' \subseteq work /\ target' \subseteq target
    BY <1>2
       DEF Surroundings, Abort, EndTick, vars, SourceEnter, SourceExit, Settle, OutsideClose,
           ScreenerGate, ScreenerDeploy, Command, AddWallet, RemoveWallet, EnableWallet,
           DisableWallet, SwitchFollow, tick
  <2>2. file'.mirrored \subseteq file.mirrored
    BY <1>2, OutsideRecords
  <2> QED BY <2>1, <2>2
<1>3. \A w \in Wallets, p \in Pools : held[w][p] \in Nat /\ held[w][p] <= entries
  BY DEF TypeOK, SourceBound
<1>4. \A m \in file.mirrored \cup work \cup target :
        m.source \in Nat /\ 1 <= m.source /\ m.source <= entries
  BY DEF TypeOK, SourceBound, File, Mirror
<1>5. ASSUME NEW w \in Wallets, NEW p \in Pools, SourceEnter(w, p) PROVE Placed'
  <2>1. \A v \in Wallets, q \in Pools :
          held'[v][q] = IF v = w /\ q = p THEN entries + 1 ELSE held[v][q]
    BY <1>5 DEF SourceEnter, TypeOK
  <2>2. entries \in Nat
    BY DEF TypeOK
  <2>3. \A v, u \in Wallets, q, r \in Pools :
          held'[v][q] # 0 /\ held'[v][q] = held'[u][r] => v = u /\ q = r
    BY <1>3, <2>1, <2>2 DEF Placed
  <2>4. \A m \in file.mirrored \cup work \cup target, v \in Wallets, q \in Pools :
          held'[v][q] = m.source => held[v][q] = m.source
    BY <1>4, <2>1, <2>2
  <2> QED BY <1>2, <1>5, <2>3, <2>4 DEF Placed, Surroundings
<1>6. ASSUME NEW w \in Wallets, NEW p \in Pools, SourceExit(w, p) PROVE Placed'
  <2>1. \A v \in Wallets, q \in Pools :
          held'[v][q] = IF v = w /\ q = p THEN 0 ELSE held[v][q]
    BY <1>6 DEF SourceExit, TypeOK
  <2>2. \A v, u \in Wallets, q, r \in Pools :
          held'[v][q] # 0 /\ held'[v][q] = held'[u][r] => v = u /\ q = r
    BY <2>1 DEF Placed
  <2>3. \A m \in file.mirrored \cup work \cup target, v \in Wallets, q \in Pools :
          held'[v][q] = m.source => held[v][q] = m.source
    BY <1>4, <2>1
  <2> QED BY <1>2, <1>6, <2>2, <2>3 DEF Placed, Surroundings
<1>7. ASSUME Surroundings \/ Abort \/ UNCHANGED vars, held' = held PROVE Placed'
  BY <1>2, <1>7 DEF Placed
<1> QED BY <1>1, <1>5, <1>6, <1>7
        DEF Next, Surroundings, Abort, vars, Settle, OutsideClose, ScreenerGate, ScreenerDeploy,
            Command, AddWallet, RemoveWallet, EnableWallet, DisableWallet, SwitchFollow

(* The records after a step of the tick, seen from the open ones. *)
LEMMA OpenStep ==
  ASSUME RecordInv, Reads = {file}, [Next]_vars
  PROVE  Open' \subseteq Open \cup (IF RecordOpen THEN target ELSE {})
<1> USE DEF RecordInv
<1>1. CASE ReadChain
  <2>1. PICK gone : file' = [file EXCEPT !.mirrored = MarkClosed(@, gone)]
    BY <1>1 DEF ReadChain
  <2>2. file'.mirrored = MarkClosed(file.mirrored, gone) /\ file.mirrored \in SUBSET Mirror
    BY <2>1 DEF TypeOK, File
  <2> QED BY <2>2, ClosingLeaves
<1>2. CASE RecordClose
  <2>1. PICK m \in target : file' = file \/ file' = CloseRecord(file, m.position)
    BY <1>2 DEF RecordClose
  <2>2. CASE file' = file
    BY <2>2, SameOpen
  <2>3. CASE file' = CloseRecord(file, m.position)
    <3> DEFINE gone == {k \in file.mirrored : k.position = m.position}
    <3>1. file'.mirrored = MarkClosed(file.mirrored, gone) /\ file.mirrored \in SUBSET Mirror
      BY <2>3 DEF CloseRecord, TypeOK, File
    <3> HIDE DEF gone
    <3> QED BY <3>1, ClosingLeaves
  <2> QED BY <2>1, <2>2, <2>3
<1>3. CASE RecordOpen
  <2>1. PICK m \in target : file' = AddMirrored(file, m)
    BY <1>3 DEF RecordOpen
  <2>2. file'.mirrored = Prune({k \in file.mirrored : k.position # m.position} \cup {m})
    BY <2>1 DEF AddMirrored, TypeOK, File
  <2>3. Open' \subseteq Open \cup {m}
    BY <2>2 DEF Prune, Open, OpenMirrors
  <2> QED BY <1>3, <2>3
<1>4. CASE ~ReadChain /\ ~RecordClose /\ ~RecordOpen
  BY <1>4, RecordsStay
<1> QED BY <1>1, <1>2, <1>3, <1>4

LEMMA DiffedStep ==
  ASSUME RecordInv, Control, Locals, Seedable, Diffed, SteadyFaults, [Next]_vars
  PROVE  Diffed'
<1> USE DEF RecordInv, chain, others, Opening
<1>r. Reads = {file}
  BY DEF Reads, SteadyFaults
<1>o. Open' \subseteq Open \cup (IF RecordOpen THEN target ELSE {})
  BY <1>r, OpenStep
<1>0. ASSUME snap' = {}, opens' = {}, target' = {} PROVE Diffed'
  BY <1>0 DEF Diffed
<1>1. CASE StartTick \/ ReadChain \/ ChainReadFails \/ FindOrphans \/ AllPolled \/ Abort
           \/ DrainDone \/ Drain \/ GateThrows
  <2>2. opens' = {} /\ snap' = {} /\ withheld' = {}
    BY <1>1 DEF StartTick, ReadChain, ChainReadFails, FindOrphans, AllPolled, Abort, DrainDone,
                Drain, GateThrows, StartClose, EndTick, Control, Locals
  <2>3. ~Opening'
    BY <1>1 DEF StartTick, ReadChain, ChainReadFails, FindOrphans, AllPolled, Abort, DrainDone,
                Drain, GateThrows, StartClose, EndTick
  <2> QED BY <2>2, <2>3 DEF Diffed
<1>2. CASE \E w \in Wallets : PollWallet(w)
  <2>1. /\ opens' = {} /\ withheld' = {} /\ nextSeen' = {} /\ pc' = "baseline"
        /\ work' = {} /\ target' = {}
    BY <1>2 DEF PollWallet, Locals, Control
  <2> QED BY <2>1 DEF Diffed
<1>3. CASE DiffWallet
  <2>1. PICK s \in snap :
          LET mine == {m \in OpenMirrors(file) : m.wallet = s.wallet}
              diff == DiffFollowedWallet(Seen(file, s.wallet), s, PoolsOf(ours), mine)
              here == {m \in mine : m.pool \in s.pools}
          IN  /\ opens' = diff.opens /\ nextSeen' = diff.nextSeen
              /\ work' \subseteq diff.closes \cup here
              /\ pc' \in {"save", "mirrors"}
    BY <1>r, <1>3 DEF DiffWallet
  <2> DEFINE mine == {m \in OpenMirrors(file) : m.wallet = s.wallet}
             diff == DiffFollowedWallet(Seen(file, s.wallet), s, PoolsOf(ours), mine)
  <2>2. work' \subseteq mine /\ opens' \subseteq s.pools /\ \A m \in mine : m.pool \notin opens'
    BY <2>1, DiffOpens
  <2>3. s.reliable => nextSeen' = {s.pools}
    BY <2>1, DiffOpens
  <2>4. ~s.reliable => nextSeen' = {}
    <3>1. ~s.reliable => Seen(file, s.wallet) # {}
      BY DEF Seedable, Seen
    <3> QED BY <2>1, <3>1 DEF DiffFollowedWallet
  <2>5. withheld' = {} /\ target' = {} /\ snap' = snap /\ pc = "baseline" /\ file' = file
    BY <1>3 DEF DiffWallet, Locals
  <2>6. \A t \in snap : t = s
    BY DEF Control
  <2>7. Open' = Open /\ \A m \in Open : m.wallet = s.wallet => m \in mine
    BY <2>5, SameOpen DEF Open
  <2> HIDE DEF mine
  <2>8. \A m \in work' : m.wallet = s.wallet
    BY <2>2 DEF mine
  <2> QED BY <2>1, <2>2, <2>3, <2>4, <2>5, <2>6, <2>7, <2>8 DEF Diffed
<1>4. CASE CheckRecenter \/ MirrorExit
  <2>1. PICK m \in work, why \in {"recenter", "exit"} : StartClose(m, why) /\ pc = "mirrors"
    BY <1>4 DEF CheckRecenter, MirrorExit
  <2>2. Open' = Open
    BY <2>1, SameOpen DEF StartClose
  <2> QED BY <2>1, <2>2 DEF StartClose, Diffed
<1>5. CASE KeepMirror \/ MirrorsDone \/ OpensDone
  <2>1. Open' = Open
    BY <1>5, SameOpen DEF KeepMirror, MirrorsDone, OpensDone
  <2> QED BY <1>5, <2>1 DEF KeepMirror, MirrorsDone, OpensDone, Diffed
<1>6. CASE CloseLands \/ CloseFails
  <2>1. Open' = Open
    BY <1>6, SameOpen DEF CloseLands, CloseFails
  <2> QED BY <1>6, <2>1 DEF CloseLands, CloseFails, AfterClose, Diffed
<1>7. CASE RecordClose
  <2>1. Open' \subseteq Open
    BY <1>o, <1>7 DEF RecordClose, RecordOpen
  <2> QED BY <1>7, <2>1 DEF RecordClose, AfterClose, Diffed
<1>8. ASSUME NEW p \in Pools, SkipOpen(p) PROVE Diffed'
  <2>1. Open' = Open
    BY <1>8, SameOpen DEF SkipOpen
  <2>2. withheld' \subseteq withheld \cup {p}
    BY <1>8 DEF SkipOpen, HeldBack
  <2> QED BY <1>8, <2>1, <2>2 DEF SkipOpen, Diffed
<1>9. ASSUME NEW p \in Pools, PlanOpen(p) PROVE Diffed'
  <2>1. PICK s \in snap :
          \E id : target' = {[position |-> 0, pool |-> p, wallet |-> s.wallet, source |-> id,
                              open |-> TRUE]}
    BY <1>9 DEF PlanOpen
  <2>2. \A m \in target' : m.pool = p /\ m.wallet = s.wallet
    BY <2>1
  <2>3. /\ pc = "opens" /\ pc' = "gate" /\ p \in opens /\ opens' = opens \ {p}
        /\ UNCHANGED <<file, snap, work, withheld, nextSeen>>
    BY <1>9 DEF PlanOpen
  <2>4. Open' = Open
    BY <2>3, SameOpen
  <2>5. \A t \in snap : t = s
    BY DEF Control
  <2> QED BY <2>2, <2>3, <2>4, <2>5 DEF Diffed
<1>10. CASE PassGate \/ RefuseGate
  <2>1. Open' = Open
    BY <1>10, SameOpen DEF PassGate, RefuseGate
  <2> QED BY <1>10, <2>1 DEF PassGate, RefuseGate, Diffed
<1>11. CASE DeployLands
  <2>1. PICK m \in target : target' = {[m EXCEPT !.position = deploys + 1]}
    BY <1>11 DEF DeployLands
  <2>2. \A n \in target' : n.wallet = m.wallet /\ n.pool = m.pool
    BY <2>1 DEF TypeOK, Mirror
  <2>3. Open' = Open
    BY <1>11, SameOpen DEF DeployLands
  <2>4. /\ pc = "deploy" /\ pc' = "opened"
        /\ UNCHANGED <<snap, work, opens, withheld, nextSeen>>
    BY <1>11 DEF DeployLands
  <2> QED BY <2>1, <2>2, <2>3, <2>4 DEF Diffed
<1>12. CASE DeployFails
  <2>1. PICK m \in target : withheld' = withheld
    BY <1>12 DEF DeployFails, HeldBack
  <2>2. Open' = Open
    BY <1>12, SameOpen DEF DeployFails
  <2> QED BY <1>12, <2>1, <2>2 DEF DeployFails, Diffed
<1>13. CASE RecordOpen
  <2>1. Open' \subseteq Open \cup target
    BY <1>o, <1>13
  <2>2. /\ pc = "opened" /\ pc' = "opens" /\ target' = {}
        /\ UNCHANGED <<snap, work, opens, withheld, nextSeen>>
    BY <1>13 DEF RecordOpen
  <2> QED BY <2>1, <2>2 DEF Diffed
<1>14. CASE SaveBaseline
  BY <1>0, <1>14 DEF SaveBaseline, Locals
<1>15. CASE Surroundings \/ UNCHANGED vars
  <2>1. UNCHANGED tick
    BY <1>15
       DEF Surroundings, vars, SourceEnter, SourceExit, Settle, OutsideClose, ScreenerGate,
           ScreenerDeploy, Command, AddWallet, RemoveWallet, EnableWallet, DisableWallet,
           SwitchFollow
  <2>2. Open' \subseteq Open
    <3>1. file'.mirrored \subseteq file.mirrored
      BY <1>15, OutsideRecords
    <3> QED BY <3>1 DEF Open, OpenMirrors
  <2> QED BY <2>1, <2>2 DEF tick, Diffed
<1> QED BY <1>1, <1>2, <1>3, <1>4, <1>5, <1>6, <1>7, <1>8, <1>9, <1>10, <1>11, <1>12, <1>13,
           <1>14, <1>15 DEF Next, TickStep

---------------------------------------------------------------------------
(* `bar' is, per wallet, the positions that must not be mirrored.           *)

(* The pool of such a position is in the baseline of its wallet. *)
Known(bar) ==
  \A w \in file.seeded, p \in Pools : held[w][p] \in bar[w] => p \in file.seen[w]

(* The tick passes it by: what it holds of the wallet's pools leaves it out. *)
Shut(bar) ==
  /\ \A w \in Wallets : bar[w] \subseteq 1..entries
  /\ \A m \in Open \cup work \cup target : held[m.wallet][m.pool] \notin bar[m.wallet]
  /\ Opening => \A m \in target : m.source \notin bar[m.wallet]
  /\ \A s \in snap, p \in Pools : held[s.wallet][p] \in bar[s.wallet] =>
       p \notin opens \cup withheld /\ (s.reliable => p \in s.pools)

Bars == [Wallets -> SUBSET Nat]

(* At the diff, what is in the baseline read is passed by. *)
LEMMA ShutDiff ==
  ASSUME RecordInv, RoundInv, SteadyFaults, NEW bar \in Bars, Shut(bar), Known(bar),
         DiffWallet
  PROVE  Shut(bar)'
<1> USE DEF RoundInv, chain, others, sources
<1>r. Reads = {file}
  BY DEF Reads, SteadyFaults
<1>1. PICK s \in snap :
        LET mine == {m \in OpenMirrors(file) : m.wallet = s.wallet}
            diff == DiffFollowedWallet(Seen(file, s.wallet), s, PoolsOf(ours), mine)
            here == {m \in mine : m.pool \in s.pools}
        IN  /\ opens' = diff.opens
            /\ work' \subseteq diff.closes \cup here
            /\ pc' \in {"save", "mirrors"}
  BY <1>r DEF DiffWallet
<1>2. work' \subseteq Open
  BY <1>1, DiffOpens DEF Open
<1>3. /\ pc = "baseline" /\ UNCHANGED <<snap, withheld, target, held, entries>>
      /\ withheld = {} /\ nextSeen = {} /\ file' = file
  BY DEF DiffWallet, Locals
<1>4. opens' \cap UNION Seen(file, s.wallet) = {} /\ (Seen(file, s.wallet) = {} => opens' = {})
  BY <1>1, DiffOpens
<1>5. \A p \in Pools : held[s.wallet][p] \in bar[s.wallet] => p \notin opens'
  <2>1. CASE s.wallet \in file.seeded
    <3>1. \A p \in Pools : held[s.wallet][p] \in bar[s.wallet] => p \in file.seen[s.wallet]
      BY <2>1 DEF Known
    <3>2. Seen(file, s.wallet) = {file.seen[s.wallet]}
      BY <2>1 DEF Seen
    <3> QED BY <1>4, <3>1, <3>2
  <2>2. CASE s.wallet \notin file.seeded
    BY <1>4, <2>2 DEF Seen
  <2> QED BY <2>1, <2>2
<1>6. Open' = Open /\ \A t \in snap : t = s
  BY <1>3, SameOpen DEF Control
<1> QED BY <1>1, <1>2, <1>3, <1>5, <1>6 DEF Shut, Opening

LEMMA ShutPlan ==
  ASSUME RoundInv, NEW bar \in Bars, Shut(bar), NEW p \in Pools, PlanOpen(p)
  PROVE  Shut(bar)'
<1> USE DEF RoundInv, chain, others, sources
<1>1. PICK s \in snap : \E theirs \in PositionsInPool(s.wallet, p) : \E id \in theirs.position :
        target' = {[position |-> 0, pool |-> p, wallet |-> s.wallet, source |-> id,
                    open |-> TRUE]}
  BY DEF PlanOpen
<1>2. target' = {[position |-> 0, pool |-> p, wallet |-> s.wallet,
                  source |-> held[s.wallet][p], open |-> TRUE]}
  BY <1>1 DEF PositionsInPool
<1>3. \A m \in target' : m.pool = p /\ m.wallet = s.wallet /\ m.source = held[s.wallet][p]
  BY <1>2
<1>4. /\ p \in opens /\ opens' = opens \ {p}
      /\ UNCHANGED <<file, snap, work, withheld, held, entries>>
  BY DEF PlanOpen
<1>5. held[s.wallet][p] \notin bar[s.wallet]
  BY <1>4 DEF Shut
<1>6. Open' = Open
  BY <1>4, SameOpen
<1> QED BY <1>3, <1>4, <1>5, <1>6 DEF Shut

LEMMA ShutTick ==
  ASSUME RecordInv, RoundInv, SteadyFaults, NEW bar \in Bars, Shut(bar),
         DiffWallet => Known(bar), TickStep \/ Abort
  PROVE  Shut(bar)'
<1> USE DEF RoundInv, RecordInv, chain, others, sources, bounds
<1>r. Reads = {file}
  BY DEF Reads, SteadyFaults
<1>o. Open' \subseteq Open \cup (IF RecordOpen THEN target ELSE {})
  BY <1>r, OpenStep DEF Next
<1>1. CASE DiffWallet \/ \E p \in Pools : PlanOpen(p)
  BY <1>1, ShutDiff, ShutPlan
<1>2. CASE \E w \in Wallets : PollWallet(w)
  <2>1. PICK w \in Wallets : PollWallet(w)
    BY <1>2
  <2>2. PICK s \in Snapshots(w) : snap' = {s}
    BY <2>1 DEF PollWallet
  <2>3. s.wallet = w /\ (s.reliable => s.pools = HeldPools(w))
    BY <2>2 DEF Snapshots
  <2>4. /\ opens' = {} /\ withheld' = {} /\ target' = {} /\ pc' = "baseline"
        /\ UNCHANGED <<file, work, held, entries>>
    BY <2>1 DEF PollWallet, Locals
  <2>5. \A p \in Pools : held[w][p] \in bar[w] => p \in HeldPools(w)
    BY DEF Shut, HeldPools
  <2>6. Open' = Open
    BY <2>4, SameOpen
  <2> QED BY <2>2, <2>3, <2>4, <2>5, <2>6 DEF Shut, Opening
<1>3. CASE FindOrphans
  <2>1. work' \subseteq Open
    BY <1>r, <1>3 DEF FindOrphans, Orphaned, Open
  <2>2. Open' = Open
    BY <1>3, SameOpen DEF FindOrphans
  <2> QED BY <1>3, <2>1, <2>2 DEF FindOrphans, Shut, Opening
<1>4. CASE RecordClose
  <2>1. PICK m \in target : withheld' \subseteq withheld \cup {m.pool}
    BY <1>4 DEF RecordClose
  <2>2. \A s \in snap : m.wallet = s.wallet
    BY <2>1 DEF Diffed
  <2>3. held[m.wallet][m.pool] \notin bar[m.wallet]
    BY <2>1 DEF Shut
  <2>4. /\ UNCHANGED <<snap, opens, work, held, entries>> /\ target' = {}
        /\ pc' \in {"drain", "mirrors"}
    BY <1>4 DEF RecordClose, AfterClose
  <2>5. Open' \subseteq Open
    BY <1>4, <1>o DEF RecordClose, RecordOpen
  <2> QED BY <2>1, <2>2, <2>3, <2>4, <2>5 DEF Shut
<1>5. ASSUME NEW p \in Pools, SkipOpen(p) PROVE Shut(bar)'
  <2>1. /\ p \in opens /\ withheld' \subseteq withheld \cup {p} /\ opens' = opens \ {p}
        /\ UNCHANGED <<file, pc, snap, work, target, held, entries>>
    BY <1>5 DEF SkipOpen, HeldBack
  <2>2. Open' = Open
    BY <2>1, SameOpen
  <2> QED BY <2>1, <2>2 DEF Shut, Opening
<1>6. CASE DeployLands
  <2>1. PICK m \in target : target' = {[m EXCEPT !.position = deploys + 1]}
    BY <1>6 DEF DeployLands
  <2>2. \A n \in target' : n.wallet = m.wallet /\ n.pool = m.pool /\ n.source = m.source
    BY <2>1 DEF TypeOK, Mirror
  <2>3. /\ Opening /\ UNCHANGED <<file, snap, work, opens, withheld, held, entries>>
    BY <1>6 DEF DeployLands, Opening
  <2>4. Open' = Open
    BY <2>3, SameOpen
  <2> QED BY <2>1, <2>2, <2>3, <2>4 DEF Shut
<1>7. CASE RecordOpen
  <2>1. Open' \subseteq Open \cup target
    BY <1>o, <1>7
  <2>2. /\ pc' = "opens" /\ target' = {}
        /\ UNCHANGED <<snap, work, opens, withheld, held, entries>>
    BY <1>7 DEF RecordOpen
  <2> QED BY <2>1, <2>2 DEF Shut, Opening
<1>8. ASSUME Open' \subseteq Open, UNCHANGED <<held, entries>>,
             snap' \subseteq snap, opens' \subseteq opens, withheld' \subseteq withheld,
             work' \cup target' \subseteq work \cup target,
             Opening' => Opening /\ target' \subseteq target
      PROVE  Shut(bar)'
  BY <1>8 DEF Shut
<1>9. ASSUME ~RecordOpen, ~RecordClose, ~DiffWallet, ~DeployLands, ~FindOrphans,
             ~ \E w \in Wallets : PollWallet(w),
             ~ \E p \in Pools : SkipOpen(p) \/ PlanOpen(p)
      PROVE  Shut(bar)'
  <2>1. Open' \subseteq Open
    BY <1>o, <1>9
  <2>2. /\ UNCHANGED <<held, entries>>
        /\ snap' \subseteq snap /\ opens' \subseteq opens /\ withheld' \subseteq withheld
        /\ work' \cup target' \subseteq work \cup target
        /\ Opening' => Opening /\ target' \subseteq target
    BY <1>9
       DEF TickStep, StartTick, ReadChain, ChainReadFails, Drain, DrainDone, AllPolled,
           CheckRecenter, KeepMirror, MirrorExit, MirrorsDone, StartClose, CloseLands, CloseFails,
           AfterClose, PassGate,
           RefuseGate, GateThrows, DeployFails, HeldBack, OpensDone, SaveBaseline,
           Abort, EndTick, Opening
  <2> QED BY <1>8, <2>1, <2>2
<1> QED BY <1>1, <1>2, <1>3, <1>4, <1>5, <1>6, <1>7, <1>9

(* Nor do the wallets' own moves, or a command, open a way to it. *)
LEMMA ShutOutside ==
  ASSUME RoundInv, SteadyFaults, NEW bar \in Bars, Shut(bar), Surroundings \/ UNCHANGED vars
  PROVE  /\ Shut(bar)'
         /\ \A w \in Wallets, p \in Pools : held'[w][p] \in bar[w] => held'[w][p] = held[w][p]
<1> USE DEF RoundInv
<1>1. \A w \in Wallets : bar[w] \subseteq 1..entries
  BY DEF Shut
<1>2. UNCHANGED tick /\ entries' \in {entries, entries + 1} /\ entries \in Nat
  BY DEF Surroundings, vars, SourceEnter, SourceExit, Settle, OutsideClose, ScreenerGate,
         ScreenerDeploy, Command, AddWallet, RemoveWallet, EnableWallet, DisableWallet,
         SwitchFollow, sources, tick, TypeOK
<1>3. Open' \subseteq Open
  <2>1. file'.mirrored \subseteq file.mirrored
    BY OutsideRecords
  <2> QED BY <2>1 DEF Open, OpenMirrors
<1>4. \A w \in Wallets, p \in Pools : held'[w][p] \in bar[w] => held'[w][p] = held[w][p]
  <2>1. ASSUME NEW w \in Wallets, NEW p \in Pools, SourceEnter(w, p) \/ SourceExit(w, p)
        PROVE  \A v \in Wallets, q \in Pools : held'[v][q] \in {held[v][q], entries + 1, 0}
    BY <2>1 DEF SourceEnter, SourceExit, TypeOK
  <2>2. \A v \in Wallets, q \in Pools : held'[v][q] \in {held[v][q], entries + 1, 0}
    BY <2>1
       DEF Surroundings, vars, Settle, OutsideClose, ScreenerGate, ScreenerDeploy, Command,
           AddWallet, RemoveWallet, EnableWallet, DisableWallet, SwitchFollow, sources
  <2> QED BY <1>1, <1>2, <2>2
<1>5. \A w \in Wallets : bar[w] \subseteq 1..entries'
  BY <1>1, <1>2
<1>6. \A m \in Open' \cup work' \cup target' :
        m \in Open \cup work \cup target /\ m.wallet \in Wallets /\ m.pool \in Pools
  BY <1>2, <1>3, OpenType DEF tick, TypeOK, Mirror
<1>7. \A m \in Open' \cup work' \cup target' : held'[m.wallet][m.pool] \notin bar[m.wallet]
  BY <1>4, <1>6 DEF Shut
<1>8. \A s \in snap' : s \in snap /\ s.wallet \in Wallets
  BY <1>2 DEF tick, TypeOK, Snapshot
<1> QED BY <1>2, <1>4, <1>5, <1>7, <1>8 DEF Shut, Opening, tick

LEMMA KnownStep ==
  ASSUME RoundInv, SteadyFaults, NEW bar \in Bars, Shut(bar), Known(bar), [Next]_vars
  PROVE  Known(bar)'
<1> USE DEF RoundInv, chain, others, sources
<1>r. Reads = {file}
  BY DEF Reads, SteadyFaults
<1>1. CASE SaveBaseline
  <2>1. PICK s \in snap :
          IF nextSeen = {} THEN file' = file
          ELSE /\ file'.seeded = file.seeded \cup {s.wallet}
               /\ file'.seen = [file.seen EXCEPT ![s.wallet] = (UNION nextSeen) \ withheld]
    BY <1>r, <1>1, SaveStep
  <2>2. held' = held
    BY <1>1 DEF SaveBaseline
  <2>3. CASE nextSeen = {}
    BY <2>1, <2>2, <2>3 DEF Known
  <2>4. CASE nextSeen # {}
    <3>1. s.reliable /\ UNION nextSeen = s.pools
      BY <2>4 DEF Diffed
    <3>2. \A p \in Pools : held[s.wallet][p] \in bar[s.wallet] => p \in s.pools \ withheld
      BY <3>1 DEF Shut
    <3>3. file.seen \in [Wallets -> SUBSET Pools] /\ s.wallet \in Wallets
      BY DEF TypeOK, File, Snapshot
    <3>4. file.seeded \subseteq Wallets
      BY DEF TypeOK, File
    <3> QED BY <2>1, <2>2, <2>4, <3>1, <3>2, <3>3, <3>4 DEF Known
  <2> QED BY <2>3, <2>4
<1>2. CASE (TickStep \/ Abort) /\ ~SaveBaseline
  <2>1. held' = held
    BY <1>2
       DEF TickStep, StartTick, ReadChain, ChainReadFails, FindOrphans, Drain, DrainDone,
           PollWallet, AllPolled, DiffWallet, CheckRecenter, KeepMirror, MirrorExit, MirrorsDone,
           StartClose, CloseLands, CloseFails, RecordClose, SkipOpen, PlanOpen, PassGate,
           RefuseGate, GateThrows, DeployLands, DeployFails, RecordOpen, OpensDone, Abort
  <2> QED BY <1>r, <1>2, <2>1, TickFile DEF Known
<1>3. CASE Surroundings \/ UNCHANGED vars
  <2>1. \A w \in Wallets, p \in Pools : held'[w][p] \in bar[w] => held'[w][p] = held[w][p]
    BY <1>3, ShutOutside
  <2>2. file'.seeded \subseteq file.seeded /\ \A w \in file'.seeded : file'.seen[w] = file.seen[w]
    BY <1>3, EditStep
       DEF Surroundings, Edited, vars, SourceEnter, SourceExit, Settle, OutsideClose,
           ScreenerGate, ScreenerDeploy
  <2>3. file.seeded \subseteq Wallets
    BY DEF TypeOK, File
  <2> QED BY <2>1, <2>2, <2>3 DEF Known
<1> QED BY <1>1, <1>2, <1>3 DEF Next

LEMMA RoundInvStep ==
  ASSUME RecordInv, RoundInv, SteadyFaults, [Next]_vars
  PROVE  RoundInv'
  BY TypeStep, SourceBoundStep, ControlStep, LocalsStep, SeedableStep, DiffedStep, PlacedStep
     DEF RoundInv

LEMMA RoundInit == ASSUME Init PROVE RecordInv /\ RoundInv /\ Open = {} /\ file.seeded = {}
<1>1. file.mirrored = {} /\ file.seeded = {}
  BY DEF Init, EmptyFile
<1>2. /\ work = {} /\ target = {} /\ snap = {} /\ phase = "none" /\ pc = "idle" /\ entries = 0
      /\ todo = {} /\ opens = {} /\ withheld = {} /\ nextSeen = {}
      /\ \A w \in Wallets, p \in Pools : held[w][p] = 0
  BY DEF Init
<1>3. RecordInv
  BY RecordInit
<1>4. Open = {}
  BY <1>1 DEF Open, OpenMirrors
<1> QED BY <1>1, <1>2, <1>3, <1>4
        DEF RecordInv, RoundInv, SourceBound, Control, Locals, Seedable, Diffed, Placed, Opening,
            Enabled

---------------------------------------------------------------------------
(* Nothing is back-filled                                                  *)

(* What a wallet holds as it is followed joins the backlog; its baseline is *)
(* taken anew.                                                              *)
LEMMA BacklogEdit ==
  ASSUME RoundInv, SteadyFaults, Edits \cap {"re_add", "switch"} = {}, Edited
  PROVE  \/ backlog' = backlog
         \/ \E w \in Wallets : w \notin file'.seeded /\ backlog' = Backlog({w})
<1>r. Reads = {file} /\ file \in File
  BY DEF Reads, SteadyFaults, RoundInv, TypeOK
<1>1. ASSUME NEW w \in Wallets, AddWallet(w)
      PROVE  backlog' \in {backlog, Backlog({w})} /\ w \notin file'.seeded
  <2>1. file.wallets[w] = "absent"
    BY <1>1 DEF AddWallet, Command
  <2>2. w \notin file.seeded
    BY <2>1 DEF RoundInv, Seedable
  <2>3. file'.seeded \subseteq file.seeded
    BY <1>1, EditStep DEF Edited, RoundInv
  <2> QED BY <1>1, <2>2, <2>3 DEF AddWallet
<1>2. ASSUME NEW w \in Wallets, EnableWallet(w)
      PROVE  backlog' \in {backlog, Backlog({w})} /\ w \notin file'.seeded
  <2> DEFINE g == [file EXCEPT !.wallets[w] = "enabled"]
  <2>1. g \in File
    BY <1>r DEF File, Status
  <2> HIDE DEF g
  <2>2. Forget(g, w).seeded = g.seeded \ {w}
    BY <2>1 DEF Forget, File
  <2>3. file' = Forget(g, w)
    BY <1>2 DEF EnableWallet, g
  <2> QED BY <1>2, <2>2, <2>3 DEF EnableWallet
<1>3. ASSUME NEW w \in Wallets, RemoveWallet(w) \/ DisableWallet(w) PROVE backlog' = backlog
  BY <1>3 DEF RemoveWallet, DisableWallet
<1>4. ~SwitchFollow
  BY DEF SwitchFollow, Command
<1> QED BY <1>1, <1>2, <1>3, <1>4 DEF Edited

LEMMA BacklogEditKept ==
  ASSUME RoundInv, SteadyFaults, Edits \cap {"re_add", "switch"} = {}, Edited,
         Shut(backlog), Known(backlog)
  PROVE  Shut(backlog)' /\ Known(backlog)'
<1> USE DEF RoundInv
<1>1. /\ pc = "idle" /\ UNCHANGED <<held, entries, tick>> /\ file'.mirrored = file.mirrored
      /\ file'.seeded \subseteq file.seeded
      /\ \A w \in file'.seeded : file'.seen[w] = file.seen[w]
  BY EditStep
<1>2. work' = {} /\ target' = {} /\ snap' = {} /\ Open' = Open /\ ~Opening'
  BY <1>1, SameOpen DEF Locals, Control, tick, Opening
<1>3. CASE backlog' = backlog
  BY <1>1, <1>2, <1>3 DEF Shut, Known
<1>4. ASSUME NEW w \in Wallets, w \notin file'.seeded, backlog' = Backlog({w})
      PROVE  Shut(backlog)' /\ Known(backlog)'
  <2> DEFINE Mirrored == {m.pool : m \in {k \in OpenMirrors(file) : k.wallet = w}}
             New == {held[w][p] : p \in HeldPools(w) \ Mirrored}
  <2>1. /\ \A v \in Wallets : v # w => backlog'[v] = backlog[v]
        /\ backlog'[w] = backlog[w] \cup New
    BY <1>4 DEF Backlog
  <2>2. New \subseteq 1..entries
    BY DEF HeldPools, TypeOK, SourceBound
  <2>3. \A m \in Open : m.wallet = w => held[w][m.pool] \notin New
    <3>1. SUFFICES ASSUME NEW m \in Open, m.wallet = w,
                          NEW p \in HeldPools(w) \ Mirrored, held[w][m.pool] = held[w][p]
                   PROVE  FALSE
      OBVIOUS
    <3>2. p \in Pools /\ held[w][p] # 0 /\ m.pool \in Pools
      BY OpenType DEF HeldPools, Mirror
    <3>3. p = m.pool
      BY <3>1, <3>2 DEF Placed
    <3> QED BY <3>1, <3>3 DEF Open
  <2> HIDE DEF New
  <2>4. \A v \in Wallets : backlog'[v] \subseteq 1..entries'
    BY <1>1, <2>1, <2>2 DEF Shut
  <2>5. \A m \in Open' : held'[m.wallet][m.pool] \notin backlog'[m.wallet]
    BY <1>1, <1>2, <2>1, <2>3, OpenType DEF Shut, Mirror
  <2>6. Shut(backlog)'
    BY <1>2, <2>4, <2>5 DEF Shut
  <2>7. file.seeded \subseteq Wallets
    BY DEF TypeOK, File
  <2>8. Known(backlog)'
    BY <1>1, <1>4, <2>1, <2>7 DEF Known
  <2> QED BY <2>6, <2>8
<1> QED BY <1>3, <1>4, BacklogEdit

BacklogInv == RecordInv /\ RoundInv /\ Shut(backlog) /\ Known(backlog)

(* What a wallet held when it was added or enabled is never mirrored        *)
(* (follow-diff.ts 60-80): truncated polls after the first, failed deploys, *)
(* restarts and wallets removed and added again do not bring it in.  With   *)
(* re-adding a listed wallet or the global switch the baseline is not       *)
(* renewed, and the hypotheses leave those out.                             *)
THEOREM NothingIsBackfilled ==
  ASSUME Faults \cap {"file_read", "edit_mid_tick", "degraded_seed"} = {},
         Edits \cap {"re_add", "switch"} = {}
  PROVE  Spec => NoBackfill
<1>1. SteadyFaults
  BY DEF SteadyFaults
<1>2. Init => BacklogInv
  <2> SUFFICES ASSUME Init PROVE BacklogInv
    OBVIOUS
  <2>1. RecordInv /\ RoundInv /\ Open = {} /\ file.seeded = {}
    BY RoundInit
  <2>2. /\ \A w \in Wallets : backlog[w] = {}
        /\ work = {} /\ target = {} /\ snap = {} /\ pc = "idle"
    BY DEF Init
  <2> QED BY <2>1, <2>2 DEF BacklogInv, Shut, Known, Opening
<1>3. BacklogInv /\ [Next]_vars => BacklogInv'
  <2> SUFFICES ASSUME BacklogInv, [Next]_vars PROVE BacklogInv'
    OBVIOUS
  <2> USE DEF BacklogInv
  <2>1. RecordInv' /\ RoundInv'
    BY <1>1, RecordInvStep, RoundInvStep
  <2>2. CASE Edited
    BY <1>1, <2>1, <2>2, BacklogEditKept
  <2>3. CASE ~Edited
    <3>1. backlog' = backlog
      BY <2>3
         DEF Edited, Next, TickStep, StartTick, ReadChain, ChainReadFails, FindOrphans, Drain,
             DrainDone, PollWallet, AllPolled, DiffWallet, CheckRecenter, KeepMirror, MirrorExit,
             MirrorsDone, StartClose, CloseLands, CloseFails, RecordClose, SkipOpen, PlanOpen,
             PassGate,
             RefuseGate, GateThrows, DeployLands, DeployFails, RecordOpen, OpensDone, SaveBaseline,
             Abort, Surroundings, SourceEnter, SourceExit, Settle, OutsideClose, ScreenerGate,
             ScreenerDeploy, vars, others, chain, sources
    <3>2. PICK b : b = backlog
      OBVIOUS
    <3>3. b \in Bars /\ Shut(b) /\ Known(b)
      BY <3>2 DEF Bars, RecordInv, TypeOK, Shut, Known
    <3>4. Shut(b)'
      BY <1>1, <3>3, ShutTick, ShutOutside DEF Next
    <3>5. Known(b)'
      BY <1>1, <3>3, KnownStep
    <3> QED BY <2>1, <3>1, <3>2, <3>4, <3>5 DEF Shut, Known
  <2> QED BY <2>2, <2>3
<1>4. BacklogInv =>
        (pc = "deploy" /\ pc' = "opened" => \A m \in target : m.source \notin backlog[m.wallet])
  BY DEF BacklogInv, Shut, Opening
<1> QED BY <1>2, <1>3, <1>4, PTL DEF Spec, NoBackfill

---------------------------------------------------------------------------
(* A failed write is not tried again                                       *)

Failures == [w \in Wallets |-> failed.now \cup failed.saved]
Saved    == [w \in Wallets |-> failed.saved]

(* The tick has read its mirrors and is at the entries of one wallet.       *)
AtEntries == pc \in {"opens", "gate", "deploy", "opened", "save"}

FailureInv ==
  /\ RecordInv /\ RoundInv
  /\ Shut(Failures) /\ Known(Saved)
  /\ failed.now # {} => AtEntries
  /\ \A w \in Wallets, p \in Pools : held[w][p] \in failed.now => \E s \in snap : s.wallet = w

(* The round's failures are those of the wallet it is about. *)
LEMMA DeployFailsShut ==
  ASSUME FailureInv, SteadyFaults, DeployFails
  PROVE  FailureInv'
<1> USE DEF FailureInv, RecordInv, RoundInv, others, sources
<1>0. RecordInv' /\ RoundInv'
  BY RecordInvStep, RoundInvStep DEF Next, TickStep
<1>1. PICK m \in target :
        failed' = [failed EXCEPT !.now = @ \cup {m.source}] /\ withheld' = withheld
  BY DEF DeployFails, HeldBack
<1>2. /\ pc = "deploy" /\ pc' = "opens" /\ target' = {}
      /\ UNCHANGED <<file, held, entries, snap, work, opens, nextSeen>>
  BY DEF DeployFails
<1>3. work = {} /\ Open' = Open
  BY <1>2, SameOpen DEF Control
<1>f. failed'.now = failed.now \cup {m.source} /\ failed'.saved = failed.saved
  BY <1>1 DEF TypeOK
<1>4. /\ \A w \in Wallets : Failures'[w] = Failures[w] \cup {m.source}
      /\ Saved' = Saved
  BY <1>f DEF Failures, Saved
<1>5. m.wallet \in Wallets /\ m.pool \in Pools /\ m.source \in 1..entries
  BY DEF TypeOK, Mirror, SourceBound
<1>6. \A v \in Wallets, q \in Pools : held[v][q] = m.source => v = m.wallet /\ q = m.pool
  BY DEF Placed
<1>7. PICK s \in snap : s.wallet = m.wallet /\ m.pool \in s.pools /\ \A t \in snap : t = s
  BY <1>2 DEF Locals, Diffed, Control, Opening
<1>8. m.pool \notin opens \cup withheld
  BY <1>2 DEF Diffed, Opening
<1>9. \A k \in Open : held[k.wallet][k.pool] # m.source
  BY <1>2, <1>6, OpenType DEF Diffed, Opening, Mirror
<1>10. Shut(Failures)'
  <2>1. \A w \in Wallets : Failures'[w] \subseteq 1..entries'
    BY <1>2, <1>4, <1>5 DEF Shut
  <2>2. \A k \in Open : held[k.wallet][k.pool] \notin Failures'[k.wallet]
    BY <1>4, <1>9, OpenType DEF Shut, Mirror
  <2>3. \A p \in Pools : held[s.wallet][p] \in Failures'[s.wallet] =>
          p \notin opens \cup withheld /\ (s.reliable => p \in s.pools)
    BY <1>4, <1>5, <1>6, <1>7, <1>8 DEF Shut
  <2> QED BY <1>1, <1>2, <1>3, <1>7, <2>1, <2>2, <2>3 DEF Shut, Opening
<1>11. Known(Saved)'
  BY <1>2, <1>4 DEF Known
<1>12. \A w \in Wallets, p \in Pools :
         held'[w][p] \in failed'.now => \E t \in snap' : t.wallet = w
  BY <1>2, <1>f, <1>6, <1>7
<1>13. AtEntries'
  BY <1>2 DEF AtEntries
<1> HIDE DEF RecordInv, RoundInv
<1> QED BY <1>0, <1>10, <1>11, <1>12, <1>13

(* Once the round has saved, its failures are in the baseline. *)
LEMMA SavedKnown ==
  ASSUME FailureInv, SteadyFaults, SaveBaseline
  PROVE  FailureInv'
<1> USE DEF FailureInv, RecordInv, RoundInv, others, sources
<1>0. RecordInv' /\ RoundInv'
  BY RecordInvStep, RoundInvStep DEF Next, TickStep
<1>r. Reads = {file}
  BY DEF Reads, SteadyFaults
<1>1. PICK s \in snap :
        IF nextSeen = {} THEN file' = file /\ failed'.saved = failed.saved
        ELSE /\ file'.seeded = file.seeded \cup {s.wallet}
             /\ file'.seen = [file.seen EXCEPT ![s.wallet] = (UNION nextSeen) \ withheld]
             /\ failed'.saved = failed.saved \cup failed.now
  <2>1. PICK s \in snap :
          IF nextSeen = {} THEN file' = file
          ELSE /\ file'.seeded = file.seeded \cup {s.wallet}
               /\ file'.seen = [file.seen EXCEPT ![s.wallet] = (UNION nextSeen) \ withheld]
    BY <1>r, SaveStep
  <2>2. IF nextSeen = {} THEN failed'.saved = failed.saved
        ELSE failed'.saved = failed.saved \cup failed.now
    BY DEF SaveBaseline, RoundLost, TypeOK
  <2> QED BY <2>1, <2>2
<1>2. failed'.now = {}
  BY DEF SaveBaseline, RoundLost, TypeOK
<1>3. \A w \in Wallets : /\ Failures'[w] \subseteq Failures[w]
                         /\ Saved'[w] = failed'.saved /\ Saved[w] = failed.saved
  BY <1>1, <1>2 DEF Failures, Saved
<1>4. Shut(Failures)'
  <2>1. PICK b : b = Failures
    OBVIOUS
  <2>2. b \in Bars /\ Shut(b)
    BY <2>1 DEF Bars, Failures, TypeOK, Shut
  <2>3. Shut(b)'
    BY <2>2, ShutTick DEF TickStep, SaveBaseline, DiffWallet
  <2>4. \A m \in Open' \cup work' \cup target' : m.wallet \in Wallets
    BY <1>0, OpenType DEF SaveBaseline, TypeOK, Mirror, Open, OpenMirrors, File
  <2>5. snap' = {} /\ ~Opening'
    BY DEF SaveBaseline, Opening
  <2> QED BY <1>3, <2>1, <2>3, <2>4, <2>5 DEF Shut
<1>5. Known(Saved)'
  <2>1. held' = held /\ file.seeded \subseteq Wallets /\ s.wallet \in Wallets
    BY DEF SaveBaseline, TypeOK, File, Snapshot
  <2>2. \A w \in file.seeded, p \in Pools : held[w][p] \in failed.saved => p \in file.seen[w]
    BY <1>3, <2>1 DEF Known
  <2>3. CASE nextSeen = {}
    BY <1>1, <1>3, <2>1, <2>2, <2>3 DEF Known
  <2>4. CASE nextSeen # {}
    <3>1. s.reliable /\ UNION nextSeen = s.pools
      BY <2>4 DEF Diffed
    <3>2. Failures[s.wallet] = failed'.saved
      BY <1>1, <2>1, <2>4 DEF Failures
    <3>3. \A p \in Pools : held[s.wallet][p] \in failed'.saved => p \in s.pools \ withheld
      BY <3>1, <3>2 DEF Shut
    <3>4. \A w \in Wallets, p \in Pools : w # s.wallet => held[w][p] \notin failed.now
      BY DEF Control
    <3>5. \A w \in file.seeded, p \in Pools :
            w # s.wallet /\ held[w][p] \in failed'.saved => p \in file.seen[w]
      BY <1>1, <2>1, <2>2, <2>4, <3>4
    <3>6. file.seen \in [Wallets -> SUBSET Pools]
      BY DEF TypeOK, File
    <3>7. \A w \in file'.seeded, p \in Pools :
            held[w][p] \in failed'.saved => p \in file'.seen[w]
      BY <1>1, <2>1, <2>4, <3>1, <3>3, <3>5, <3>6
    <3>8. file'.seeded \subseteq Wallets
      BY <1>1, <2>1, <2>4
    <3> QED BY <1>3, <2>1, <3>7, <3>8 DEF Known
  <2> QED BY <2>3, <2>4
<1> QED BY <1>0, <1>2, <1>4, <1>5

(* A step that adds no failure; a tick cut short drops those of its round.  *)
LEMMA FailuresStay ==
  ASSUME FailureInv, SteadyFaults, [Next]_vars, ~DeployFails, ~SaveBaseline
  PROVE  FailureInv'
<1> USE DEF FailureInv, RecordInv, RoundInv
<1>0. RecordInv' /\ RoundInv'
  BY RecordInvStep, RoundInvStep
<1>1. CASE GateThrows \/ Abort
  <2>1. failed'.now = {} /\ failed'.saved = failed.saved
    BY <1>1 DEF GateThrows, Abort, RoundLost, TypeOK
  <2>2. Saved' = Saved /\ \A w \in Wallets : Failures'[w] \subseteq Failures[w]
    BY <2>1 DEF Saved, Failures
  <2>3. /\ snap' = {} /\ work' = {} /\ target' = {} /\ ~Opening'
        /\ UNCHANGED <<file, held, entries>>
    BY <1>1 DEF GateThrows, Abort, EndTick, Opening, others, sources
  <2>4. Open' = Open
    BY <2>3, SameOpen
  <2>5. Shut(Failures)'
    BY <2>2, <2>3, <2>4, OpenType DEF Shut, Mirror
  <2>6. Known(Saved)'
    BY <2>2, <2>3 DEF Known
  <2> QED BY <1>0, <2>1, <2>5, <2>6
<1>2. CASE ~GateThrows /\ ~Abort
  <2>1. failed' = failed
    BY <1>2
       DEF Next, TickStep, StartTick, ReadChain, ChainReadFails, FindOrphans, Drain,
           DrainDone, PollWallet, AllPolled, DiffWallet, CheckRecenter, KeepMirror, MirrorExit,
           MirrorsDone, StartClose, CloseLands, CloseFails, RecordClose, SkipOpen, PlanOpen,
           PassGate, RefuseGate, DeployLands, RecordOpen, OpensDone, Surroundings, SourceEnter,
           SourceExit, Settle, OutsideClose, ScreenerGate, ScreenerDeploy, Command, AddWallet,
           RemoveWallet, EnableWallet, DisableWallet, SwitchFollow, vars, others, chain, sources
  <2>2. Shut(Failures)'
    <3>1. PICK b : b = Failures
      OBVIOUS
    <3>2. b \in Bars /\ Shut(b) /\ Failures' = b
      BY <2>1, <3>1 DEF Bars, Failures, TypeOK, Shut
    <3>3. DiffWallet => Known(b)
      <4>1. DiffWallet => failed.now = {}
        BY DEF DiffWallet, AtEntries
      <4>2. DiffWallet => b = Saved
        BY <3>1, <4>1 DEF Failures, Saved
      <4> QED BY <4>2
    <3>4. Shut(b)'
      BY <3>2, <3>3, ShutTick, ShutOutside DEF Next
    <3> QED BY <3>2, <3>4 DEF Shut
  <2>3. Known(Saved)'
    <3>1. PICK b : b = Saved
      OBVIOUS
    <3>2. b \in Bars /\ Known(b) /\ Saved' = b
      BY <2>1, <3>1 DEF Bars, Saved, TypeOK, Known
    <3>3. Shut(b)
      <4>1. \A w \in Wallets : b[w] \subseteq Failures[w]
        BY <3>1 DEF Saved, Failures
      <4>2. /\ \A m \in Open \cup work \cup target : m.wallet \in Wallets
            /\ \A s \in snap : s.wallet \in Wallets
        BY OpenType DEF TypeOK, Mirror, Snapshot
      <4> QED BY <4>1, <4>2 DEF Shut
    <3>4. Known(b)'
      BY <3>2, <3>3, KnownStep
    <3> QED BY <3>2, <3>4 DEF Known
  <2>4. CASE failed.now = {}
    <3> HIDE DEF RecordInv, RoundInv
    <3>1. failed'.now = {}
      BY <2>1, <2>4
    <3> QED BY <1>0, <2>2, <2>3, <3>1
  <2>5. CASE failed.now # {}
    <3>1. AtEntries
      BY <2>5
    <3>2. snap' = snap /\ AtEntries'
      BY <1>2, <3>1
         DEF Next, TickStep, StartTick, ReadChain, ChainReadFails, FindOrphans, Drain,
             DrainDone, PollWallet, AllPolled, DiffWallet, CheckRecenter, KeepMirror, MirrorExit,
             MirrorsDone, StartClose, CloseLands, CloseFails, RecordClose, SkipOpen, PlanOpen,
             PassGate, RefuseGate, DeployLands, RecordOpen, OpensDone, Surroundings, SourceEnter,
             SourceExit, Settle, OutsideClose, ScreenerGate, ScreenerDeploy, Command, AddWallet,
             RemoveWallet, EnableWallet, DisableWallet, SwitchFollow, vars, tick, AtEntries
    <3>3. \A w \in Wallets, p \in Pools :
            held'[w][p] \in failed.now => held'[w][p] = held[w][p]
      <4>1. CASE Surroundings \/ UNCHANGED vars
        <5>1. PICK b : b = Failures
          OBVIOUS
        <5>2. b \in Bars /\ Shut(b) /\ \A w \in Wallets : failed.now \subseteq b[w]
          BY <5>1 DEF Bars, Failures, TypeOK, Shut
        <5> QED BY <4>1, <5>2, ShutOutside
      <4>2. CASE TickStep
        BY <1>2, <4>2
           DEF TickStep, StartTick, ReadChain, ChainReadFails, FindOrphans, Drain, DrainDone,
               PollWallet, AllPolled, DiffWallet, CheckRecenter, KeepMirror, MirrorExit,
               MirrorsDone, StartClose, CloseLands, CloseFails, RecordClose, SkipOpen, PlanOpen,
               PassGate, RefuseGate, DeployLands, RecordOpen, OpensDone, others, sources
      <4> QED BY <1>2, <4>1, <4>2 DEF Next
    <3> QED BY <1>0, <2>1, <2>2, <2>3, <3>2, <3>3
  <2> QED BY <2>4, <2>5
<1> QED BY <1>1, <1>2

(* A mirror whose deploy failed at the write is not attempted again         *)
(* (cycle.ts 394-409): not by the tick it failed in, and by no later one    *)
(* once the baseline of its wallet has been saved, through truncated lists, *)
(* gates that throw and restarts.                                           *)
THEOREM FailedWritesEnd ==
  ASSUME Faults \cap {"degraded_seed", "file_read", "edit_mid_tick"} = {}
  PROVE  Spec => FailedWriteNotRetried
<1>1. SteadyFaults
  BY DEF SteadyFaults
<1>2. Init => FailureInv
  <2> SUFFICES ASSUME Init PROVE FailureInv
    OBVIOUS
  <2>1. RecordInv /\ RoundInv /\ Open = {} /\ file.seeded = {}
    BY RoundInit
  <2>2. failed = [now |-> {}, saved |-> {}]
    BY DEF Init
  <2>3. /\ \A w \in Wallets : Failures[w] = {} /\ Saved[w] = {}
        /\ failed.now = {} /\ work = {} /\ target = {} /\ snap = {} /\ pc = "idle"
    BY <2>2 DEF Init, Failures, Saved
  <2> QED BY <2>1, <2>3 DEF FailureInv, Shut, Known, Opening
<1>3. FailureInv /\ [Next]_vars => FailureInv'
  BY <1>1, DeployFailsShut, SavedKnown, FailuresStay
<1>4. FailureInv =>
        (pc = "gate" /\ pc' = "deploy" =>
           \A m \in target : m.source \notin failed.now \cup failed.saved)
  BY DEF FailureInv, RecordInv, TypeOK, Mirror, Shut, Opening, Failures
<1> QED BY <1>2, <1>3, <1>4, PTL DEF Spec, FailedWriteNotRetried

---------------------------------------------------------------------------
(* The size and the range of a mirror (MirrorSizing)                       *)

(* A mirror never eats into the gas reserve and never exceeds its cap.  The *)
(* cut to four decimals may take it below the minimum, by less than one.   *)
THEOREM MirrorIsAffordable ==
  ASSUME NEW walletSol \in Nat, NEW sizePct \in 1..100, NEW gasReserve \in Nat,
         NEW minDeploy \in Nat, NEW maxDeploy \in Nat,
         NEW a \in PlanMirrorSize(walletSol, sizePct, gasReserve, minDeploy, maxDeploy)
  PROVE  a \in Nat /\ a + gasReserve <= walletSol /\ a <= maxDeploy /\ a + Unit > minDeploy
<1> DEFINE free    == walletSol - gasReserve
           share   == Smaller(maxDeploy * 100, free * sizePct)
           percent == share \div 100
<1>1. /\ free \in Nat /\ share >= minDeploy * 100
      /\ a = (percent \div Unit) * Unit
  <2> DEFINE refused == walletSol <= gasReserve \/ share < minDeploy * 100
             cut     == (percent \div Unit) * Unit
  <2>1. PlanMirrorSize(walletSol, sizePct, gasReserve, minDeploy, maxDeploy)
          = IF refused THEN {} ELSE {cut}
    BY DEF PlanMirrorSize
  <2>2. share \in Int
    <3>1. \A x, n \in Int : x * n \in Int
      OBVIOUS
    <3>2. free * sizePct \in Int
      BY <3>1
    <3> QED BY <3>2 DEF Smaller
  <2>3. ~refused /\ a = cut
    <3> HIDE DEF refused, cut
    <3> QED BY <2>1
  <2> HIDE DEF share, cut
  <2> QED BY <2>2, <2>3 DEF cut
<1>2. free * sizePct \in Nat /\ free * sizePct <= free * 100
  <2>1. \A x \in Nat, n \in 1..100 : x * n \in Nat /\ x * n <= x * 100
    OBVIOUS
  <2> QED BY <1>1, <2>1
<1>3. share \in Nat /\ share <= maxDeploy * 100 /\ share <= free * 100
  <2> HIDE DEF free
  <2> QED BY <1>1, <1>2 DEF Smaller
<1>4. percent \in Nat /\ percent <= maxDeploy /\ percent <= free /\ minDeploy <= percent
  <2> HIDE DEF free, share
  <2> QED BY <1>1, <1>3
<1>5. a \in Nat /\ a <= percent /\ percent < a + Unit
  <2> HIDE DEF percent
  <2> QED BY <1>1, <1>4 DEF Unit
<1> HIDE DEF percent
<1> QED BY <1>1, <1>4, <1>5 DEF Unit

(* Whatever they hold and whatever is configured, a mirror is at least one  *)
(* bin deep and no deeper than the configured ceiling, or one bin.         *)
THEOREM MirrorRangeIsBounded ==
  ASSUME NEW activeBin \in Int, NEW sourceLower \in SUBSET Int, NEW fallback \in Int,
         NEW minBins \in Int, NEW maxBins \in Int
  PROVE  LET depth == PlanMirrorRange(activeBin, sourceLower, fallback, minBins, maxBins)
         IN  depth \in Int /\ 1 <= depth /\ depth <= Larger(1, maxBins)
<1> DEFINE lo    == Larger(1, Smaller(minBins, maxBins))
           hi    == Larger(lo, maxBins)
           depth == {activeBin - l : l \in {b \in sourceLower : b < activeBin}}
           Clamp(n) == Smaller(hi, Larger(lo, n))
<1>1. lo \in Int /\ hi \in Int /\ 1 <= lo /\ lo <= hi /\ hi = Larger(1, maxBins)
  BY DEF Larger, Smaller
<1>2. \A n \in Int : Clamp(n) \in Int /\ lo <= Clamp(n) /\ Clamp(n) <= hi
  <2> HIDE DEF lo, hi
  <2> QED BY <1>1 DEF Larger, Smaller
<1>3. depth # {} => (CHOOSE n \in depth : TRUE) \in Int
  <2>1. depth \subseteq Int
    OBVIOUS
  <2> HIDE DEF depth
  <2> QED BY <2>1
<1>4. PlanMirrorRange(activeBin, sourceLower, fallback, minBins, maxBins)
        = IF depth = {} THEN Clamp(fallback) ELSE Clamp(CHOOSE n \in depth : TRUE)
  BY DEF PlanMirrorRange
<1> HIDE DEF lo, hi, depth, Clamp
<1> QED BY <1>1, <1>2, <1>3, <1>4
=============================================================================
