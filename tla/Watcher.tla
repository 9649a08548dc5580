------------------------------ MODULE Watcher ------------------------------
(***************************************************************************)
(* Reading the open pools of a followed wallet                             *)
(* (adapters/market/meteora-wallet-watcher.ts): the list comes in pages,    *)
(* asked for one after another while the wallet goes on entering and        *)
(* leaving pools, and what was read is trusted or not.                      *)
(***************************************************************************)
EXTENDS FollowRules, Sequences, SequencesExt

CONSTANTS
  Pools,      \* pools the wallet may be in
  Lists,      \* what it may hold at first, in the order of the API
  PageSize,
  MaxPages,
  MaxMoves    \* bound on the entries and exits during one read

VARIABLES
  list,       \* what the wallet holds, in the order the API lists it
  page,       \* the page asked for; 0 when no read is under way
  pools,      \* the pools collected
  snapshot,   \* the last answer of getOpenPools, nullable
  since,      \* pools held ever since the read began
  left,       \* the wallet left a pool since it began
  moves

reading == <<page, pools, snapshot>>
vars    == <<list, reading, since, left, moves>>

Held == ToSet(list)

Init ==
  /\ list \in Lists /\ page = 0 /\ pools = {} /\ snapshot = {}
  /\ since = {} /\ left = FALSE /\ moves = 0

---------------------------------------------------------------------------
(* The API: one page of the list, and whether another follows.  The field   *)
(* may be missing from the answer.                                          *)
PageOf(n) == SubSeq(list, (n - 1) * PageSize + 1, Smaller(n * PageSize, Len(list)))
HasNext(n) == {{}, {Len(list) > n * PageSize}}

Enter ==
  /\ moves < MaxMoves /\ moves' = moves + 1
  /\ \E p \in Pools \ Held, i \in 1 .. Len(list) + 1 : list' = InsertAt(list, i, p)
  /\ UNCHANGED <<reading, since, left>>

Leave ==
  /\ moves < MaxMoves /\ moves' = moves + 1 /\ left' = TRUE
  /\ \E i \in 1 .. Len(list) : list' = RemoveAt(list, i) /\ since' = since \ {list[i]}
  /\ UNCHANGED reading

---------------------------------------------------------------------------
GetOpenPools ==
  /\ page = 0 /\ page' = 1 /\ pools' = {} /\ snapshot' = {}
  /\ since' = Held /\ left' = FALSE /\ moves' = 0
  /\ UNCHANGED list

Return(collected, trusted) ==
  /\ snapshot' = {[pools |-> collected, reliable |-> trusted]}
  /\ page' = 0 /\ pools' = {}

(* Only a page that says so, or a short one that says nothing, is the last. *)
SilenceEnds(entries, hasNext) == TRUE \notin hasNext                 \* mutant
SawEndOfList(entries, hasNext) ==
  IF hasNext = {} THEN Len(entries) < PageSize ELSE hasNext = {FALSE}

ReadPage ==
  /\ page > 0
  /\ \E hasNext \in HasNext(page) :
       LET collected == pools \cup ToSet(PageOf(page))
       IN  IF SawEndOfList(PageOf(page), hasNext) THEN Return(collected, TRUE)
           ELSE IF page = MaxPages THEN Return(collected, FALSE)
           ELSE page' = page + 1 /\ pools' = collected /\ UNCHANGED snapshot
  /\ UNCHANGED <<list, since, left, moves>>

(* An HTTP error, a timeout or a body that does not match the schema.      *)
PageFails ==
  /\ page > 0 /\ Return(pools, FALSE)
  /\ UNCHANGED <<list, since, left, moves>>

Next == Enter \/ Leave \/ GetOpenPools \/ ReadPage \/ PageFails
Spec == Init /\ [][Next]_vars

---------------------------------------------------------------------------
(* Property                                                                *)

(* What one poll makes of mirrors held in all of these pools.              *)
Exits(s, mirrored) ==
  {m.pool : m \in DiffFollowedWallet({mirrored}, s, {}, {[pool |-> p] : p \in mirrored}).closes}

(* However the list is paged and whatever the wallet enters meanwhile, no   *)
(* mirror is closed for a pool it never left (follow-diff.ts:50-52), as    *)
(* long as it leaves none during the read: then a pool may move up past     *)
(* the page boundary and be missed in a list that counts as complete.       *)
NoFalseExit == page = 0 /\ ~left => \A s \in snapshot : Exits(s, since) \cap since = {}
=============================================================================
