---------------------------- MODULE PositionBook ----------------------------
(***************************************************************************)
(* The two files that remember our positions: a record per position in     *)
(* state.json (src/src/adapters/persistence/json/position-repo.ts) and the *)
(* History rows of closed positions in lessons.json (lesson-repo.ts).      *)
(***************************************************************************)
EXTENDS Naturals, FiniteSets, Sequences

CONSTANT Positions   \* the addresses our positions get; never reused

(* A tracked position, reduced to whether it is open, whether the reverse   *)
(* reconcile has stamped RECONCILED_CLOSE_NOTE on it, and whether a bounce  *)
(* watch is armed on it.                                                    *)
Record   == [state: {"none", "open", "closed"}, ghost: BOOLEAN, watch: BOOLEAN]
NoRecord == [state |-> "none", ghost |-> FALSE, watch |-> FALSE]
Tracked  == [state |-> "open", ghost |-> FALSE, watch |-> FALSE]

(* Which records of a book are in a state. *)
InState(book, s) == {p \in Positions : book[p].state = s}

(* markClosedInRepoHook adds a note of its own: an earlier one stays. *)
MarkClosed(r) == [r EXCEPT !.state = "closed"]
GhostNoteOnly(r) == [r EXCEPT !.ghost = TRUE]               \* mutant: stays open
GhostNoNote(r) == [r EXCEPT !.state = "closed"]             \* mutant: not stamped
MarkGhost(r)  == [r EXCEPT !.state = "closed", !.ghost = TRUE]
Watched(r, on) == [r EXCEPT !.watch = on]

---------------------------------------------------------------------------
(* History: one list, appended to and patched.                             *)

Row == [position: Positions, by: {"close_position", "reconcile"}, settled: BOOLEAN]

RowsOf(history, p) == {i \in DOMAIN history : history[i].position = p}
WithSettledRow(history) ==                                  \* mutant: estimates don't count
  {history[i].position : i \in {j \in DOMAIN history : history[j].settled}}
WithRow(history)   == {history[i].position : i \in DOMAIN history}
Unsettled(history) == {history[i].position : i \in {j \in DOMAIN history : ~history[j].settled}}

AppendPerformance(history, p, by) ==
  Append(history, [position |-> p, by |-> by, settled |-> FALSE])

(* updatePerformance patches the last row of a position only. *)
PastLastRow(history, p) ==                                  \* mutant: one too far
  {i \in RowsOf(history, p) : \A j \in RowsOf(history, p) : j < i}
LastRow(history, p) ==
  {i \in RowsOf(history, p) : \A j \in RowsOf(history, p) : j <= i}
SettleRow(history, p) ==
  [i \in DOMAIN history |->
     IF i \in LastRow(history, p) THEN [history[i] EXCEPT !.settled = TRUE] ELSE history[i]]
=============================================================================
