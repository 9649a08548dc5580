------------------------------- MODULE Repos -------------------------------
(***************************************************************************)
(* What the JSON repositories (adapters/persistence/json, and update_config *)
(* for user-config.json) make of the contents of their file: four kinds of  *)
(* contents and the calls that change them.  A call gives the set of its     *)
(* results, empty when it returns without writing.                          *)
(***************************************************************************)
EXTENDS Integers, Sequences

CONSTANTS
  Keys,       \* ids, addresses or configuration keys
  Home,       \* the strategy every default library has
  MaxLog      \* bound: performance rows

Kinds == {"library", "map", "log", "config"}

(* loadOrEmpty on a missing file.                                          *)
Default(kind) ==
  CASE kind = "library" -> [active |-> Home, ids |-> {Home}]
    [] kind = "map" -> {}
    [] kind = "log" -> <<>>
    [] kind = "config" -> [k \in Keys |-> FALSE]

Ops == [name : {"add", "activate", "remove", "patch", "change"}, key : Keys]

(* The strategy library.  Removing the active strategy activates another.  *)
StrategyLibrary(lib, op) ==
  LET Known == {op.key} \cap lib.ids
      Rest  == lib.ids \ {op.key}
  IN  CASE op.name = "add" -> {[lib EXCEPT !.ids = @ \cup {op.key}]}
        [] op.name = "activate" -> {[lib EXCEPT !.active = k] : k \in Known}
        [] op.name = "remove" ->
             {[ids |-> Rest, active |-> a] : a \in
                IF Known = {} THEN {} ELSE IF lib.active # op.key THEN {lib.active}
                ELSE IF Rest = {} THEN {Home} ELSE Rest}
        [] OTHER -> {}

(* Records by address: positions, smart wallets, pool memory, block lists. *)
AddressMap(m, op) ==
  CASE op.name = "add" -> {m \cup {op.key}}
    [] op.name = "remove" /\ op.key \in m -> {m \ {op.key}}
    [] OTHER -> {}

(* Performance rows: updatePerformance patches the last row of a position. *)
PerformanceLog(rows, op) ==
  LET Mine == {i \in DOMAIN rows : rows[i].key = op.key}
  IN  CASE op.name = "add" /\ Len(rows) < MaxLog -> {Append(rows, [key |-> op.key, patched |-> FALSE])}
        [] op.name = "patch" ->
             {[rows EXCEPT ![i].patched = TRUE] : i \in {j \in Mine : \A n \in Mine : n <= j}}
        [] OTHER -> {}

(* update_config: the recognised keys of a batch, on a copy of the file.    *)
FlatConfig(flat, op) ==
  IF op.name = "change" THEN {[flat EXCEPT ![op.key] = v] : v \in BOOLEAN} ELSE {}

Applied(kind, c, op) ==
  CASE kind = "library" -> StrategyLibrary(c, op)
    [] kind = "map" -> AddressMap(c, op)
    [] kind = "log" -> PerformanceLog(c, op)
    [] kind = "config" -> FlatConfig(c, op)
=============================================================================
