--------------------------- MODULE StateRegister ---------------------------
(***************************************************************************)
(* What a repository promises its only writer: a file that always holds     *)
(* whole contents and changes in one step, by one call.                     *)
(***************************************************************************)
EXTENDS Repos

VARIABLES kind, contents
vars == <<kind, contents>>

Init == kind \in Kinds /\ contents = Default(kind)
Call(op) == contents' \in Applied(kind, contents, op) /\ UNCHANGED kind
Next == \E op \in Ops : Call(op)
Spec == Init /\ [][Next]_vars
=============================================================================
