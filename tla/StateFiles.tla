----------------------------- MODULE StateFiles -----------------------------
(***************************************************************************)
(* One JSON file and the calls that change it: load, change a copy, write   *)
(* the whole copy back through a temporary file (atomic-write.ts).  No lock  *)
(* is taken.  user-config.json is overwritten in place and then assigned to  *)
(* the running configuration.                                               *)
(***************************************************************************)
EXTENDS Repos

CONSTANTS
  Writers,      \* calls that may be under way together
  TmpNames,     \* process and millisecond
  SharedNames,  \* two calls may open the same temporary name
  ReadFaults    \* a read may fail

VARIABLES
  kind,    \* what the file holds
  file,    \* [state |-> "missing", "half" or "whole", c |-> its contents]
  tmp,     \* the same, per temporary name
  op,      \* per writer, the call in progress
  live,    \* the running configuration
  up       \* the process runs

vars == <<kind, file, tmp, op, live, up>>

Missing  == [state |-> "missing", c |-> Default(kind)]
Half     == [state |-> "half", c |-> Default(kind)]
Whole(c) == [state |-> "whole", c |-> c]
Idle     == [step |-> "idle", copy |-> Default(kind), name |-> {}]
Everywhere == TRUE                                             \* mutant
InPlace    == kind = "config"

Init ==
  /\ kind \in Kinds
  /\ file = IF InPlace THEN Whole(Default(kind)) ELSE Missing
  /\ tmp = [n \in TmpNames |-> Missing]
  /\ op = [w \in Writers |-> Idle]
  /\ live = Default(kind) /\ up = TRUE

---------------------------------------------------------------------------
(* readJsonValidated: nothing, or the whole contents.                       *)
Readable ==
  CASE file.state = "whole" -> {file.c}
    [] file.state = "missing" -> {Default(kind)}
    [] file.state = "half" -> {}
Reads == IF ReadFaults THEN {Readable, {}} ELSE {Readable}

(* A failed read: what adds starts from the default, the others give up.    *)
Base(read, name) == IF read = {} /\ name = "add" THEN {Default(kind)} ELSE read

Load(w) ==
  /\ up /\ op[w].step = "idle"
  /\ \E o \in Ops, read \in Reads : \E base \in Base(read, o.name) :
       \E c \in Applied(kind, base, o) :
         op' = [op EXCEPT ![w] = [step |-> "open", copy |-> c, name |-> {}]]
  /\ UNCHANGED <<kind, file, tmp, live, up>>

Step(w, from, to) == up /\ op[w].step = from /\ op' = [op EXCEPT ![w].step = to]
Finish(w) == op' = [op EXCEPT ![w] = Idle]
NoneInUse == {}                                                \* mutant
InUse     == UNION {op[w].name : w \in Writers}

OpenTmp(w) ==
  /\ up /\ op[w].step = "open"
  /\ \E n \in TmpNames :
       /\ SharedNames \/ n \notin InUse
       /\ tmp' = [tmp EXCEPT ![n] = Half]
       /\ op' = [op EXCEPT ![w].step = "fill", ![w].name = {n}]
  /\ UNCHANGED <<kind, file, live, up>>

FillTmp(w) ==
  /\ Step(w, "fill", "swap")
  /\ tmp' = [n \in TmpNames |-> IF n \in op[w].name THEN Whole(op[w].copy) ELSE tmp[n]]
  /\ UNCHANGED <<kind, file, live, up>>

(* The rename, or its failure on a name another call has renamed already.   *)
Rename(w) ==
  /\ up /\ op[w].step = "swap" /\ ~InPlace /\ Finish(w)
  /\ \E n \in op[w].name :
       IF tmp[n].state = "missing" THEN UNCHANGED <<file, tmp>>
       ELSE file' = tmp[n] /\ tmp' = [tmp EXCEPT ![n] = Missing]
  /\ UNCHANGED <<kind, live, up>>

(* copyFile into the file itself, then rm of the copy.                      *)
Truncate(w) ==
  /\ Step(w, "swap", "copy") /\ InPlace
  /\ file' = Half
  /\ UNCHANGED <<kind, tmp, live, up>>

CopyBack(w) ==
  /\ Step(w, "copy", "rm")
  /\ file' = CHOOSE f \in {tmp[n] : n \in op[w].name} : TRUE
  /\ UNCHANGED <<kind, tmp, live, up>>

RmTmp(w) ==
  /\ Step(w, "rm", "reload")
  /\ tmp' = [n \in TmpNames |-> IF n \in op[w].name THEN Missing ELSE tmp[n]]
  /\ UNCHANGED <<kind, file, live, up>>

(* Every section is assigned over the running configuration.               *)
Nested(w) == op[w].copy
Reload(w) ==
  /\ up /\ op[w].step = "reload" /\ Finish(w) /\ live' = Nested(w)
  /\ UNCHANGED <<kind, file, tmp, up>>

(* Temporary files left behind are never read again; they are kept here      *)
(* only next to a file that was cut short.                                  *)
Crash ==
  /\ up /\ up' = FALSE /\ op' = [w \in Writers |-> Idle]
  /\ tmp' = IF file.state = "half" THEN tmp ELSE [n \in TmpNames |-> Missing]
  /\ UNCHANGED <<kind, file, live>>

(* main() stops on a configuration it cannot read.                          *)
Restart ==
  /\ ~up /\ (InPlace => file.state = "whole")
  /\ up' = TRUE /\ live' = IF InPlace THEN file.c ELSE live
  /\ UNCHANGED <<kind, file, tmp, op>>

Next ==
  \/ \E w \in Writers :
       \/ Load(w) \/ OpenTmp(w) \/ FillTmp(w) \/ Rename(w)
       \/ Truncate(w) \/ CopyBack(w) \/ RmTmp(w) \/ Reload(w)
  \/ Crash \/ Restart
Spec == Init /\ [][Next]_vars

---------------------------------------------------------------------------
(* Properties                                                              *)

(* Whoever writes what, and wherever the process dies, the disk holds whole *)
(* contents: in the file, or, for the file that is overwritten in place, in *)
(* a temporary file next to it (atomic-write.ts:30-40).                     *)
WholeOnDisk ==
  \/ file.state # "half"
  \/ kind = "config" /\ \E n \in TmpNames : tmp[n].state = "whole"

(* A lone writer has a StateRegister: no half, lost or mixed contents, and  *)
(* no call that happens twice or in part.  The file overwritten in place    *)
(* changes when it is truncated, its new contents being safe next to it.    *)
Copies   == {tmp[n].c : n \in {m \in TmpNames : tmp[m].state = "whole"}}
Contents ==
  IF file.state = "whole" THEN file.c
  ELSE IF kind = "config" /\ Copies # {} THEN CHOOSE c \in Copies : TRUE
  ELSE Default(kind)
Register == INSTANCE StateRegister WITH contents <- Contents
LoneWriterIsAtomic == Register!Spec
=============================================================================
