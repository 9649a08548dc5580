-------------------------- MODULE StateFilesProofs --------------------------
(***************************************************************************)
(* What the JSON files promise for any contents, names and writers.        *)
(***************************************************************************)
EXTENDS StateFiles, TLAPS

---------------------------------------------------------------------------
(* The calls in progress.                                                  *)

Shaped ==
  /\ DOMAIN tmp = TmpNames
  /\ DOMAIN op = Writers
  /\ \A w \in Writers : DOMAIN op[w] = {"step", "copy", "name"}

(* A temporary name has one user, from its opening to its end.              *)
Holds == {"fill", "swap", "copy", "rm"}
Named ==
  /\ \A w \in Writers : op[w].step \in Holds => \E n \in TmpNames : op[w].name = {n}
  /\ \A v, w \in Writers : v # w => op[v].name \cap op[w].name = {}

(* What is about to replace the file is whole.                             *)
Filled == \A w \in Writers : op[w].step \in {"swap", "copy"} =>
            \A n \in op[w].name : tmp[n].state = "whole"

(* A file cut short is the configuration: a call is copying into it, or died *)
(* doing so and left its copy behind.                                       *)
Cut ==
  file.state = "half" =>
    /\ kind = "config"
    /\ IF up THEN \E w \in Writers : op[w].step = "copy"
       ELSE \E n \in TmpNames : tmp[n].state = "whole"

DiskInv == Shaped /\ Named /\ Filled /\ Cut

LEMMA CutIsSafe == DiskInv => WholeOnDisk
  BY DEF DiskInv, Named, Holds, Filled, Cut, WholeOnDisk

---------------------------------------------------------------------------
(* What each step does to the calls.                                       *)

LEMMA Stepped ==
  ASSUME Shaped, NEW w \in Writers, NEW from, NEW to, Step(w, from, to)
  PROVE  /\ DOMAIN op' = Writers /\ \A v \in Writers : DOMAIN op'[v] = {"step", "copy", "name"}
         /\ op[w].step = from /\ op'[w].step = to
         /\ op'[w].copy = op[w].copy /\ op'[w].name = op[w].name
         /\ \A v \in Writers : v # w => op'[v] = op[v]
  BY DEF Shaped, Step

LEMMA Finished ==
  ASSUME Shaped, NEW w \in Writers, Finish(w)
  PROVE  /\ DOMAIN op' = Writers /\ \A v \in Writers : DOMAIN op'[v] = {"step", "copy", "name"}
         /\ op'[w].step = "idle" /\ op'[w].name = {}
         /\ \A v \in Writers : v # w => op'[v] = op[v]
  BY DEF Shaped, Finish, Idle

LEMMA Loaded ==
  ASSUME Shaped, NEW w \in Writers, Load(w)
  PROVE  /\ DOMAIN op' = Writers /\ \A v \in Writers : DOMAIN op'[v] = {"step", "copy", "name"}
         /\ op[w].step = "idle" /\ op'[w].step = "open" /\ op'[w].name = {}
         /\ \E o \in Ops, read \in Reads : \E base \in Base(read, o.name) :
              op'[w].copy \in Applied(kind, base, o)
         /\ \A v \in Writers : v # w => op'[v] = op[v]
  <1>o. PICK o \in Ops, read \in Reads :
          \E base \in Base(read, o.name) : \E c \in Applied(kind, base, o) :
            op' = [op EXCEPT ![w] = [step |-> "open", copy |-> c, name |-> {}]]
    BY DEF Load
  <1>b. PICK base \in Base(read, o.name) : \E c \in Applied(kind, base, o) :
          op' = [op EXCEPT ![w] = [step |-> "open", copy |-> c, name |-> {}]]
    BY <1>o
  <1>1. PICK c \in Applied(kind, base, o) :
          op' = [op EXCEPT ![w] = [step |-> "open", copy |-> c, name |-> {}]]
    BY <1>b
  <1>2. op'[w].copy = c
    BY <1>1 DEF Shaped
  <1>3. \A v \in Writers : v # w => op'[v] = op[v]
    BY <1>1 DEF Shaped
  <1>4. op'[w] = [step |-> "open", copy |-> c, name |-> {}] /\ DOMAIN op' = Writers
    BY <1>1 DEF Shaped
  <1>5. \A v \in Writers : DOMAIN op'[v] = {"step", "copy", "name"}
    BY <1>3, <1>4 DEF Shaped
  <1> QED
    BY <1>2, <1>3, <1>4, <1>5 DEF Load

LEMMA Opened ==
  ASSUME Shaped, NEW w \in Writers, OpenTmp(w)
  PROVE  /\ DOMAIN op' = Writers /\ \A v \in Writers : DOMAIN op'[v] = {"step", "copy", "name"}
         /\ DOMAIN tmp' = TmpNames
         /\ op[w].step = "open" /\ op'[w].step = "fill" /\ op'[w].copy = op[w].copy
         /\ \A v \in Writers : v # w => op'[v] = op[v]
         /\ \E n \in TmpNames :
              /\ SharedNames \/ n \notin InUse
              /\ op'[w].name = {n} /\ tmp'[n] = Half
              /\ \A m \in TmpNames : m # n => tmp'[m] = tmp[m]
  BY DEF Shaped, OpenTmp

---------------------------------------------------------------------------
(* Names that no two calls share keep a whole copy of everything.           *)

LEMMA InitDisk == Init => DiskInv
  <1> SUFFICES ASSUME Init PROVE DiskInv
    OBVIOUS
  <1>1. \A w \in Writers : op[w] = Idle
    BY DEF Init
  <1>2. DOMAIN op = Writers /\ DOMAIN tmp = TmpNames
    BY DEF Init
  <1>3. file.state # "half"
    BY DEF Init, Whole, Missing
  <1> QED
    BY <1>1, <1>2, <1>3 DEF DiskInv, Shaped, Named, Holds, Filled, Cut, Idle

LEMMA LoadDisk ==
  ASSUME DiskInv, NEW w \in Writers, Load(w) PROVE DiskInv'
  <1>1. UNCHANGED <<kind, file, tmp, up>>
    BY DEF Load
  <1> USE DEF DiskInv
  <1>2. Shaped'
    BY <1>1, Loaded DEF Shaped
  <1>3. Named'
    BY Loaded DEF Named, Holds
  <1>4. Filled'
    BY <1>1, Loaded DEF Filled
  <1>5. Cut'
    BY <1>1, Loaded DEF Cut
  <1> QED
    BY <1>2, <1>3, <1>4, <1>5

LEMMA OpenDisk ==
  ASSUME DiskInv, ~SharedNames, NEW w \in Writers, OpenTmp(w) PROVE DiskInv'
  <1>1. UNCHANGED <<kind, file, up>>
    BY DEF OpenTmp
  <1> USE DEF DiskInv
  <1>n. PICK n \in TmpNames :
          /\ n \notin InUse /\ op'[w].name = {n} /\ tmp'[n] = Half
          /\ \A m \in TmpNames : m # n => tmp'[m] = tmp[m]
    BY Opened
  <1>u. \A v \in Writers : n \notin op[v].name
    BY <1>n DEF InUse
  <1>2. Shaped'
    BY Opened DEF Shaped
  <1>3. Named'
    BY Opened, <1>n, <1>u DEF Named, Holds
  <1>4. Filled'
    <2> SUFFICES ASSUME NEW v \in Writers, op'[v].step \in {"swap", "copy"}, NEW m \in op'[v].name
                 PROVE  tmp'[m].state = "whole"
      BY DEF Filled
    <2>1. v # w /\ op'[v] = op[v]
      BY Opened
    <2>2. m # n /\ m \in TmpNames
      BY <2>1, <1>u DEF Named, Holds
    <2> QED
      BY <2>1, <2>2, <1>n DEF Filled
  <1>5. Cut'
    <2>1. CASE up
      BY <2>1, <1>1, Opened DEF Cut
    <2>2. CASE ~up
      BY <2>2 DEF OpenTmp
    <2> QED
      BY <2>1, <2>2
  <1> QED
    BY <1>2, <1>3, <1>4, <1>5

LEMMA FillDisk ==
  ASSUME DiskInv, NEW w \in Writers, FillTmp(w) PROVE DiskInv'
  <1>1. UNCHANGED <<kind, file, up>> /\ Step(w, "fill", "swap")
        /\ tmp' = [n \in TmpNames |-> IF n \in op[w].name THEN Whole(op[w].copy) ELSE tmp[n]]
    BY DEF FillTmp, Step
  <1> USE DEF DiskInv
  <1>2. Shaped'
    BY <1>1, Stepped DEF Shaped
  <1>3. Named'
    BY <1>1, Stepped DEF Named, Holds
  <1>w. \A n \in TmpNames : tmp[n].state = "whole" => tmp'[n].state = "whole"
    BY <1>1 DEF Whole
  <1>4. Filled'
    <2> SUFFICES ASSUME NEW v \in Writers, op'[v].step \in {"swap", "copy"}, NEW m \in op'[v].name
                 PROVE  tmp'[m].state = "whole"
      BY DEF Filled
    <2>1. m \in TmpNames
      BY <1>3 DEF Named, Holds
    <2>2. CASE v = w
      BY <2>1, <2>2, <1>1, Stepped DEF Whole
    <2>3. CASE v # w
      BY <2>1, <2>3, <1>1, <1>w, Stepped DEF Filled
    <2> QED
      BY <2>2, <2>3
  <1>5. Cut'
    BY <1>1, <1>w, Stepped DEF Cut
  <1> QED
    BY <1>2, <1>3, <1>4, <1>5

(* A step after the file is whole again, and one that ends with a name.     *)
LEMMA RenameDisk ==
  ASSUME DiskInv, NEW w \in Writers, Rename(w) PROVE DiskInv'
  <1> USE DEF DiskInv
  <1>n. PICK n \in TmpNames : op[w].name = {n} /\ tmp[n].state = "whole"
    BY DEF Rename, Named, Holds, Filled
  <1>1. /\ Finish(w) /\ UNCHANGED <<kind, up>>
        /\ file' = tmp[n] /\ tmp' = [tmp EXCEPT ![n] = Missing]
    BY <1>n DEF Rename
  <1>2. Shaped'
    BY <1>1, Finished DEF Shaped
  <1>3. Named'
    BY <1>1, Finished DEF Named, Holds
  <1>4. Filled'
    <2> SUFFICES ASSUME NEW v \in Writers, op'[v].step \in {"swap", "copy"}, NEW m \in op'[v].name
                 PROVE  tmp'[m].state = "whole"
      BY DEF Filled
    <2>1. v # w /\ op'[v] = op[v]
      BY <1>1, Finished
    <2>2. m \in TmpNames /\ m # n
      BY <2>1, <1>n DEF Named, Holds
    <2> QED
      BY <2>1, <2>2, <1>1 DEF Filled, Shaped
  <1>5. Cut'
    BY <1>1, <1>n DEF Cut
  <1> QED
    BY <1>2, <1>3, <1>4, <1>5

LEMMA TruncateDisk ==
  ASSUME DiskInv, NEW w \in Writers, Truncate(w) PROVE DiskInv'
  <1>1. Step(w, "swap", "copy") /\ up /\ UNCHANGED <<kind, tmp, up>> /\ kind = "config"
    BY DEF Truncate, Step, InPlace
  <1> USE DEF DiskInv
  <1>2. Shaped'
    BY <1>1, Stepped DEF Shaped
  <1>3. Named'
    BY <1>1, Stepped DEF Named, Holds
  <1>4. Filled'
    BY <1>1, Stepped DEF Filled
  <1>5. Cut'
    BY <1>1, Stepped DEF Cut
  <1> QED
    BY <1>2, <1>3, <1>4, <1>5

LEMMA CopyBackFile ==
  ASSUME DiskInv, NEW w \in Writers, CopyBack(w)
  PROVE  \E n \in TmpNames : op[w].name = {n} /\ file' = tmp[n] /\ tmp[n].state = "whole"
  <1>1. PICK n \in TmpNames : op[w].name = {n}
    BY DEF DiskInv, Named, Holds, CopyBack, Step
  <1>2. {tmp[m] : m \in op[w].name} = {tmp[n]}
    BY <1>1
  <1>3. (CHOOSE f \in {tmp[n]} : TRUE) = tmp[n]
    OBVIOUS
  <1>4. file' = tmp[n]
    BY <1>2, <1>3 DEF CopyBack
  <1>5. tmp[n].state = "whole"
    BY <1>1 DEF DiskInv, Filled, CopyBack, Step
  <1> QED
    BY <1>1, <1>4, <1>5

LEMMA CopyBackDisk ==
  ASSUME DiskInv, NEW w \in Writers, CopyBack(w) PROVE DiskInv'
  <1>1. Step(w, "copy", "rm") /\ UNCHANGED <<kind, tmp, up>>
    BY DEF CopyBack, Step
  <1>f. file'.state = "whole"
    BY CopyBackFile
  <1> USE DEF DiskInv
  <1>2. Shaped'
    BY <1>1, Stepped DEF Shaped
  <1>3. Named'
    BY <1>1, Stepped DEF Named, Holds
  <1>4. Filled'
    BY <1>1, Stepped DEF Filled
  <1>5. Cut'
    BY <1>f DEF Cut
  <1> QED
    BY <1>2, <1>3, <1>4, <1>5

LEMMA RmDisk ==
  ASSUME DiskInv, NEW w \in Writers, RmTmp(w) PROVE DiskInv'
  <1>1. /\ Step(w, "rm", "reload") /\ up /\ UNCHANGED <<kind, file, up>>
        /\ tmp' = [n \in TmpNames |-> IF n \in op[w].name THEN Missing ELSE tmp[n]]
    BY DEF RmTmp, Step
  <1> USE DEF DiskInv
  <1>2. Shaped'
    BY <1>1, Stepped DEF Shaped
  <1>3. Named'
    BY <1>1, Stepped DEF Named, Holds
  <1>4. Filled'
    <2> SUFFICES ASSUME NEW v \in Writers, op'[v].step \in {"swap", "copy"}, NEW m \in op'[v].name
                 PROVE  tmp'[m].state = "whole"
      BY DEF Filled
    <2>1. v # w /\ op'[v] = op[v]
      BY <1>1, Stepped
    <2>2. m \in TmpNames /\ m \notin op[w].name
      BY <2>1 DEF Named, Holds
    <2> QED
      BY <2>1, <2>2, <1>1 DEF Filled
  <1>5. Cut'
    BY <1>1, Stepped DEF Cut
  <1> QED
    BY <1>2, <1>3, <1>4, <1>5

LEMMA ReloadDisk ==
  ASSUME DiskInv, NEW w \in Writers, Reload(w) PROVE DiskInv'
  <1>1. Finish(w) /\ op[w].step = "reload" /\ UNCHANGED <<kind, file, tmp, up>>
    BY DEF Reload
  <1> USE DEF DiskInv
  <1>2. Shaped'
    BY <1>1, Finished DEF Shaped
  <1>3. Named'
    BY <1>1, Finished DEF Named, Holds
  <1>4. Filled'
    BY <1>1, Finished DEF Filled
  <1>5. Cut'
    BY <1>1, Finished DEF Cut
  <1> QED
    BY <1>2, <1>3, <1>4, <1>5

LEMMA CrashDisk ==
  ASSUME DiskInv, Crash PROVE DiskInv'
  <1> USE DEF DiskInv
  <1>1. \A w \in Writers : op'[w] = Idle
    BY DEF Crash
  <1>i. Idle.step = "idle" /\ Idle.name = {} /\ DOMAIN Idle = {"step", "copy", "name"}
    BY DEF Idle
  <1>2. Shaped'
    BY <1>1, <1>i DEF Shaped, Crash
  <1>3. Named'
    BY <1>1, <1>i DEF Named, Holds
  <1>4. Filled'
    BY <1>1, <1>i DEF Filled
  <1>5. Cut'
    <2> SUFFICES ASSUME file'.state = "half"
                 PROVE  kind' = "config" /\ ~up' /\ \E n \in TmpNames : tmp'[n].state = "whole"
      BY DEF Cut
    <2>1. file.state = "half" /\ kind' = kind /\ up /\ ~up' /\ tmp' = tmp
      BY DEF Crash
    <2>2. PICK w \in Writers : op[w].step = "copy"
      BY <2>1 DEF Cut
    <2> QED
      BY <2>1, <2>2 DEF Cut, Named, Holds, Filled
  <1> QED
    BY <1>2, <1>3, <1>4, <1>5

LEMMA RestartDisk ==
  ASSUME DiskInv, Restart PROVE DiskInv'
  <1>1. UNCHANGED <<kind, file, tmp, op>> /\ file.state # "half"
    BY DEF Restart, DiskInv, Cut, InPlace
  <1> QED
    BY <1>1 DEF DiskInv, Shaped, Named, Filled, Cut

LEMMA DiskNext == ~SharedNames /\ DiskInv /\ [Next]_vars => DiskInv'
  <1> SUFFICES ASSUME ~SharedNames, DiskInv, [Next]_vars PROVE DiskInv'
    OBVIOUS
  <1>1. CASE UNCHANGED vars
    BY <1>1 DEF vars, DiskInv, Shaped, Named, Filled, Cut
  <1>2. ASSUME NEW w \in Writers, Load(w) PROVE DiskInv'
    BY <1>2, LoadDisk
  <1>3. ASSUME NEW w \in Writers, OpenTmp(w) PROVE DiskInv'
    BY <1>3, OpenDisk
  <1>4. ASSUME NEW w \in Writers, FillTmp(w) PROVE DiskInv'
    BY <1>4, FillDisk
  <1>5. ASSUME NEW w \in Writers, Rename(w) PROVE DiskInv'
    BY <1>5, RenameDisk
  <1>6. ASSUME NEW w \in Writers, Truncate(w) PROVE DiskInv'
    BY <1>6, TruncateDisk
  <1>7. ASSUME NEW w \in Writers, CopyBack(w) PROVE DiskInv'
    BY <1>7, CopyBackDisk
  <1>8. ASSUME NEW w \in Writers, RmTmp(w) PROVE DiskInv'
    BY <1>8, RmDisk
  <1>9. ASSUME NEW w \in Writers, Reload(w) PROVE DiskInv'
    BY <1>9, ReloadDisk
  <1>10. CASE Crash
    BY <1>10, CrashDisk
  <1>11. CASE Restart
    BY <1>11, RestartDisk
  <1> QED
    BY <1>1, <1>2, <1>3, <1>4, <1>5, <1>6, <1>7, <1>8, <1>9, <1>10, <1>11 DEF Next

SeparateDisk == ~SharedNames /\ DiskInv

LEMMA DiskHolds == ~SharedNames /\ Spec => []SeparateDisk
  <1>1. ~SharedNames /\ Init => SeparateDisk
    BY InitDisk DEF SeparateDisk
  <1>2. SeparateDisk /\ [Next]_vars => SeparateDisk'
    BY DiskNext DEF SeparateDisk
  <1> QED
    BY <1>1, <1>2, PTL DEF Spec

(* atomic-write.ts: when no two calls open the same temporary name, whatever *)
(* they write, wherever the process dies and however often it starts again,  *)
(* the disk holds whole contents.                                           *)
THEOREM WholeOnDiskHolds == ~SharedNames /\ Spec => []WholeOnDisk
  <1>1. SeparateDisk => WholeOnDisk
    BY CutIsSafe DEF SeparateDisk
  <1>2. ~SharedNames /\ Spec => []SeparateDisk
    BY DiskHolds
  <1> QED
    BY <1>1, <1>2, PTL

---------------------------------------------------------------------------
(* A lone writer.                                                          *)

LEMMA SameCalls ==
  ASSUME NEW k, NEW c, NEW o
  PROVE  Register!Applied(k, c, o) = Applied(k, c, o)
  BY DEF Register!Applied, Applied, Register!StrategyLibrary, StrategyLibrary,
         Register!AddressMap, AddressMap, Register!PerformanceLog, PerformanceLog,
         Register!FlatConfig, FlatConfig, Register!Default, Default

LEMMA SameDefault ==
  ASSUME NEW k PROVE Register!Default(k) = Default(k)
  BY DEF Register!Default, Default

LEMMA SameKinds == Register!Kinds = Kinds /\ Register!Ops = Ops
  BY DEF Register!Kinds, Kinds, Register!Ops, Ops

Lone == ~SharedNames /\ ~ReadFaults /\ \A v, w \in Writers : v = w

(* The configuration is there from the start.                              *)
Present ==
  /\ file.state \in {"missing", "half", "whole"}
  /\ kind = "config" => file.state # "missing"

(* The disk holds no name but that of the call in progress.                 *)
AllMissing == \A n \in TmpNames : tmp[n].state = "missing"
Own ==
  /\ up => \A w \in Writers, n \in TmpNames :
             tmp[n].state = "missing" \/ (op[w].step \in Holds /\ n \in op[w].name)
  /\ ~up /\ file.state # "half" => AllMissing

(* The name holds what the call carries, and what it carries is what it      *)
(* makes of the contents that are there.                                    *)
Copied ==
  \A w \in Writers : op[w].step \in {"swap", "copy"} =>
    \A n \in op[w].name : tmp[n] = Whole(op[w].copy)
Copying == \A w \in Writers : op[w].step = "copy" => file.state = "half" /\ kind = "config"
Fresh ==
  \A w \in Writers : op[w].step \in {"open", "fill", "swap"} =>
    \E o \in Ops : op[w].copy \in Applied(kind, Contents, o)

LoneInv == Lone /\ DiskInv /\ Present /\ Own /\ Copied /\ Copying /\ Fresh

Kept   == Contents' = Contents /\ kind' = kind
Turned == kind' = kind /\ \E o \in Ops : Contents' \in Applied(kind, Contents, o)

---------------------------------------------------------------------------
(* The contents.                                                           *)

(* While the file is not cut short, it alone tells them.                    *)
LEMMA ContentsOfFile ==
  ASSUME Present, file.state # "half"
  PROVE  Contents = IF file.state = "whole" THEN file.c ELSE Default(kind)
  BY DEF Contents, Present
LEMMA ContentsOfFileThen ==
  ASSUME Present', file'.state # "half"
  PROVE  Contents' = IF file'.state = "whole" THEN file'.c ELSE Default(kind')
  BY DEF Contents, Present

(* While a lone writer copies, its temporary file does.                     *)
LEMMA OneCopy ==
  ASSUME NEW n \in TmpNames, NEW c, tmp[n] = Whole(c),
         \A m \in TmpNames : m # n => tmp[m].state # "whole"
  PROVE  Copies # {} /\ (CHOOSE x \in Copies : TRUE) = c
  <1>1. Whole(c).state = "whole" /\ Whole(c).c = c
    BY DEF Whole
  <1>2. {m \in TmpNames : tmp[m].state = "whole"} = {n}
    BY <1>1
  <1>3. Copies = {c}
    BY <1>1, <1>2 DEF Copies
  <1>4. (CHOOSE x \in {c} : TRUE) = c
    OBVIOUS
  <1> QED
    BY <1>3, <1>4

LEMMA OneName ==
  ASSUME LoneInv, up, NEW w \in Writers, op[w].step \in {"swap", "copy"}
  PROVE  /\ \E n \in TmpNames :
              /\ op[w].name = {n} /\ tmp[n] = Whole(op[w].copy)
              /\ \A m \in TmpNames : m # n => tmp[m].state = "missing"
         /\ Copies # {} /\ (CHOOSE x \in Copies : TRUE) = op[w].copy
  <1>1. PICK n \in TmpNames : op[w].name = {n}
    BY DEF LoneInv, DiskInv, Named, Holds
  <1>2. tmp[n] = Whole(op[w].copy)
    BY <1>1 DEF LoneInv, Copied
  <1>3. \A m \in TmpNames : m # n => tmp[m].state = "missing"
    BY <1>1 DEF LoneInv, Own
  <1>4. Copies # {} /\ (CHOOSE x \in Copies : TRUE) = op[w].copy
    BY <1>2, <1>3, OneCopy
  <1> QED
    BY <1>1, <1>2, <1>3, <1>4

(* The file is cut short only while the lone writer copies.                 *)
LEMMA NotCut ==
  ASSUME LoneInv, up, NEW w \in Writers, op[w].step # "copy"
  PROVE  file.state # "half"
  BY DEF LoneInv, Lone, DiskInv, Cut

LEMMA SameFile ==
  ASSUME LoneInv, file.state # "half", UNCHANGED <<kind, file>>
  PROVE  Kept /\ Present'
  <1>1. Present'
    BY DEF LoneInv, Present
  <1>2. Contents = IF file.state = "whole" THEN file.c ELSE Default(kind)
    BY ContentsOfFile DEF LoneInv
  <1>3. Contents' = IF file.state = "whole" THEN file.c ELSE Default(kind)
    BY <1>1, ContentsOfFileThen
  <1> QED
    BY <1>1, <1>2, <1>3 DEF Kept

---------------------------------------------------------------------------
(* Each step of a lone writer keeps the contents or is one call.            *)

LEMMA InitLone == Lone /\ Init => LoneInv /\ Contents = Default(kind)
  <1> SUFFICES ASSUME Lone, Init PROVE LoneInv /\ Contents = Default(kind)
    OBVIOUS
  <1>1. \A w \in Writers : op[w].step = "idle"
    BY DEF Init, Idle
  <1>2. AllMissing
    BY DEF Init, AllMissing, Missing
  <1>3. /\ file.state \in {"missing", "whole"} /\ file.c = Default(kind)
        /\ kind = "config" => file.state # "missing"
    BY DEF Init, InPlace, Whole, Missing
  <1>4. Present
    BY <1>3 DEF Present
  <1>5. Contents = Default(kind)
    BY <1>3, <1>4, ContentsOfFile
  <1>6. DiskInv /\ Own /\ Copied /\ Copying /\ Fresh
    BY <1>1, <1>2, InitDisk DEF Own, AllMissing, Copied, Copying, Fresh
  <1> QED
    BY <1>4, <1>5, <1>6 DEF LoneInv

LEMMA LoadLone ==
  ASSUME LoneInv, NEW w \in Writers, Load(w) PROVE LoneInv' /\ Kept
  <1>s. Shaped /\ Lone
    BY DEF LoneInv, DiskInv
  <1>1. UNCHANGED <<kind, file, tmp, up>> /\ up /\ op[w].step = "idle" /\ op'[w].step = "open"
    BY <1>s, Loaded DEF Load
  <1>2. file.state # "half" /\ Kept /\ Present'
    BY <1>1, NotCut, SameFile
  <1>3. DiskInv'
    BY LoadDisk DEF LoneInv
  <1>4. Own' /\ Copied' /\ Copying'
    BY <1>s, <1>1, <1>2 DEF LoneInv, Lone, Own, AllMissing, Holds, Copied, Copying
  <1>5. Reads = {{Contents}}
    <2>1. Reads = {Readable}
      BY <1>s DEF Reads, Lone
    <2>2. Readable = {Contents}
      BY <1>2, ContentsOfFile DEF Readable, LoneInv, Present
    <2> QED
      BY <2>1, <2>2
  <1>6. PICK o \in Ops, read \in Reads :
          \E base \in Base(read, o.name) : op'[w].copy \in Applied(kind, base, o)
    BY <1>s, Loaded
  <1>7. Base(read, o.name) = {Contents}
    BY <1>5, <1>6 DEF Base
  <1>8. op'[w].copy \in Applied(kind, Contents, o)
    BY <1>6, <1>7
  <1>9. Fresh'
    BY <1>s, <1>1, <1>2, <1>8 DEF Fresh, Lone, Kept
  <1> QED
    BY <1>s, <1>2, <1>3, <1>4, <1>9 DEF LoneInv

LEMMA OpenLone ==
  ASSUME LoneInv, NEW w \in Writers, OpenTmp(w) PROVE LoneInv' /\ Kept
  <1>s. Shaped /\ Lone /\ \A v \in Writers : v = w
    BY DEF LoneInv, DiskInv, Lone
  <1>1. /\ UNCHANGED <<kind, file, up>> /\ up /\ op[w].step = "open" /\ op'[w].step = "fill"
        /\ op'[w].copy = op[w].copy
    BY <1>s, Opened DEF OpenTmp
  <1>2. file.state # "half" /\ Kept /\ Present'
    BY <1>1, NotCut, SameFile
  <1>3. DiskInv'
    BY OpenDisk DEF LoneInv, Lone
  <1>n. PICK n \in TmpNames : op'[w].name = {n} /\ \A m \in TmpNames : m # n => tmp'[m] = tmp[m]
    BY <1>s, Opened
  <1>4. Own'
    BY <1>s, <1>1, <1>n DEF LoneInv, Own, Holds
  <1>5. Copied' /\ Copying'
    BY <1>s, <1>1 DEF Copied, Copying
  <1>6. Fresh'
    BY <1>s, <1>1, <1>2 DEF LoneInv, Fresh, Kept
  <1> QED
    BY <1>s, <1>2, <1>3, <1>4, <1>5, <1>6 DEF LoneInv

LEMMA FillLone ==
  ASSUME LoneInv, NEW w \in Writers, FillTmp(w) PROVE LoneInv' /\ Kept
  <1>s. Shaped /\ Lone /\ \A v \in Writers : v = w
    BY DEF LoneInv, DiskInv, Lone
  <1>0. Step(w, "fill", "swap") /\ UNCHANGED <<kind, file, up>> /\ up
        /\ tmp' = [n \in TmpNames |-> IF n \in op[w].name THEN Whole(op[w].copy) ELSE tmp[n]]
    BY DEF FillTmp, Step
  <1>1. /\ op[w].step = "fill" /\ op'[w].step = "swap"
        /\ op'[w].copy = op[w].copy /\ op'[w].name = op[w].name
    BY <1>s, <1>0, Stepped
  <1>2. file.state # "half" /\ Kept /\ Present'
    BY <1>0, <1>1, NotCut, SameFile
  <1>3. DiskInv'
    BY FillDisk DEF LoneInv
  <1>4. Own'
    BY <1>s, <1>0, <1>1 DEF LoneInv, Own, Holds
  <1>5. Copied'
    <2>1. \A n \in op[w].name : n \in TmpNames
      BY <1>1 DEF LoneInv, DiskInv, Named, Holds
    <2> QED
      BY <2>1, <1>s, <1>0, <1>1 DEF Copied, Whole
  <1>6. Copying' /\ Fresh'
    BY <1>s, <1>0, <1>1, <1>2 DEF LoneInv, Copying, Fresh, Kept
  <1> QED
    BY <1>s, <1>2, <1>3, <1>4, <1>5, <1>6 DEF LoneInv

LEMMA RenameLone ==
  ASSUME LoneInv, NEW w \in Writers, Rename(w) PROVE LoneInv' /\ Turned
  <1>s. Shaped /\ Lone /\ \A v \in Writers : v = w
    BY DEF LoneInv, DiskInv, Lone
  <1>0. up /\ op[w].step = "swap" /\ kind # "config" /\ Finish(w) /\ UNCHANGED <<kind, up>>
    BY DEF Rename, InPlace
  <1>n. PICK n \in TmpNames : /\ op[w].name = {n} /\ tmp[n] = Whole(op[w].copy)
                              /\ \A m \in TmpNames : m # n => tmp[m].state = "missing"
    BY <1>0, OneName
  <1>w. Whole(op[w].copy).state = "whole" /\ Whole(op[w].copy).c = op[w].copy
    BY DEF Whole
  <1>1. file' = Whole(op[w].copy) /\ tmp' = [tmp EXCEPT ![n] = Missing]
    BY <1>n, <1>w DEF Rename
  <1>2. op'[w].step = "idle"
    BY <1>s, <1>0, Finished
  <1>3. Present'
    BY <1>0, <1>1, <1>w DEF Present
  <1>4. Contents' = op[w].copy
    BY <1>1, <1>3, <1>w, ContentsOfFileThen
  <1>5. Turned
    BY <1>0, <1>4 DEF LoneInv, Fresh, Turned
  <1>6. DiskInv'
    BY RenameDisk DEF LoneInv
  <1>7. tmp'[n].state = "missing" /\ \A m \in TmpNames : tmp'[m].state = "missing"
    BY <1>s, <1>1, <1>n DEF Shaped, Missing
  <1>8. Own' /\ Copied' /\ Copying' /\ Fresh'
    BY <1>s, <1>2, <1>7, <1>0 DEF Own, AllMissing, Copied, Copying, Fresh
  <1> QED
    BY <1>s, <1>3, <1>5, <1>6, <1>8 DEF LoneInv

LEMMA TruncateLone ==
  ASSUME LoneInv, NEW w \in Writers, Truncate(w) PROVE LoneInv' /\ Turned
  <1>s. Shaped /\ Lone /\ \A v \in Writers : v = w
    BY DEF LoneInv, DiskInv, Lone
  <1>0. /\ Step(w, "swap", "copy") /\ kind = "config" /\ up
        /\ file' = Half /\ UNCHANGED <<kind, tmp, up>>
    BY DEF Truncate, InPlace, Step
  <1>1. /\ op[w].step = "swap" /\ op'[w].step = "copy"
        /\ op'[w].copy = op[w].copy /\ op'[w].name = op[w].name
    BY <1>s, <1>0, Stepped
  <1>h. file'.state = "half"
    BY <1>0 DEF Half
  <1>2. Copies # {} /\ (CHOOSE x \in Copies : TRUE) = op[w].copy
    BY <1>0, <1>1, OneName
  <1>3. Copies' = Copies
    BY <1>0 DEF Copies
  <1>4. Contents' = op[w].copy
    BY <1>0, <1>2, <1>3, <1>h DEF Contents
  <1>5. Turned
    BY <1>0, <1>1, <1>4 DEF LoneInv, Fresh, Turned
  <1>6. DiskInv'
    BY TruncateDisk DEF LoneInv
  <1>7. Own' /\ Copied' /\ Copying' /\ Fresh' /\ Present'
    BY <1>s, <1>0, <1>1, <1>h DEF LoneInv, Own, Holds, Copied, Copying, Fresh, Present, Whole
  <1> QED
    BY <1>s, <1>5, <1>6, <1>7 DEF LoneInv

LEMMA CopyBackLone ==
  ASSUME LoneInv, NEW w \in Writers, CopyBack(w) PROVE LoneInv' /\ Kept
  <1>s. Shaped /\ Lone /\ \A v \in Writers : v = w
    BY DEF LoneInv, DiskInv, Lone
  <1>0. Step(w, "copy", "rm") /\ up /\ UNCHANGED <<kind, tmp, up>>
    BY DEF CopyBack, Step
  <1>1. /\ op[w].step = "copy" /\ op'[w].step = "rm"
        /\ op'[w].copy = op[w].copy /\ op'[w].name = op[w].name
    BY <1>s, <1>0, Stepped
  <1>w. Whole(op[w].copy).state = "whole" /\ Whole(op[w].copy).c = op[w].copy
    BY DEF Whole
  <1>n. PICK n \in TmpNames : op[w].name = {n} /\ file' = tmp[n]
    BY CopyBackFile DEF LoneInv
  <1>f. file' = Whole(op[w].copy)
    BY <1>n, <1>1 DEF LoneInv, Copied
  <1>2. Contents = op[w].copy
    <2>1. file.state = "half" /\ kind = "config"
      BY <1>1 DEF LoneInv, Copying
    <2>2. Copies # {} /\ (CHOOSE x \in Copies : TRUE) = op[w].copy
      BY <1>0, <1>1, OneName
    <2> QED
      BY <2>1, <2>2 DEF Contents
  <1>3. Contents' = op[w].copy
    BY <1>f, <1>w DEF Contents
  <1>4. Kept
    BY <1>0, <1>2, <1>3 DEF Kept
  <1>5. DiskInv'
    BY CopyBackDisk DEF LoneInv
  <1>6. Own' /\ Copied' /\ Copying' /\ Fresh' /\ Present'
    BY <1>s, <1>0, <1>1, <1>f, <1>w DEF LoneInv, Own, Holds, Copied, Copying, Fresh, Present
  <1> QED
    BY <1>s, <1>4, <1>5, <1>6 DEF LoneInv

LEMMA RmLone ==
  ASSUME LoneInv, NEW w \in Writers, RmTmp(w) PROVE LoneInv' /\ Kept
  <1>s. Shaped /\ Lone /\ \A v \in Writers : v = w
    BY DEF LoneInv, DiskInv, Lone
  <1>0. Step(w, "rm", "reload") /\ up /\ UNCHANGED <<kind, file, up>>
        /\ tmp' = [n \in TmpNames |-> IF n \in op[w].name THEN Missing ELSE tmp[n]]
    BY DEF RmTmp, Step
  <1>1. op[w].step = "rm" /\ op'[w].step = "reload"
    BY <1>s, <1>0, Stepped
  <1>2. file.state # "half" /\ Kept /\ Present'
    BY <1>0, <1>1, NotCut, SameFile
  <1>3. DiskInv'
    BY RmDisk DEF LoneInv
  <1>4. \A n \in TmpNames : tmp'[n].state = "missing"
    BY <1>s, <1>0, <1>1 DEF LoneInv, Own, Missing
  <1>5. Own' /\ Copied' /\ Copying' /\ Fresh'
    BY <1>s, <1>0, <1>1, <1>4 DEF Own, AllMissing, Copied, Copying, Fresh
  <1> QED
    BY <1>s, <1>2, <1>3, <1>5 DEF LoneInv

LEMMA ReloadLone ==
  ASSUME LoneInv, NEW w \in Writers, Reload(w) PROVE LoneInv' /\ Kept
  <1>s. Shaped /\ Lone /\ \A v \in Writers : v = w
    BY DEF LoneInv, DiskInv, Lone
  <1>0. Finish(w) /\ up /\ UNCHANGED <<kind, file, tmp, up>> /\ op[w].step = "reload"
    BY DEF Reload
  <1>1. op'[w].step = "idle"
    BY <1>s, <1>0, Finished
  <1>2. file.state # "half" /\ Kept /\ Present'
    BY <1>0, NotCut, SameFile
  <1>3. DiskInv'
    BY ReloadDisk DEF LoneInv
  <1>4. Own' /\ Copied' /\ Copying' /\ Fresh'
    BY <1>s, <1>0, <1>1 DEF LoneInv, Own, AllMissing, Holds, Copied, Copying, Fresh
  <1> QED
    BY <1>s, <1>2, <1>3, <1>4 DEF LoneInv

LEMMA CrashLone ==
  ASSUME LoneInv, Crash PROVE LoneInv' /\ Kept
  <1>0. up /\ ~up' /\ UNCHANGED <<kind, file>> /\ \A w \in Writers : op'[w].step = "idle"
    BY DEF Crash, Idle
  <1>1. Kept /\ Present'
    <2>1. CASE file.state # "half"
      BY <1>0, <2>1, SameFile
    <2>2. CASE file.state = "half"
      BY <1>0, <2>2 DEF Crash, Kept, Contents, Copies, LoneInv, Present
    <2> QED
      BY <2>1, <2>2
  <1>2. DiskInv'
    BY CrashDisk DEF LoneInv
  <1>3. Own'
    <2> SUFFICES ASSUME file.state # "half", NEW n \in TmpNames PROVE tmp'[n].state = "missing"
      BY <1>0 DEF Own, AllMissing
    <2> QED
      BY DEF Crash, Missing
  <1>4. Copied' /\ Copying' /\ Fresh'
    BY <1>0 DEF Copied, Copying, Fresh
  <1> QED
    BY <1>1, <1>2, <1>3, <1>4 DEF LoneInv, Lone

LEMMA RestartLone ==
  ASSUME LoneInv, Restart PROVE LoneInv' /\ Kept
  <1>0. ~up /\ up' /\ UNCHANGED <<kind, file, tmp, op>> /\ file.state # "half"
    BY DEF Restart, LoneInv, DiskInv, Cut, InPlace
  <1>1. Kept /\ Present'
    BY <1>0, SameFile
  <1>2. DiskInv'
    BY RestartDisk DEF LoneInv
  <1>3. Own'
    BY <1>0 DEF LoneInv, Own, AllMissing
  <1>4. Copied' /\ Copying' /\ Fresh'
    BY <1>0, <1>1 DEF LoneInv, Copied, Copying, Fresh, Kept, Whole
  <1> QED
    BY <1>1, <1>2, <1>3, <1>4 DEF LoneInv, Lone

LEMMA LoneNext == LoneInv /\ [Next]_vars => LoneInv' /\ (Kept \/ Turned)
  <1> SUFFICES ASSUME LoneInv, [Next]_vars PROVE LoneInv' /\ (Kept \/ Turned)
    OBVIOUS
  <1>1. CASE UNCHANGED vars
    <2>1. Kept
      BY <1>1 DEF vars, Kept, Contents, Copies
    <2>2. DiskInv'
      BY <1>1 DEF vars, LoneInv, DiskInv, Shaped, Named, Filled, Cut
    <2>3. Present' /\ Own' /\ Copied' /\ Copying'
      BY <1>1 DEF vars, LoneInv, Present, Own, AllMissing, Copied, Copying, Whole
    <2>4. Fresh'
      BY <1>1, <2>1 DEF vars, LoneInv, Fresh, Kept
    <2> QED
      BY <2>1, <2>2, <2>3, <2>4 DEF LoneInv, Lone
  <1>2. ASSUME NEW w \in Writers, Load(w) PROVE LoneInv' /\ Kept
    BY <1>2, LoadLone
  <1>3. ASSUME NEW w \in Writers, OpenTmp(w) PROVE LoneInv' /\ Kept
    BY <1>3, OpenLone
  <1>4. ASSUME NEW w \in Writers, FillTmp(w) PROVE LoneInv' /\ Kept
    BY <1>4, FillLone
  <1>5. ASSUME NEW w \in Writers, Rename(w) PROVE LoneInv' /\ Turned
    BY <1>5, RenameLone
  <1>6. ASSUME NEW w \in Writers, Truncate(w) PROVE LoneInv' /\ Turned
    BY <1>6, TruncateLone
  <1>7. ASSUME NEW w \in Writers, CopyBack(w) PROVE LoneInv' /\ Kept
    BY <1>7, CopyBackLone
  <1>8. ASSUME NEW w \in Writers, RmTmp(w) PROVE LoneInv' /\ Kept
    BY <1>8, RmLone
  <1>9. ASSUME NEW w \in Writers, Reload(w) PROVE LoneInv' /\ Kept
    BY <1>9, ReloadLone
  <1>10. CASE Crash
    BY <1>10, CrashLone
  <1>11. CASE Restart
    BY <1>11, RestartLone
  <1> QED
    BY <1>1, <1>2, <1>3, <1>4, <1>5, <1>6, <1>7, <1>8, <1>9, <1>10, <1>11 DEF Next

LEMMA KeptOrTurned == Kept \/ Turned => [Register!Next]_<<kind, Contents>>
  <1> SUFFICES ASSUME Kept \/ Turned PROVE [Register!Next]_<<kind, Contents>>
    OBVIOUS
  <1>1. CASE Kept
    BY <1>1 DEF Kept
  <1>2. CASE Turned
    <2>1. PICK o \in Ops : Contents' \in Applied(kind, Contents, o) /\ kind' = kind
      BY <1>2 DEF Turned
    <2>2. Contents' \in Register!Applied(kind, Contents, o)
      BY <2>1, SameCalls
    <2>3. Register!Call(o) /\ o \in Register!Ops
      BY <2>1, <2>2, SameKinds DEF Register!Call
    <2> QED
      BY <2>3 DEF Register!Next
  <1> QED
    BY <1>1, <1>2

(* The repositories: one writer, whose reads do not fail, sees a register.   *)
(* Its contents are whole at every moment and change in one step, by one      *)
(* call, made once and in full, wherever the process dies.                  *)
THEOREM LoneWriterHasRegister == Lone /\ Spec => LoneWriterIsAtomic
  <1>1. Lone /\ Init => LoneInv /\ Register!Init
    BY InitLone, SameDefault, SameKinds DEF Init, Register!Init
  <1>2. LoneInv /\ [Next]_vars => LoneInv' /\ [Register!Next]_<<kind, Contents>>
    BY LoneNext, KeptOrTurned
  <1>3. LoneInv /\ [Next]_vars => [Register!Next]_(Register!vars)
    BY <1>2 DEF Register!vars
  <1> QED
    BY <1>1, <1>2, <1>3, PTL DEF Spec, LoneWriterIsAtomic, Register!Spec
=============================================================================
