------------------------------- MODULE Store -------------------------------
(***************************************************************************)
(* What the daemon stores, reads back and shows: the chain with its cache,   *)
(* the JSON files, a followed wallet, its settings and the dashboard.  They   *)
(* share no state but the chain, which is the real or the simulated one.       *)
(* `moving' says which of them run; the others hold still, so that a run may    *)
(* take them one by one.                                                      *)
(***************************************************************************)
EXTENDS Integers, Sequences

CONSTANTS
  Moving,                                                  \* sets of parts that may run together
  Positions, Readers, Writers, Ranges,                     \* ChainClient
  Hands, Manager,                                          \* writers on their own, one the management tick
  Simulated, Askers, Traders,                              \* DryRun
  Keys, Home, MaxLog, TmpNames, SharedNames,               \* StateFiles
  Authors, ReadFaults, Editor,                             \* who writes the file; a lone writer
  Pools, Lists, PageSize, MaxPages, MaxMoves,              \* Watcher
  Options, Values, Defaults, Rejected, Latched, Envs, Others, MaxEdits, MaxAsks, MaxBoots, \* Settings
  Viewed, MaxWorth, MaxFaults,                             \* LivePage
  MaxTurns, MaxTools                                       \* Chat

(* The parts that share variables are taken one at a time: a chain is real   *)
(* (Settings, Adapters), with readers or writers only, or simulated, and a   *)
(* file has one writer or more.  Every setting has a default, and the form   *)
(* is not another caller.                                                  *)
ASSUME StoreAssumption ==
  /\ \A parts \in Moving, shared \in {{"client", "hands", "dry"}, {"files", "lone"}} :
       \A a, b \in parts \cap shared : a = b
  /\ DOMAIN Defaults = Options /\ "form" \notin Others
  /\ Lists \subseteq Seq(Pools) /\ PageSize \in Nat /\ MaxTurns \in Nat

VARIABLES
  moving,  \* the parts that run
  chain, asked, answer, waiting, got, value, fresh, inflight, pools, op, made,
  kind, file, tmp, call, live, up,
  list, leaf, seen, found, since, quit, moves,
  config, onDisk, running, settings, adapters, latched, jobs, lock, edit, form,
  edited, wanted,
  edits, asks, boots,
  onChain, gone, tracked, serving, cached, stream, request, shown, status, faults,
  messages, streaming, trace, error, turn, reader, bridge, socket, stopped, failed

clientVars == <<chain, asked, answer, waiting, got, value, fresh, inflight, pools, op, made>>
fileVars   == <<kind, file, tmp, call, live, up>>
watchVars  == <<list, leaf, seen, found, since, quit, moves>>
setVars    == <<config, onDisk, running, settings, adapters, latched, jobs, lock, edit, form, edited,
                wanted, edits, asks, boots>>
pageVars   == <<onChain, gone, tracked, serving, cached, stream, request, shown, status, faults>>
chatVars   == <<messages, streaming, trace, error, turn, reader, bridge, socket, stopped, failed>>
webVars    == <<watchVars, setVars, pageVars, chatVars>>
vars       == <<moving, clientVars, fileVars, webVars>>

Client == INSTANCE ChainClient
Pair   == INSTANCE ChainClient WITH Readers <- {}, Writers <- Hands
Dry    == INSTANCE DryRun WITH Positions <- Simulated, Readers <- Askers, Writers <- Traders
Files  == INSTANCE StateFiles WITH Writers <- Authors, op <- call
Lone   == INSTANCE StateFiles WITH Writers <- {Editor}, ReadFaults <- FALSE, op <- call
Watch  == INSTANCE Watcher WITH page <- leaf, pools <- seen, snapshot <- found, left <- quit
Form   == INSTANCE Settings WITH Keys <- Options, Default <- Defaults, MaxRestarts <- MaxBoots,
            file <- config, up <- running, live <- settings, call <- edit, restarts <- boots
Page   == INSTANCE LivePage WITH Positions <- Viewed, chain <- onChain, up <- serving, snapshot <- cached
Talk   == INSTANCE Chat

(* A part that does not run.                                               *)
NoChain ==
  /\ chain = Client!Nothing /\ asked = <<>> /\ answer = <<>> /\ waiting = <<>> /\ got = <<>> /\ value = {}
  /\ fresh = FALSE /\ inflight = {} /\ pools = {} /\ op = <<>> /\ made = {}
NoFile ==
  /\ kind = "map" /\ file = [state |-> "missing", c |-> {}] /\ tmp = <<>> /\ call = <<>>
  /\ live = {} /\ up = FALSE

NoWatch ==
  /\ list = <<>> /\ leaf = 0 /\ seen = {} /\ found = {} /\ since = {} /\ quit = FALSE /\ moves = 0
NoForm ==
  /\ config = {} /\ onDisk = FALSE /\ running = FALSE /\ settings = <<>> /\ latched = <<>>
  /\ adapters = {}
  /\ jobs = {} /\ lock = {} /\ edit = <<>> /\ form = Form!NoForm /\ edited = {} /\ wanted = <<>>
  /\ edits = 0 /\ asks = 0 /\ boots = 0
NoPage ==
  /\ onChain = <<>> /\ gone = {} /\ tracked = <<>> /\ serving = FALSE /\ cached = <<>>
  /\ stream = "closed" /\ request = {} /\ shown = {} /\ status = "online" /\ faults = 0
NoChat ==
  /\ messages = <<>> /\ streaming = FALSE /\ trace = <<>> /\ error = FALSE /\ turn = 0
  /\ reader = <<>> /\ bridge = <<>> /\ socket = <<>> /\ stopped = {} /\ failed = {}

Init ==
  /\ moving \in Moving
  /\ IF "client" \in moving THEN Client!Init
     ELSE IF "hands" \in moving THEN Pair!Init
     ELSE IF "dry" \in moving THEN Dry!Init /\ pools = {} /\ made = {}
     ELSE NoChain
  /\ IF "files" \in moving THEN Files!Init
     ELSE IF "lone" \in moving THEN Lone!Init
     ELSE NoFile
  /\ IF "watch" \in moving THEN Watch!Init ELSE NoWatch
  /\ IF "settings" \in moving THEN Form!Init ELSE NoForm
  /\ IF "page" \in moving THEN Page!Init ELSE NoPage
  /\ IF "chat" \in moving THEN Talk!Init ELSE NoChat

OnlyChain    == UNCHANGED <<moving, fileVars, webVars>>
OnlyFiles    == UNCHANGED <<moving, clientVars, webVars>>
OnlyWatch    == UNCHANGED <<moving, clientVars, fileVars, setVars, pageVars, chatVars>>
OnlySettings == UNCHANGED <<moving, clientVars, fileVars, watchVars, pageVars, chatVars>>
OnlyPage     == UNCHANGED <<moving, clientVars, fileVars, watchVars, setVars, chatVars>>
OnlyChat     == UNCHANGED <<moving, clientVars, fileVars, watchVars, setVars, pageVars>>

Next ==
  \/ "client" \in moving /\ Client!Next /\ OnlyChain
  \/ "hands" \in moving /\ Pair!Next /\ OnlyChain
  \/ "dry" \in moving /\ Dry!Next /\ UNCHANGED <<pools, made>> /\ OnlyChain
  \/ "files" \in moving /\ Files!Next /\ OnlyFiles
  \/ "lone" \in moving /\ Lone!Next /\ OnlyFiles
  \/ "watch" \in moving /\ Watch!Next /\ OnlyWatch
  \/ "settings" \in moving /\ Form!Next /\ OnlySettings
  \/ "page" \in moving /\ Page!Next /\ OnlyPage
  \/ "chat" \in moving /\ Talk!Next /\ OnlyChat

Spec == Init /\ [][Next]_vars

(* The management tick closes what it still finds, and what it sends over    *)
(* and over is answered and lands in the end.                               *)
Chained(A) == "hands" \in moving /\ A /\ OnlyChain
Proceeds  == Chained(Pair!Proceeds(Manager))
ReadChain == Chained(Pair!ReadChain(Manager))
LoadEnds  == Chained(Pair!LoadEnds(Manager))
Close     == Chained(\E p \in Positions : Pair!Close(Manager, p))
Lands     == Chained(Pair!Lands(Manager))

(* The timers of the dashboard's page, the daemon's and the process manager. *)
Shows(A) == "page" \in moving /\ A /\ OnlyPage
Fairness ==
  /\ WF_vars(Proceeds)
  /\ SF_vars(ReadChain) /\ SF_vars(LoadEnds) /\ SF_vars(Close) /\ SF_vars(Lands)
  /\ WF_vars(Shows(Page!Start)) /\ WF_vars(Shows(Page!Refresh))
  /\ WF_vars(Shows(Page!Finalise)) /\ WF_vars(Shows(Page!Push))
  /\ WF_vars(Shows(Page!Timer)) /\ WF_vars(Shows(Page!Answering))
  /\ WF_vars(Shows(Page!Health))
FairSpec == Spec /\ Fairness

---------------------------------------------------------------------------
(* The properties of the parts, each stated and explained in its module.    *)

(* Every answer of the chain in use is the chain as it was at some moment    *)
(* (ChainReads).                                                            *)
ReadsAreTrue ==
  /\ "client" \in moving => Client!Reads!Init
  /\ "hands" \in moving => Pair!Reads!Init
  /\ "dry" \in moving => Dry!Reads!Init
  /\ [][/\ "client" \in moving => Client!Reads!Next
        /\ "hands" \in moving => Pair!Reads!Next
        /\ "dry" \in moving => Dry!Reads!Next]_<<chain, asked, answer>>
(* A write that reports success has happened in full (ChainClient).         *)
SuccessLanded ==
  /\ "client" \in moving => Client!SuccessLanded
  /\ "hands" \in moving => Pair!SuccessLanded
(* What was deployed is closed in the end (ChainClient).                    *)
CloseFinishes == "hands" \in moving => Pair!CloseFinishes
(* The file is whole, or its whole copy is beside it (StateFiles).          *)
WholeOnDisk == "files" \in moving => Files!WholeOnDisk
(* A file with one writer changes in one step, by one call (StateRegister). *)
LoneWriterIsAtomic ==
  /\ "lone" \in moving => Lone!Register!Init
  /\ []["lone" \in moving => Lone!Register!Next]_<<kind, Lone!Contents>>
(* No mirror is closed for a pool the wallet never left (Watcher).          *)
NoFalseExit == "watch" \in moving => Watch!NoFalseExit
(* A setting holds what was last asked for it (Settings).                   *)
NoChangeUndone == "settings" \in moving => Form!NoChangeUndone
(* The page shows the positions in the end, in full or as pushed (LivePage). *)
PageCatchesUp ==
  <>[]("page" \in moving => Page!Settled) \/ <>[]("page" \in moving => Page!Partial)
(* An answer stands under its question (Chat).                              *)
EachAnswered == "chat" \in moving => Talk!EachAnswered
=============================================================================
