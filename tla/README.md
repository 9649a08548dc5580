# Meridian: a TLA+ verification project

Meridian is an agent that provides liquidity on Meteora DLMM pools on Solana: a
TypeScript daemon with a pure domain core (`src/src/domain`), application cycles
(`src/src/app`), adapters (`src/src/adapters`) and a web dashboard.  This
directory models its concurrent core in TLA+, checks it with TLC on small
instances and proves part of it with TLAPS for every instance.

Start with *The system*: every part, what is hard about it, and the module it is
in.  Then read a module next to the code it names; each begins with the files it
models.  `MC*` modules are what TLC runs, `*Proofs` hold the theorems.

## The system

One Node process runs everything, beside a Next.js web server for the dashboard
and two scripts an operator may start.  The daemon has no threads: its hazards come
from an `await`, between whose start and end any other job may run, and from a
process that may be killed at any of them.  The jobs share three things: the chain
(our positions), the JSON state files, and the live configuration object.

| Part | State | What is hard | What makes it correct | Modules |
|---|---|---|---|---|
| Follow cycle `app/follow/cycle.ts` | the locals of a tick, `follow-state.json` | truncated lists, RPC lag, restarts, commands in mid-tick, half-landed writes | closes only on evidence, no back-fill, no double exposure, caps, nobody stranded | `FollowRules`, `FollowCycle`, `MirrorSizing` |
| Followed-wallet watcher | none | a list that shifts between two pages | no false exit from a list that counts as complete | `Watcher` |
| Management cycle `app/management/cycle.ts`, finalisation | `state.json`, History rows | records written back after long waits, lagging reads | a closed record stays closed, one row per close | `PositionBook`, `Management` |
| PnL poller | pending confirmations | races the other closers | a drop is one seen twice | `Management`, `PositionLife` |
| Exit rules `domain/rules` | none | boundaries, missing and suspect values | nothing is sold in the warm-up, every sale is on its terms | `ExitRules`, `PositionReading`, `PositionLife` |
| Consolidation, dust sweep, swaps | wallet balances | late balances, dropped swaps, restarts | a withdrawn token is sold | `Wallet` |
| Tool pipeline, hooks, gates `app/tools` | none | a write that landed and whose hooks did not run | every landed deploy is logged, every close recorded | `Screening`, `Agent`, `Management` |
| Screening cycle `app/screening/cycle.ts` | none | check-then-act on the position count, a decider that answers late | caps, one deploy per cycle, an honest log | `Screening` |
| Candidate gates | none | lookups that fail, lists cut by index | what is offered was vetted | `Discovery`, `ScreenRules`, `ScreenFunnel` |
| Agent loop, LLM adapters `app/agent` | conversation, session locks | any answer of any model | valid requests, one firing of a write | `Agent` |
| Learning `app/learning`, `domain/rules/lesson-match.ts` | `lessons.json` | jobs and scripts that overwrite each other | scores equal reviews, lessons stay narrow | `Learning`, `Reviewer` |
| Telegram | update offset, pause | crash or failure between poll, handler and acknowledgement | no command is lost | `Telegram` |
| Chain client, cache `adapters/chain`, `shared/cache.ts` | snapshot, age, load in flight | several transactions a write, ambiguous ends, overlapping loads | success means landed, a forced read is true | `ChainReads`, `ChainClient`, `DryRun` |
| State files `adapters/persistence/json` | the files | crashes, two writers | whole contents on disk | `Repos`, `StateRegister`, `StateFiles` |
| Scheduler, daemon, configuration | running flags, live settings | edits of old forms, values that are refused | no edit undoes another | `Settings`, `Telegram` |
| Dashboard bridge and pages | idempotency keys, in-flight tools, page cache | pushes, polls and lookups in any order, streams that break | the page catches up, each question is answered | `Screening`, `LivePage`, `Chat`, `Settings` |
| HiveMind, briefing, deployment | a snapshot nobody reads; none | - | - | not modelled |

Jobs interact in four ways.  The follow cycle, the management cycle, the poller,
the screening agent, Telegram and the dashboard all open or close positions
through the same tools, or past them through the chain client (Telegram's `/deploy`
and `/close`).  The follow cycle and the commands write one state file, the learning jobs and the closers another.  The management cycle and the poller
read the follow file to learn which positions are not theirs to close.  All jobs
read `getMyPositions`, from the chain or from a five-minute cache.

How the modules build on one another:

* `FollowCycle` extends `FollowRules`; so do `Watcher` and `MirrorSizing`.
* `Management` extends `PositionBook`.
* `ScreenFunnel` extends `ScreenRules`, which extends `Discovery`; `PositionLife`
  extends `ExitRules`.  `Rules` composes the two like `Services` its parts.
* `ChainClient` and `DryRun` instantiate `ChainReads`, their abstract
  specification, with a refinement mapping; `StateFiles` instantiates
  `StateRegister`, both over `Repos`.
* `Services` composes `Learning`, `Reviewer`, `Telegram`, `Wallet` and `Agent`, which
  share no state: `moving` is the set of parts that run, the others hold still.
  Its theorems are for any such sets; its run takes the parts one by one.
* `Store` composes `ChainClient` or `DryRun`, `StateFiles`, `Watcher`, `Settings`,
  `LivePage` and `Chat` in the same way.

## What is modelled

### `FollowRules`

The pure rules of `domain/rules/follow-diff.ts`: `DiffFollowedWallet` (what one
poll calls for), `MirrorSlots` (both caps), `Orphaned` (mirrors nobody follows)
and `DetectRecenter`.  A nullable value is a set of at most one element.

### `FollowCycle`

`runFollowCycle` and everything that runs between its awaits.  A tick walks a
program counter, and every action ends where the code awaits something another
actor can change:

| Actions | Code |
|---|---|
| `StartTick` | the busy flag, the file and the configuration are read |
| `ReadChain`, `ChainReadFails` | `getMyPositions({force})` and the reconcile sweep with its grace window |
| `FindOrphans`, `Drain`, `DrainDone` | `drainOrphans`, before the switch is honoured |
| `PollWallet`, `AllPolled` | `watcher.getOpenPools`, wallet by wallet |
| `DiffWallet` | `getSeen`, `listOpenMirrored` and the diff |
| `CheckRecenter`, `KeepMirror`, `MirrorExit`, `MirrorsDone` | the re-center checks, then the exits |
| `CloseLands`, `CloseFails`, `RecordClose` | `mirrorClose`: the write, its failure, `updateMirrored` |
| `SkipOpen`, `PlanOpen` | `mirrorCapacity` and `mirrorOpen` up to the deploy |
| `PassGate`, `RefuseGate`, `GateThrows`, `DeployLands`, `DeployFails`, `RecordOpen` | the safety chain, which refuses or throws out of the tick, the write, `addMirrored` |
| `OpensDone`, `SaveBaseline` | `setSeen`, less the pools held back |
| `Abort` | a throw, or the process killed and started again |

Around it: the followed wallets enter and leave pools (`SourceEnter`,
`SourceExit`), positions become visible and leave their grace window (`Settle`),
positions are closed from outside (`OutsideClose`), the screening agent deploys
(`ScreenerGate`, `ScreenerDeploy`), and the operator adds, removes, enables and
disables wallets and turns the master switch.

State is kept as the code keeps it: `file` is `follow-state.json` (wallets in
their three states, baselines, the seeded list, mirror records), `follow` the
live switch, and the tick's locals are variables of their own.  `held` and
`live` are the world: the source position a wallet has in each pool, and our
positions.  Source positions and ours are numbered as they open, so an address
is never reused.  `backlog` and `failed` are history, read only by properties.

`Faults` says what the surroundings may do: a truncated pool list
(`degraded_poll`, and `degraded_seed` on the first poll), a deploy the RPC does
not serve yet (`read_lag`), a write that lands and reports failure
(`partial_write`), a failed read of the state file (`file_read`) or of the chain in
the position gate, which nobody catches before the tick's end (`gate_read`), commands
in mid-tick (`edit_mid_tick`), closes by others (`outside_close`) and the screening
agent (`screener`).  `Edits` says which commands are issued.

Abstracted away: fees, technicals, notices and the wording of everything; the
amount and the bins of a mirror are `MirrorSizing`.  A mutation of the state file
is one step; the window between its read and its write is in `StateFiles`.

### `MirrorSizing`

`planMirrorSize`, `planMirrorRange` and `pickSourcePosition`: a share of what is
free above the gas reserve, capped, cut to four decimals and refused below the
minimum; the depth of their range, clamped; and their widest position, whose range
is copied.  `MCFollowCycle` evaluates them on grids against their definitions by
maximum (`SizesAreTheLargestAllowed`, `SizesExist`, `RangesAreTheirs`,
`WidestIsCopied`); two bounds are theorems of `FollowCycleProofs`.

### `PositionBook`

The two files that remember our positions.  A record of `state.json` is reduced
to whether it is open, whether the reverse reconcile has stamped
`RECONCILED_CLOSE_NOTE` on it (`ghost`) and whether a bounce watch is armed on
it.  The History rows of `lessons.json` are one sequence: whose row, written by
the close hook or by the reconcile, and whether Meteora's settled numbers have
replaced the estimate.

### `Management`

The three jobs that write the book, and whoever else closes positions:

| Actions | Code |
|---|---|
| `Deploy`, `Track`, `DashboardReconcile` | a deploy, its tracking hook, and the dashboard's position list, each of which may create the record |
| `StartClose`, `CloseLands`, `CloseFails`, `MarkRead`, `MarkWrite`, `RecordPerformance` | `close_position`: the write, then `markClosedInRepoHook` and `recordPerformanceHook`, one call per caller |
| `ReadChain` .. `CloseGhost` | `runManagementCycle`: the chain read and the reverse reconcile |
| `LoadRows` .. `AppendFails` | `recordReconciledCloses` |
| `LoadUnsettled`, `SettleFound`, `SettleNotYet` | `finalizeClosedPerformance` |
| `NothingOpen`, `StartForward`, `TrackUntracked`, `ReadRange`, `WriteRange` | early return, forward reconcile, range bookkeeping |
| `MakePlans`, `Exempt`, `ArmSkip`, `ArmRead`, `ArmWrite` | `planForPosition`, the follow exemption, the bounce loop |
| `StartEscalations` .. `AdvisorAnswers` | `resolveEscalation`, with the wait for the advisor |
| `StartActions`, `SendClose`, `ActionsDone` | the plans carried out one by one |
| `PollReadChain` .. `PollDone` | `createPnlPoller`: chain read, exemption, `tickPnlPoller`, `armWatch`, close |
| `Crash` | the process is killed: chain and files stay |

A single `upsert` or append is one step.  A record read first and written back
later is two, with the copy kept in between (`copies`, `copy`, `pcopy`,
`jobs[a].copy`): that is where the stale writes of this code come from.  What
the rules decide from prices, ages and bins is left open: `Decisions` and
`PollDecisions` are all they can return for a record.  The poller runs only with
`smartExitEnabled`: without it nothing but the trailing take-profit is left to
it, and that never fires (see *Findings*).

`Hands` are the other callers of `close_position` (Telegram, the dashboard, the
follow cycle).  `Faults`: a chain read older than a deploy (`read_lag`), a close
that lands and reports failure (`partial_write`), an unreadable follow file
(`file_read`), a row that cannot be appended (`append_fails`), and positions
closed or opened in another client (`outside_close`, `outside_open`).  Without
`read_lag` no deploy lands between a management tick's chain read and its read of
the records, a window of a few milliseconds around one file read.

### `Discovery`, `ScreenRules`, `ScreenFunnel`

What a candidate meets on its way to the decider.  `Discovery` resolves the fields
of a raw row, which two generations of the API place differently.  `ScreenRules` has
the hard filter and its order, the score, the technicals of a series of candles
(trend, support, drawdown, local top, volume spike), the gates on them, and the
range of a deploy.  `ScreenFunnel` runs a page of candidates through the stages of
the cycle, with every lookup in parallel and free to fail, and cuts the lists by
index as the code does.  EMA and ATR are not computed: a history carries the lean
they would show.  The conditions the discovery server applies itself
(`buildFilters`) are not modelled.

### `ExitRules`, `PositionReading`, `PositionLife`

`ExitRules` has the static close rules, the smart exit with its regimes, the bounce
watch, and the deciders built from them (`planForPosition`, `tickPnlPoller`).
`PositionReading` is how a position is read: the accounts of the chain merged with
the row of Meteora's datapi, every field of which may be missing.  `PositionLife`
is one position under both tickers over time, with prices, ages, charts, a restart
that forgets pending confirmations, and switches turned meanwhile: the values
`Management` leaves open.

### `Screening`

Who opens positions, and how the attempts meet.  One cycle with the local agent
loop or the outside decider ("Sage"); the bridge that Sage and the user write
through (idempotency key, one write of a tool at a time); the follow cycle; the
agent loops of a Telegram message, of the health check and of each chat, which carry
out a deploy their model names whatever tools they showed it, and hold no lock of
the bridge; and closes.  These end in `executeTool`, whose gates, write and hooks are
steps.  Telegram's `/deploy` does not: it calls the chain client, with no gate, lock,
hook or log entry.

| Actions | Code |
|---|---|
| `Preflight`, `NoCandidates`, `Candidates`, `NoneLeft`, `Shortlist` | `runScreeningCycle` up to its decider |
| `ModelCalls`, `RecordAttempt`, `LoopEnds` | `runAgentLoop` and the session locks |
| `SageAsks`, `Decided`, `SageAnswered`, `SageTimesOut` | the decider over HTTP and what the cycle makes of its answer |
| `Ask`, `Answer` | `POST /tool` |
| `OtherDeploys`, `OtherDone` | a deploy of the follow cycle or of another agent loop |
| `DeployByHand` | `/deploy` of `routeTelegramMessage` |
| `StartCall`, `GatesRefuse`, `PassGates`, `CheckCap`, `Land`, `NotSent`, `TrackAndNotify`, `LogDeploy` | `executeTool` for a deploy |

A forced chain read shows every deploy that landed, an append to the log does not
fail, and one run has one cycle; the ten-minute life of a key and its loss on a
restart are left out.  The cycle's own loop is taken to name only the tools it was
offered, of which one deploys.  A gate whose read throws ends the call without a
deploy, and the loop that made it; the step is the one of a refusal.
`Companies` says which routes run beside cycle and bridge.

### `Agent`

One run of `runAgentLoop` with any model: answers without choices, calls that come
in fragments, unknown tools, arguments that do not parse, blocked and failed calls,
reminders, and the locks.  Its callers differ in whether the first step must call a
tool, which tools they show and how many rounds they allow.  The fallback wrappers
around the provider are wired by no entry point and left out.

### `Learning`, `Reviewer`

`Learning` has every job that rewrites `lessons.json` whole (load, change, save as
separate steps): the close review, the mirror lesson, the bounce shadow, appends and
settling of rows, edits, and the two scripts, which are processes of their own.
`Reviewer` is the conversation that writes a lesson: the proposed condition is
tested against past trades and sent back while it catches too many of the other
outcome; and where a lesson is shown, our own before the community's, which our
trades may overrule.

### `Telegram`

Telegram's queue, the long poll with an offset in memory, the router with one
command at a time, pause and resume of the scheduler, and a daemon that stops,
crashes and comes back with offset 0.

### `Wallet`

What a close leaves in the wallet and who sells it: the balance the node shows late,
the consolidation with its retries, the sweep with its floor and exclusions, and
swaps that are refused, dropped after being sent, or sell less than there is.  That
the sweeper's list of open positions may be stale is left out.

### `ChainReads`, `ChainClient`, `DryRun`

`ChainClient` is the positions cache with loads that overlap, fail and store in any
order, and the writes, one or more transactions each, with expiry, recovery and a
failure between two of them.  `ChainReads` is what a reader is promised: every
answer is the chain as it was at some moment, a forced one not before it was asked.
Both the client and the simulated chain are shown to implement it.  A transaction
that lands after its error was reported is taken as landed at the error, and an
address is used again after a deploy that failed.

### `Repos`, `StateRegister`, `StateFiles`

`Repos` is what each repository makes of the contents of its file, with its limits.
`StateFiles` carries a call out as the code does (read, copy, temporary file, sync,
rename or overwrite in place, assignment to the live configuration), with two
calls under way, failing reads, and a process that dies at any step.
`StateRegister` is the promise to a lone writer, which `StateFiles` implements; two
writers lose updates, which is a listed hazard.

### `Watcher`

The pages of a followed wallet's list, read while it enters and leaves pools, with
missing and renamed continuation fields, and what is trusted of them.

### `Settings`, `LivePage`, `Chat`

`Settings` is the configuration: the file at boot, the adapters chosen from it and
from the environment, the form with the values it was opened with, and other callers
of `update_config`.  `LivePage` is the page's cache under polls, pushed ticks, the
bridge's lookups, a stream that drops and a daemon that restarts.  A push puts the
poll off (`Timer` waits until nothing is pushed; `Press` is a button that asks at
once), and an answer that says the chain cannot be read replaces the page's data
(`Unreadable`), where a lost one leaves it (`Dropped`).  The nudge of the decision
log, the summary and the log view are left out.  `Chat` is one
conversation: questions, streamed tools, one answer, and every way a stream ends.

## Properties

### Properties of `FollowCycle`

* `CloseIsJustified`: a close is sent only when the copied position is gone, or,
  in the drain, when the wallet was not followed as the tick began.
* `ClosedMeansGone`: a closed record's position is off the chain.
* `OpenMirrorKept`: the record of an open mirror is never dropped.
* `NoBackfill`: what a wallet held when it was (re)followed is never mirrored.
* `NoDoubleExposure`: a mirror never goes into a pool we are in.
* `FailedWriteNotRetried`: a source position whose deploy failed is not deployed again
  by that tick, nor by any later one once the round it failed in has saved its
  baseline; a round cut short by a throw or a restart, or one over a truncated list,
  saves none (*Findings*).
* `MirrorCap`, `PortfolioCap`: `follow.maxMirrored` and `risk.maxPositions`.
* `StrandedMirrorResolved`: a mirror with nothing left to follow does not stay so.
* `TypeOK`: the type of every variable (proved, in no run).

### Properties of `Management`

* `RowPerWriter`: neither the close hook nor the reconcile writes two rows for one
  position.
* `RowOnce`: a position has one History row.
* `ClosedIsGone`: a closed record or a row is of a position off the chain.
* `GhostsEndClosed`: the record of a position that is gone ends up closed for good.
* `ClosesRecorded`: a tracked position that is gone ends up with a row.
* `RowsSettle`: a row ends up with settled numbers.
* `TypeOK`: the type of every variable (proved, in no run).

### Properties of the other modules

* `OfferedIsVetted` (`ScreenFunnel`): what reaches the decider has the trend and the
  floor that are asked for, said of the candles that were fetched, whatever lookup
  failed; and has not fallen too far, where the age gate asks for no more candles
  than the window has (*Findings*).
* `WarmupHolds`, `SoldOnTerms`, `WatchEnds` (`PositionLife`): no sale on a pnl the
  datapi may not have indexed; each sale is true to what was seen over time; a
  bounce watch never hangs.
* `OnePerCycle`, `CapOvershoot`, `DeclineIsTrue`, `LandedIsLogged`, `CycleEnds`
  (`Screening`): one deploy per cycle, and when a second is possible; how far the
  routes that deploy through the tools can pass the cap side by side (what `/deploy`
  opens is counted by their gates and comes on top); a cycle that says it declined
  opened nothing it knew of; a deploy through `executeTool` that reported success is
  in the log (`/deploy` never is); a cycle ends.
* `RequestIsValid`, `FiresOnce` (`Agent`): what is sent is a conversation a provider
  accepts; a write that must not be retried is started at most once.
* `TrackRecord`, `ReviewEnds` (`Learning`): the score of a lesson is the reviews that
  scored it, however saves overwrite each other; a close that is due gets its review
  or grows too old, unless earlier rows of reviewed positions hold every place of the
  tick (*Findings*).
* `AdviceIsNarrow` (`Reviewer`): a lesson is shown only where its condition holds,
  and was kept only against the trades it would have spoiled; a community lesson
  only where ours are silent and do not contradict it.
* `AckedIsHandled` (`Telegram`): a command Telegram will not deliver again has been
  handled to its end.
* `WithdrawnIsSold` (`Wallet`): a withdrawn token above the floor does not stay.
* `ReadsAreTrue`, `SuccessLanded`, `CloseFinishes` (`ChainClient`, `DryRun`): the
  refinement of `ChainReads`; a write that reports success happened in full; what was
  deployed is in the end gone.
* `WholeOnDisk`, `LoneWriterIsAtomic` (`StateFiles`): whole contents on disk wherever
  the process dies; the refinement of `StateRegister`.
* `NoFalseExit` (`Watcher`): no mirror is closed for a pool the wallet never left.
* `NoChangeUndone` (`Settings`): every key holds what was last asked for it.
* `PageCatchesUp` (`LivePage`): at rest the page shows what there is; or it is pushed
  on and on and shows at least each position with its worth, and does not lose again
  what it once showed in full.
* `EachAnswered` (`Chat`): an answer stands under its own question and none is left
  open.

## The runs

| Run | Bounds | Question |
|---|---|---|
| `FollowHostile` | 1 wallet, 1 pool, 2 entries, 2 deploys, 1 command, 1 abort | all faults at once: closes are justified and closed records are gone |
| `FollowEntries` | 1 wallet, 2 pools, 2 entries, 2 deploys, 2 commands, 1 abort, record cap 1 | entries: no back-fill, no doubling, no lost record |
| `FollowCaps` | 2 wallets, 2 pools, 3 entries, 3 deploys, half-landed writes, a gate that throws, 1 abort | both caps, shared by two wallets; when a failed deploy is tried again |
| `FollowLive` | 1 wallet, 1 pool, 2 entries, 2 deploys, 1 command, with the screener | stranded mirrors are resolved |
| `BookHostile` | 1 position, all three closers, all faults, 1 switch, 1 restart | no writer gives a position two rows |
| `BookQuiet` | 2 positions, the management cycle alone, 1 restart | one row per position, nothing live is closed, rows settle |
| `BookLive` | 1 position, all three closers, lagging reads, half-landed and outside closes | records of what is gone end closed, with a row |
| `Rules` | pages of 2 candidates, 2 picked; 1 position, 2 minutes of age, prices and charts from small sets | candidates are vetted, sales are on their terms |
| `Screen` | 1 cycle, 1 pool, 2 bridge requests, beside them the follow cycle, or the Telegram loop and `/deploy`; cap 1, 3 deploys, 2 model steps | what can be opened twice, past the cap, or unrecorded |
| `Services` | see below | learning, advice, commands, wallet and agent loop |
| `Store` | see below | what is written, read back and shown: chain, files, watcher, settings, page and chat |
| `Capitulation` | 1 candidate, a wide drawdown gate | the capitulation gate (a violation, see *Findings*) |

`Services`: learning has 2 positions, up to 4 rows, 2 reviews per tick (3 in the
code), 2 attempts, 1 restart, and starts from a file (`MCStarts`): an empty one or one
with a row to be raced for by a pair of jobs (append with settle, back-fill, mirror
lesson or bounce shadow; settle and an edit; imports and an edit), or one with two
or three rows of one position after the row of another, which then compete for the
places of a tick, the dead rows of a reviewed position among them; the reviewer 6
trades, 5 community lessons, two trades to judge by (8 in the code); the bot 2
updates among 9 messages, 2 positions, 1 restart; the wallet 2 mints, 2 retries, 2
closes, 1 restart; the loop 7 kinds of answer, 4 callers, 3 attempts.

`Store`: the client 1 position, with a reader beside the management tick (`Client`) or
a close by hand beside it (`Pair`), 2 faults; the simulated chain 2 positions, 2
readers, 1 writer; every repository's file with two writers and failing reads
(`Files`), and with one whose reads succeed, who is promised more (`Lone`); the watcher
5 pools in pages of 2, one move of the wallet per read; settings 2 keys with 4
values, one of them refused, 3 environments, 2 edits and one of somebody else; the
page 2 positions, one of them held from the start, one change of worth and 1 fault, so
that a closed one can stand beside an open one; the chat 2 questions.  One part moves in each behaviour (`MCMoving`); the theorems are for any
that move together.

Two entries are enough for a wallet to leave a pool and come back, two pools for
a capacity to be split and a record to be pruned, three deploys to pass a cap of
two, one abort to cut any tick at any await.  Wallets and pools are
interchangeable in the safety runs, which use that symmetry; the liveness run
does not.  Every lost update needs two jobs and one record, a page that shows too much
a closed position beside an open one, a queue more rows than places.  Deadlock is not checked: the surroundings are bounded, so a system with
nothing left to do stops.

Where a property does not survive a fault in the code as written, its run leaves
that fault out:

* `NoBackfill` needs complete first polls (a truncated seed is accepted by a
  comment in `follow-diff.ts`), a switch that is not turned off and on, no
  command in mid-tick and no re-add of a disabled wallet (*Findings*);
* `NoDoubleExposure` needs one wallet and no RPC lag: two wallets in one pool can
  pass the guard twice while a deploy is invisible;
* `OpenMirrorKept` needs a readable file: a failed read is written back as empty;
* `PortfolioCap` needs the screener out: check and deploy are separate steps.
  `CapOvershoot` says how far that leads;
* `RowOnce` needs the management cycle to be the only closer (*Findings*) and no
  lagging read, which gives a live position a row to be doubled when it is closed;
* `ClosedIsGone` needs no lagging read (*Findings*);
* `ClosesRecorded` needs no restart and no failing append: the close hook marks
  the record closed first, without the note that would bring the reconcile to it,
  and a hook cut off there or an append that throws loses the row;
* `NoFalseExit` needs a wallet that leaves no pool during the read (*Findings*);
* `WholeOnDisk` needs two writes not to share a temporary name: it is the process
  and the millisecond.

Six properties carry the exception in their own statement, and without it the code
violates them (*Findings*): `FailedWriteNotRetried` speaks of a failure in the tick
under way or of one whose round saved its baseline; `OfferedIsVetted` of the drawdown
where the least window fits the window, as in the run (3 candles each); `ReviewEnds`
of a close that some place of the tick is left for; `PageCatchesUp` of a page that is
pushed on and on as the pushes leave it; `CapOvershoot` and `LandedIsLogged` of
deploys through `executeTool`.

In `Management` every race is about one record or one position's rows, so one
position with every actor shows them; two are needed where a tick works through
several (`BookQuiet`).  A position is deployed once and its address never comes
back, so no counter is needed beyond `MaxFlips` and `MaxCrashes`.

### Fairness

`FairSpec` assumes that the tick's steps go on (`WF`: the scheduler fires every
minute and a tick runs to its end), and that the services it calls fail but not
for ever (`SF` on the chain read, on a complete poll of each wallet, on the
re-center check and on a close).  Nothing is assumed of the followed wallets, the
operator, the screening agent or the grace window.

`FairSpec` of `Management` assumes that the management tick's steps go on (the
scheduler fires it every interval and a tick runs to its end), that a call of
`close_position` and a tracking hook run to their end (`WF` each), and that
Meteora indexes a close in the end (`SF` on `SettleFound`).  The last also takes
it that fewer than `FINALIZE_MAX_PER_TICK` newer rows stay unresolvable and that
the close is indexed within the two weeks of the look-back.  Nothing is assumed of the
poller, the other closers or the chain.

The other modules:

* `PositionLife`: time passes and each tick comes (`WF`).
* `Screening`: the cycle's own steps and the tool calls go on (`WF`); the decider
  need not answer, since the cycle has a timeout for it.
* `Learning`: the review tick comes (`WF`); a review may fail each time.
* `Wallet`: the node catches up and the jobs go on (`WF`); reads of a mint do not
  miss it for ever, and a swap that is tried again and again lands once (`SF`).
* `ChainClient`: what the management tick sends over and over is answered and lands
  in the end (`SF` on its read, its load, its close and the landing), and its own
  steps go on (`WF`).  Nothing is assumed of the other callers.
* `LivePage`: the bridge's push while there is one, the page's own timer while there is
  none, answers once nothing is lost any more, the expiry of the cache, the management
  tick, and the process manager that starts the daemon again (`WF`).  Nobody is
  obliged to press a button, and the timer owes nothing while pushes put it off.

## Findings

Of the record in `PROJECT.json`; the lines and the quotations are there.

One has a run: **Capitulation**.  The gate wants a positive distance to a support
under the price, which is never positive, so it never fires; a drawdown gate at its
default covers most of it, a wider one does not.

The others are seen by adding to a run what it leaves out, or read off the code.
In the core:

* a wallet removed in mid-tick gets its baseline back and is not re-seeded when it is
  added again; nor is a disabled wallet that is added (`NoBackfill` fails with
  commands in mid-tick, or with the re-add);
* a deploy that failed under a truncated list, or before a gate that throws, is tried
  again: neither round saves a baseline (the reason why `FailedWriteNotRetried` speaks
  of saved ones);
* Telegram's `/deploy` passes every gate by and is neither tracked nor logged;
* an age gate of more hours than the window has candles, as in a configuration of the
  repository, switches the drawdown and spike gates off;
* the earlier of two rows of a reviewed position is picked for review at every tick
  and never reviewed; three of them starve older closes;
* a close whose hooks wait while a management tick reconciles gets two rows
  (`RowOnce` fails with Telegram as a closer), and `updatePerformance` settles the
  later only;
* the management cycle carries out plans made before the poller armed a watch;
* one lagging read closes the record of a live position for good (`ClosedIsGone`
  fails with `read_lag`), and nothing reopens it;
* the trailing take-profit never fires: the peak it wants is never raised;
* `fee_per_tvl_24h` is never filled, so the low-yield rule, the healthy hold and the
  red-streak exit never fire;
* a pool can slip over a page boundary of the followed wallet's list, which then
  counts as complete (`NoFalseExit` fails with a wallet that leaves meanwhile).

Around it, where a comment or a help text and the code differ: what pausing stops;
the sweep without exclusions; gates that throw; a page that is not polled while it is
pushed; tools a filter hides but does not refuse, in the chat, the health check and
Telegram's loop; `success: false` that locks a tool and spends a key; scripts and jobs
that rewrite `lessons.json` side by side; a load that stores what an invalidation
dropped; shared temporary names; intervals that wait for a restart and limits that
cannot be cleared; a setting nobody reads; twenty holders for a hundred; an outage
shown as 0 %; a snapshot nobody uses; a mirror just below its minimum; a swap that
"landed" when it was sent.

## What is proved

`FollowCycleProofs`, for all constants that satisfy the assumptions of
`FollowCycle` (finite sets of wallets and pools, natural caps and bounds, any
set of faults and commands):

* `TypeCorrect`: `TypeOK` is an invariant; it is inductive as it stands.
* `ClosesAreJustified`: `CloseIsJustified`.  The invariant is `CloseInv`: besides
  the types it bounds every recorded source position by the number of entries, so
  that a position once gone cannot come back (`SourceBound`); it ties the phase
  to the program counter (`Control`); and it says of every mirror queued or being
  closed that its source is gone or its wallet was not followed (`Justified`).
* `ClosedRecordsAreGone`: `ClosedMeansGone`.  The invariant is `RecordInv`: our
  positions and records are numbered up to `deploys` (`IdBound`), a closed record
  is off the chain, and so is the target between the write and its record
  (`ClosedIsGone`).  The sweep is safe because a view of the chain can miss only
  positions in their grace window, which the sweep skips.
* `OpenRecordsAreKept`: `OpenMirrorKept`, assuming no failed read, from
  `RecordInv`: the pruning drops closed records only, and a record the new one
  replaces carries the same position id, which the new record still names.
* `MirrorsAreCapped`: `MirrorCap`, assuming that the state file can be read; any
  other fault, any command and any restart is allowed.  The tick counts the open
  records once, after the drain, and counts along as it closes and opens.  `Budget`
  says that its count never falls below the records: what it closes must be open and
  be closed once (`work` holds open records only, and a position has one of them).
* `PortfolioIsCapped`: `PortfolioCap`, assuming that no read lags and nobody else
  deploys.  Between the gate and the write positions can then only close (`Book`).
* `MirrorsOpenAlone`: `NoDoubleExposure`, assuming that the file is read, no read lags,
  nobody else deploys and no write lands in part.  `ExposureInv` keeps our positions
  one to a pool (`Apart`), has the tick's list of them cover every live one but the
  one just deployed (`ListHolds`), lets it close only what is alone in its pool
  (`ClosingAlone`), and keeps what it means to open off that list (`OpensFree`).
  Each of the four faults makes the list miss a position.
* `NothingIsBackfilled`: `NoBackfill`, assuming that the file is read, no command falls
  into a tick, no seed comes from a truncated list, and neither a wallet is added a
  second time nor follow switched off and on.  A tick passes the old positions by
  (`Shut`) because their pools are in the wallet's baseline (`Known`); that a baseline
  is neither lost nor taken from another round needs what a round's variables have to
  do with the file (`RoundInv`), and `RecordInv` for what the file lists as open.
* `FailedWritesEnd`: `FailedWriteNotRetried`, assuming that the file is read, no command
  falls into a tick and no seed comes from a truncated list; lists may be truncated
  later, gates may throw and a restart may cut any tick short.  `FailureInv` is the
  same argument for two sets of entries: those whose write failed in the round under
  way, which it passes by (`Shut`), and those of rounds that saved, whose pools are in
  the baseline as well (`Known`).  A round that ends early moves nothing from the first
  set to the second, and forgets it.

* `MirrorIsAffordable` (a mirror leaves the gas reserve, keeps its cap, and misses the
  minimum by less than one unit of the fourth decimal) and `MirrorRangeIsBounded`: the
  size and the range of `MirrorSizing`, for all amounts, shares, bins and limits.

`ManagementProofs`, for any set of positions, callers and faults and any bounds:

* `TypeCorrect`: `TypeOK`, inductive as it stands.
* `OneRowPerWriter`: `RowPerWriter`, under every fault.  `RowInv` adds that the
  hook's rows are of positions that are gone (`HookRows`), that a landed close
  still to be recorded is in one call only and has no hook row yet (`HookJobs`),
  and that the tick, from loading the rows to the last append, knows every
  reconciled row (`ReconcileRows`).  A close lands only on a live position, and
  none comes back: that is what keeps two calls apart.
* `NothingLiveIsClosed`: `ClosedIsGone`, without lagging reads.  `GoneInv` says
  of every copy of a record, in a job, in either tick and in the file, that it is
  honest: closed only if the position is gone, present only if it was deployed.
  So a stale copy may undo a close, never invent one.
* `OneRowForOneCloser`: `RowOnce`, when the management cycle is the only closer.
  `OnceInv` adds to `GoneInv` that the cycle is in a call only while it acts, so
  no hook can write a row between the tick's reading the rows and its own.

`ScreeningProofs`, for any pools, bridge requests, chats, caps, funds, faults and number of
cycles (the bounds are only assumed to be natural numbers):

* `TypeCorrect`: `TypeOK` is an invariant; it is inductive as it stands.
* `CapOvershootBounded`: `CapOvershoot`, for any chats and any set of routes beside the
  cycle and the bridge.  Counting positions is not enough, since a call that passed
  the gate has still to deploy.  `CapHeld` bounds the positions opened by a tool and
  the calls past the gate together; it is kept because the bridge is in one deploy at
  a time, the local loop deploys only where it decides, and each further route
  (`Asides`) is a single call (`OneAtATime`).  What `/deploy` opens (`HandMoves`) only
  makes the gates refuse sooner.
* `OnePerCycleHolds`, `DeclineIsTrueHolds`, `LandedIsLoggedHolds`: the three
  properties are parts of one invariant, `CycleInv`.  It ties a call to its cycle and
  its position (`CycleOf`, `AtIsMade`), says that only the running cycle or one that
  Sage still thinks about can deploy (`Deciding`, `PositionOf`), that a deploy that
  succeeded has fired the loop's guard or spent the bridge's key, or is about to
  (`LoopOnce`, `BridgeOnce`), and that a cycle which declined is over for both
  deciders (`DeclinedIsOver`).

`ChainClientProofs`, for any positions, readers, writers and ranges of bins:

* `ClientRefinesChainReads`: the client implements `ChainReads`.  A load must have
  read the chain after every reader that waits for it asked: `RecentEnough`.  It rests
  on who waits for whom (`LoadsGoOn`) and on the order of the stages a position goes
  through (`SeenIsPast`).
* `SuccessHasLanded`: `SuccessLanded`.  `WriteInv` says of a write under way that the
  transactions it has still to send lead to what its success will claim.

`StateFilesProofs`, for any contents, temporary names and writers:

* `WholeOnDiskHolds`: `WholeOnDisk`, assuming that no two writes share a temporary
  name.  `DiskInv` gives a name one user (`Named`), makes what is about to replace the
  file whole (`Filled`), and allows a file cut short only to the call that copies
  into it, or after a crash with the copy still there (`Cut`).
* `LoneWriterHasRegister`: `StateFiles` implements `StateRegister`, assuming also one
  writer and no failed read.  `LoneInv` adds that no name is left behind but that of
  the call under way (`Own`), and that this call carries what it makes of the contents
  that are there (`Fresh`, `Copied`): with two writers that is what fails.

`ServicesProofs`, for any sets of parts that run together, and any messages, jobs,
positions, tools, answers, trades, thresholds and bounds:

* `NoCommandIsLost`: `AckedIsHandled`.  What Telegram may forget lies below an offset
  the daemon sent, so the invariant speaks of the offset and of the batch in hand:
  all before them is handled or is the command in progress (`Read`), which rests on
  the updates of a batch following one another (`InOrder`).
* `WritesFireOnce`: `FiresOnce`.  A write that is not retried and was started is
  locked (`FiredOnce`), also when it failed.
* `RequestsAreValid`: `RequestIsValid`.  `LoopInv` describes the conversation between
  two requests: the last call for tools is answered up to the calls still to do, and
  all before it is answered in order.
* `AdviceStaysNarrow`: `AdviceIsNarrow`.  That the lesson kept passed its test against
  the history is an invariant (`Given`); the rest is about the operators: a rule is
  shown for a trade exactly where it was tested (`ShownIsTested`), so the counts of the
  test are those of the trades it is shown for, and what stands beside a trade comes
  from the lines of `community-lessons.ts` (`BesideIsJudged`).
* `LessonsCountTheirReviews`: `TrackRecord`.  Every copy of the file, the one on the
  disk and the one each job carries, counts the reviews it holds (`FileOk`, `JobOk`),
  so whichever is saved last is right by itself.  A lesson that is made needs an id no
  review has scored: ids carry the number of lessons made (`Ids`), and what is scored is
  a lesson of before.  The file found at the start is any whose rows have no review yet
  and cite lessons it lists (`StartsAssumption`).

`StoreProofs`, for any sets of parts that run together (those that share a chain or a
file one at a time), and any positions, keys, pools, settings, messages and bounds:

* `AnswersWereTrue`: `ReadsAreTrue`, of either chain.  For the client this is the
  refinement above; the simulated chain reads when it is asked and answers later, and
  needs the same argument over fewer stages (`ChainInv`).
* `WritesReportTruly`: `SuccessLanded`.  `DiskStaysWhole`: `WholeOnDisk`, with names that
  are not shared.  `LoneAuthorHasRegister`: `LoneWriterIsAtomic`, with such names; that its
  writer is alone and its reads succeed is in `Lone`, and the code needs all three.
  They carry over the theorems of the two modules above.
* `WatcherClosesNone`: `NoFalseExit`, for a wallet that leaves no pool during the read and
  may enter any.  A pool that was held when the read began is either collected or on
  a page still to come (`WatchInv`), as entering only shifts a list backwards.
* `ChangesStand`: `NoChangeUndone`.  A request of the form holds only keys typed into
  it, since a key that was not holds what it was filled with (`MeantInv`, `DirtyInv`);
  and from its load to its write a request has the lock, so its copy is the settings
  as they are wanted, changed where it was asked (`LockInv`, `CopyInv`).
* `QuestionsAnswered`: `EachAnswered`.  Only the last turn is read (`TurnInv`), the frame
  that ends it is sent and read once (`FrameInv`), and until then its question is the
  last bubble (`PairInv`); a turn that is over was answered, stopped or failed
  (`ToldInv`).

A part's invariant is proved of the part's own step; in the composition a step is one
part's and leaves the others' variables alone (`PartsStay`), so the invariants hold
together, whichever parts run.

`RulesProofs`, for any pages, candles, lookups, thresholds, readings, charts and
settings; what is compared with a number is assumed to be one (`RulesAssumption`, which
leaves the age gate and the window apart, as the code does):

* `SmartExitWaits`: `WarmupHolds`.  The code learns the age of a position from several
  places, none of which may be ahead of the truth, or a tick would take a young
  position for a settled one.  `LifeInv` bounds the age on record by the age had
  (`Ages`) and gives a bounce watch only to a position past its warm-up
  (`WatchIsWarm`), through restarts and switches; `Settled` keeps the answer once the
  position is sold.
* `SalesAreTrue`: `SoldOnTerms`.  What a sale rests on was written down ticks ago: the
  time out of range on record is no longer than the time since the position was last
  seen inside (`Ages`), and a queued drop was as large as configured when it was
  queued (`Drops`); the rest is which engine can answer with which reason
  (`StaticRules`, `Engines`, `Plans`, `PollerAnswers`).
* `OffersAreVetted`: `OfferedIsVetted`.  The lists of the funnel are cut by index at
  three places, and must still speak of the same candidate: they have equal lengths and
  each chart is the one its verdicts were computed from (`Beside`).  A cut keeps
  elements of the list, one for each place, in order (`NthKept`, `Kept`), and a
  candidate the technical gate lets pass meets the three conditions in terms of its
  candles (`GateVets`), down to the highest of a window being one of its prices
  (`HighestIsAPrice`).  A window has at least three candles, whatever the age gate
  (`LeastWindow`); that it is read at all is the property's own condition.

The prover reads `UNION S \cup P` as
`UNION (S \cup P)`, TLC as the other; the modules write the parentheses.
Only model-checked: the definitions of `MCFollowCycle` by maximum, and all liveness
(liveness under fairness is out of TLAPS's reach, as are `ENABLED` and what a recursive
definition computes for every input).  Every safety property of a passing run is
stated by a theorem, for any value of the constants within the assumptions named.

## The plan

Done: the core with its proofs, then the modules around it in the order of what the
code most depends on and a test reaches least, then the proofs of those that are
shared by the rest.  Every safety property of
a run now has its theorem.  What is left: an abstract specification of what the
follow cycle promises (a mirror is opened for a fresh entry, closed on its exit,
never two in a pool), with `FollowCycle` refining it.

## Not modelled, and why

* HiveMind sync: it pulls a snapshot that nobody reads.
* The strategy simulation and the shadow replay: arithmetic over candles whose
  result changes no decision.
* The price oracle, the study client and the smart-wallet checker: they return
  data no modelled decision rests on.
* Fees and their claims: no state of these modules depends on them.
* `evaluateExit` and the provider, tool-choice and system-role fallbacks: nobody
  calls them.
* Briefing, the layout of messages, of the dashboard's pages and of the prompts;
  authentication and redaction; deployment files and the Python plugin, which
  appears only as a caller of the bridge.
* Two writes of one file with one temporary name, and the composition of
  `StateFiles` under the cycles: in `FollowCycle`, `Management` and `Learning` a write
  of a file is one step (in `Learning` its read is another).
