# Verification of herm

TLA+ models of herm (`src/`, a terminal coding agent written in Go), the TLC
runs that check them on small instances, and proofs checked by TLAPS.
The Go code is the reference; every definition that models code is listed with
its lines in `PROJECT.json` ("map").

1. [Inventory](#1-inventory)
2. [Modules and how they correspond to the code](#2-modules-and-how-they-correspond-to-the-code)
3. [Runs](#3-runs)
4. [Fairness](#4-fairness)
5. [Proofs](#5-proofs)
6. [Where the code departs from what it says](#6-where-the-code-departs-from-what-it-says)
7. [What is not modelled](#7-what-is-not-modelled)
8. [What could come next](#8-what-could-come-next)

## 1. Inventory

herm runs one *agent loop* at a time: a language model is called, its reply's
tool calls are run, the results go back to the model, until a reply has no
calls.  The loop runs in its own goroutine and tells the terminal application
what happens through a channel of events.  The model may start *sub-agents*,
agent loops of the same kind, which the loop waits for (foreground) or which go
on beside it (background).  Tools run in a Docker container or, in *naked mode*,
in a sandbox of the host with the user's approval.  Conversations are trees of
nodes kept by langdag, an external library.

| Component (files) | State | Operations | Module |
|---|---|---|---|
| Agent run and tool loop (`agent.go`, `agent_loops.go`) | node, iterations, event and approval channels, `doneCh`, queue of background results | `Run`, `runLoop`, `emit`, `Approve`, `Cancel`, `backgroundCompletion`, `gracefulExhaustion` | AgentLoop |
| Background sub-agents (`subagent.go`) | `bgAgents`, `bgWg`, `agentNodes` | `executeBackground`, `runBackground`, `forward*`, `CancelAll`, `DrainGoroutines` | BackgroundAgents, ResultMailbox |
| Turn budget and event drain (`subagent_drain.go`) | turns, `responseCounted`, last node | `drainSubAgentEvents`, `gracefulSubAgentSynthesis`, `buildResult` | TurnBudget |
| Application event loop (`main.go`, `agentui.go`, `approval.go`) | `agentRunning`, `agentNodeID`, `awaitingApproval`, sub-agent displays | `startAgent`, `drainAgentEvents`, `finalizeAgentTurn`, keys, `/clear` | AgentUI |
| Compaction and clearing (`compact.go`, `agent_loops.go`) | branch of the conversation | `compactConversation`, `clearOldToolResults`, `maybeCompact`, `/compact` | Conversation |
| Container and boot (`container.go`, `background.go`, `commands.go`) | `running`, id, mutex; readiness | `Start`, `Exec`, `Stop`, `Rebuild`; boot, worktree switch, exit | Container |
| CPSL worker (`cpsl_client.go`, `cpsl_worker.go`) | process, two pipes, dead flag, timers | `eval`, `serve`, `closeLocked` | CpslWorker |
| Naked mode permissions (`naked_permissions.go`, `naked.go`) | allowed once, the file | `RequiresApproval`, `RecordApproval`, `FinishApproval`, load, save | NakedPermissions |
| Request cache (`request_cache.go`) | files by key | `Complete`, `Stream`, read, write, replay | RequestCache |
| Prompt history (`history.go`) | entries, position, file | `Load`, `Add`, `Up`, `Down`, rewrite | PromptHistory |
| Worktrees (`worktree.go`) | lock files, project number | list, clean, select, create, unlock | Worktrees |
| Trace collector (`trace.go`, `debuglog.go`) | turns, open calls, file | start, end, flush, finalize, build | Trace |
| Configuration and its editor (`config*.go`, `model_menu.go`) | global and project file, drafts, effective configuration | load, migrate, merge, override, edit, save | Settings |
| Deployments and routing (`config.go`, `deployment_config.go`, `configeditor_routing*.go`) | rules, configured deployments, menus | resolve a model, judge a rule, add, replace, delete rules | Routing |
| Model list and provider client (`main.go`, `wiring.go`, `models_dynamic.go`, `main_apple.go`) | list, fetch results, client | the answers of four fetches, client replacement | ModelCatalog |
| Terminal reader (`input.go`) | reader goroutine, channel, duplicate of the terminal | start, stop, hand over to a program | StdinReader |
| Key decoding (`input_keys.go`) | byte channel, sequence so far | `handleByte`, `readCSISequence`, `readBracketedPaste` | KeyDecoding |
| Input line (`input.go`, `render.go`) | runes, cursor | wrap, cursor position, arrows, words | InputLine |
| Prompt entry (`main.go`, `content.go`, `wiring.go`) | placeholders, paste store, attachments | paste, attach, complete, Enter | PromptEntry |
| File helpers (`tools/edit-file`, `tools/write-file`, `filetools.go`) | the file, a temporary file | edit, write, diff | FileHelpers, LineDiff |
| Not modelled (section 7) | | CPSL loaders, tree view, price tables, headless run, rendering, prompts and skills, Apple front end, scripts | |

What is hard in them, and what correctness means for each:

- **Agent loop.** Sequential and parallel calls, approvals, errors, a panic and a
  cancel in any state must leave exactly one answer for every call of a reply
  before the next model call; a guarded call runs only if *it* was approved; two
  nested loops share one budget; a cancelled run ends.
- **Background sub-agents.** Goroutines outlive the call that started them, report
  into a bounded channel that somebody else closes, and queue a result somebody
  else collects.  No status lost or reported twice, no result lost, told twice or
  told before its agent has ended; every cancelled agent ends.
- **Turn budget.** The budget is enforced from events that may be dropped, by a
  goroutine that lags behind the one it counts.
- **Application.** A turn ends in three ways (`EventDone`, `doneCh`, closed channel)
  that may come in any order, while keys are pressed; the application must always
  learn of the end, keep the conversation, and give an answer to the request it
  was meant for.
- **Container.** Five kinds of goroutines use one client whose lock is free while
  docker removes a container; docker fails, half succeeds and goes away.  What the
  client believes must be true, and whoever waits must hear of it.
- **CPSL.** Lines over a pipe that may come late, several agents, two timers.  An
  answer belongs to its request, and one session runs one command at a time.
- **Files shared by processes** (permissions, history, locks, cache, configuration).
  No file is locked: a crash between truncating and writing, a rewrite beside an
  append, a check that is stale when it is acted on.
- **Conversation and trace.** Clearing and compaction meet in one turn and storage
  may fail in the middle; events of two agents reach one collector and some are lost.
- **Models.** Four fetches answer in any order while the client is rebuilt; two
  pieces of code judge one routing rule and must agree.
- **Keys and text.** Bytes of one key run into another's; placeholders are numbered
  anew with every message; the cursor and the wrapping must agree at a full line.

`PROJECT.json` lists the components with their status and each hazard at its line
with the properties that cover it.

## 2. Modules and how they correspond to the code

```
ResultMailbox  <--implements--  BackgroundAgents  <--EXTENDS--  AgentLoop
                                                                   ^
                                                       (what the application sees of it:)
TurnBudget  (one sub-agent and the loop that drains it)          AgentUI
Container      CpslWorker
MCRecords        = PromptHistory, Worktrees, RequestCache, NakedPermissions, Conversation, Trace
MCConfiguration  = Settings, ModelCatalog, Routing
MCEditing        = StdinReader, KeyDecoding, InputLine, PromptEntry, FileHelpers, LineDiff
AgentLoopProofs (BackgroundAgents, AgentLoop), TurnBudgetProofs, AgentUIProofs, SandboxProofs
(Container, CpslWorker), RecordsProofs (PromptHistory, RequestCache, NakedPermissions, Worktrees, Conversation,
Trace), ConfigurationProofs (Settings, ModelCatalog, Routing), EditingProofs (StdinReader, KeyDecoding, InputLine,
PromptEntry, FileHelpers), DiffProofs (LineDiff)
```

The three MC modules at the bottom put components side by side that share no
state in the code: a behaviour is about one of them (`focus`) and the others
stand still, so that a run explores the sum of their states and not the product.
Components that do share state are in one module: the loop with its background
agents, the container's client with boot, tools, switch and exit, the worker
with its client, the settings with their editor.

### The agent

**ResultMailbox** is what the parent loop relies on: each task yields one result,
a result that is ready is handed over once, and a hand-over takes all that are
ready.

**BackgroundAgents** is `subagent.go`'s background half with the parent's event
channel.  `phase[b]` is the point an agent's goroutine has reached in
`runBackground` (drain loop, waiting for room for its "done" status, status
reported, `state.done` set, result queued and goroutine exited); `inbox` is
`Agent.bgResults`, `parent` the parent's `Run` (working, waiting in
`DrainGoroutines`, channel closed), `drainExpired` the timeout of that wait.
`forward` drops an event when the channel is full (`Offer`); `ForwardDone` and
`ForwardDoneFails` are `forwardBlockingWithTimeout`.  An agent of the set
`Asking` may meet a tool that needs approval.

**AgentLoop** extends it with `Run` and `runLoop`.  `pc` is the position in the
loop; `site` says which call of `retryableStream` is under way, so that one set of
actions serves the first call, the loop's calls, the two kinds of calls of
`backgroundCompletion` and the final call of `gracefulExhaustion`.  A reply is a
sequence of *kinds* of calls (plain, guarded, unknown, foreground and background
agent): the code tells no more apart.  Calls other than agent calls are taken in
order (`IsDue`), agent calls of the main loop return in any order (`joined`).  A
model call succeeds, is interrupted once and retried, fails, or is cut off with
no node.  `told`, `rounds`, `granted` and `failed` are history: nothing in the
code reads them.

**TurnBudget** has two processes that share a channel: the sub-agent's `runLoop`
(iterations, exhaustion, cancel, panic, the empty node after an error) and
`drainSubAgentEvents` with its full and its fallback mode, followed by the
synthesis and the return of the tool call.  Replies are numbered and stand for
their nodes.  `lossy` records that an event was dropped or (usage) could not be
made.  Sub-agents have no context window set, so they never compact; agents a
sub-agent starts in its turn are left out.

**AgentUI** is the application's select loop.  The agent is reduced to what
reaches the application: events, `doneCh`, the closed channel, its wait for an
answer.  A node is the sequence of turns of the conversation it ends, so that
"continues" is a prefix test.  `draining` counts down the events one
`drainAgentEvents` may handle; keys come between two drains.  `startAgent` makes
new channels, so only the current agent's are modelled.

**Conversation** keeps the stored nodes as a forest.  A node says a set of things
(`says`), which a summary unites, so that "nothing lost" is an equality of sets.  A
turn (`turn`, `leaf`) asks, answers and runs tools; between its steps
`clearOldToolResults` frees results (`Sizes` steps of the excess over the threshold)
and `maybeCompact` copies the newest nodes below a summary, with a storage that may
fail at each copy.

**Trace** has the application's collector and a sub-agent's own, as sequences of
turns with text, calls and usages; `heard` is what each was told.  Events are lost or
taken in order; a flush to the file may fail.

### The places where it runs

**Container** follows each goroutine (`pc`) through the client's methods: it reads
the state under the lock, lets the lock go, runs docker, takes the lock again.
`containers` are those docker ever created, by id; a docker command succeeds, or
fails having done its work or not.  `boot` is `bootContainerCmd` with the countdown
of its retries, `mail` what goroutines put into `resultCh`.  The tools of a turn
keep the workspace they were made with (`toolDir`).

**CpslWorker** has the worker's process and the client, with a pipe each way.  Each
call takes the client's lock, sends a number and waits for a line with that number,
its own timer, the user's cancel or the worker's end.  The library may print lines
of its own; the worker's time limit answers "late".

**NakedPermissions**: agents of one store, and other stores, ask, are answered for
once or for good, run and finish.  A command stands for the permissions it needs.
Saving is three steps (read, truncate, write) under the store's lock, which other
stores do not share.

### What is written down

**PromptHistory** has the file's inodes: a rewrite writes a temporary one and renames
it, an append holds the old inode open.  **RequestCache** has, per call, the provider's
stream, what was forwarded of it, and the temporary file with its rename.
**Worktrees** has the lock files and `project.json`, truncated and then written, and a
session's listing that reads, probes and removes in three steps.  In each, a process
may be killed at any step.

**Settings** keeps, per process, the global and the project configuration, the drafts,
the effective one, and which of them share their maps (`aliased`); the files may be
found truncated.  A configuration is one credential in its two forms, the model and
the menu's sort order.  **ModelCatalog** has the jobs on their way as a bag, each with
what it captured when it started.  **Routing** is mostly operators: the availability and
the resolution of models, the rule for a model, and the editor's judgement of a rule,
each translated from its own Go function, so that their agreement is a property and not
a definition.

### Keys, text and files

**StdinReader**: the reader's goroutine blocks in a read that closing the descriptor does
not end; a program gets the terminal in between.  **KeyDecoding** goes from tokens of the
wire through the byte channel to effects; a control key that comes encoded is put back
by a goroutine (`flying`).  **InputLine** has the runes, the cursor and the width;
`VisualLines` and `Shown` are `getVisualLines` and `cursorVisualPos`, written apart as
in the code.  **PromptEntry** has the line as pieces; a placeholder keeps in mind, for
the properties, what it was made for.  **FileHelpers** has the two helper programs, one
step per system call, and the tools that give them up.  **LineDiff** is Myers'
algorithm, a step per round, with the reading back and the hunks.

Definitions introduced by "Not the code:" are slips a change of the code could
make (a dropped guard, a missing wait, an off-by-one).  No specification uses
them: each shows, put in place of the definition it follows, that a property
would notice.

## 3. Runs

| Run | Instance | Properties |
|---|---|---|
| `bg_agents` | 3 agents, one may ask; 2 slots | `DoneStatusDelivered`, `ReportedOnce`, `MailboxSpec`, `AgentsEnd` |
| `loop_tools` | 1 agent, 6 kinds of reply, 2 iterations, 1 cycle, 1 slot | `ToolResultsComplete`, `ApprovedBeforeRun`, `EveryRunSettles` |
| `loop_background` | 2 agents, 4 kinds of reply, 3 iterations, 2 cycles, 1 slot | `IterationBudget`, `ToldOnce`, `OrderlyEnd` |
| `ui_turns` | 2 turns, 1 request each, 2 slots, drains of 2 events | `ReportedNodeAdopted`, `AnswerFitsRequest`, `ConversationKept`, `TurnsSettle` |
| `turn_budget` | budget 1 + 3 spare iterations, up to 2 calls, 3 slots | `BudgetInv`, `NeverCutShort`, `CallReturns` |
| `container` | boot, 1 tool call, switch, exit; 2 workspaces, 2 containers, 1 new Dockerfile | `ContainerInv`, `OnlyRebuildForgets`, `BootAndSwitchAnswer` |
| `cpsl_worker` | 3 calls and the probe | `CpslInv`, `CallsComeBack` |
| `records` | history: 2 processes, 4 prompts, 1 remembered; worktrees: 2 sessions, 2 trees; cache: 2 calls of one request, 3 replies; permissions: 2 stores, 3 agents; conversation: 10 nodes, 2 compactions, 2 prompts; trace: 2 collectors, 2 answers, 1 loss | `HistoryInv`, `LocksHold`, `CacheInv`, `NakedInv`, `ConversationInv`, `TraceInv` |
| `configuration` | settings: 2 processes, one editor session each; catalog: 2 catalogs, 2 configurations, 6 jobs at once; routing: 4 files, 3 deployments, 2 edits | `SettingsInv`, `CatalogInv`, `RoutingHolds` |
| `editing` | reader: 3 keys, 2 programs; keys: 2 keys or pastes; line: 6 runes, widths 4 and 5; entry: 2 pieces, 2 placeholders, 2 messages; helpers: 2 calls, 1 fault; diff: 2 files of up to 4 lines | `ReaderInv`, `KeysInv`, `LineEdited`, `EntryInv`, `FileReplaced`, `DiffInv` |
| `result_left_behind`, `overrides_leak` | the smallest instances that show it | a statement that does not hold (section 6) |

The type invariant of each module is checked by itself or is the first part of the
module's combined property.  What the combined ones say:

- `AgentsEnd`: a cancelled agent's goroutine exits wherever it was, and a started one
  exits or waits for an approval.  `EveryRunSettles`: a cancelled run ends; every run
  ends or stands at a request.  `TurnsSettle`: the application sees the end of a turn
  in whatever way it comes, and no spinner turns for ever.
- `BudgetInv`: turns are never over-counted (`TurnsCounted`), the loop's own cap bounds
  the run (`BackstopHolds`), the drain reads to the last event (`DrainedToTheEnd`).
- `ContainerInv`: a client that says it runs has a container that exists
  (`RunningIsAlive`).  `BootAndSwitchAnswer`: start-up and switches are answered.
- `CpslInv`: an answer is the caller's own (`OwnAnswer`) and the session works on one
  request (`OneRequestAtATime`).
- `HistoryInv`: the newest prompts outlive a rewrite that is killed (`NewestSurvive`), the
  walk through the history keeps what was typed (`TypedTextKept`).
- `LocksHold`: the project keeps its number (`ProjectKeepsId`) and a live session its lock
  (`LiveLockKept`).
- `CacheInv`: what is kept was once told to the end (`KeptWasTold`).
- `NakedInv`: an approval for once ends with a run (`OnceEndsWithRun`), one for good stays
  (`RememberedKept`).
- `ConversationInv`: what a compaction replaces is in the summary or told again, in order
  (`NothingLost`); a turn whose compactions were stored in full can read its newest results
  (`TurnResultsReadable`).
- `TraceInv`: all text in order and every call once (`ToldIsTraced`), a sub-agent's trace
  is whole (`SubTraceWhole`), the file follows (`FileFollows`).
- `SettingsInv`: what is in use is what was saved and overridden (`EffectiveIsCurrent`),
  drafts stay drafts (`DraftStaysDraft`), a saved key holds (`SavedKeyHolds`).
- `CatalogInv`: fetched models stay (`FetchedModelsKept`), the first line is shown
  (`FirstLineShown`), Apple's models are reachable when listed (`AppleReached`).
- `RoutingHolds`: a resolved model can be served (`ResolvedServes`), a full name wins
  (`FullNameWins`), editor and run time agree (`EditorAgrees`), an offered rule serves
  (`OfferedRuleServes`).
- `ReaderInv`: keys in order, none of a program's (`KeysInOrder`).  `KeysInv`: each key has
  its effect once and in order (`DecodedAsPressed`).  `EntryInv`: a placeholder stands for
  its paste (`PasteKept`).
- `LineEdited`: the lines shown cover the input (`LinesCover`), the cursor moves on with it
  (`CursorFollowsInput`), arrows move by a line (`ArrowsMoveByLine`).
- `FileReplaced`: a reader finds a whole text (`WholeText`), temporary files go (`TempsGone`),
  the mode stays (`ModeKept`).  `DiffInv`: the script is a shortest one (`ShortestScript`,
  against the longest common subsequence) and its hunks apply (`HunksApply`).

*Exceptions named in a property.*  Some properties hold only outside of a situation the
code does not handle; a history variable says when it arises, and section 6 tells what
happens then: `raced` (history), `clash` (permissions), `overlapped` (reader), `disturbed`,
`CutsMarker` and `HasMarker` (keys), `AfterFullLine` (line), `behind` (trace), `seenModels` (routing),
`removed` (files).  The compactions noted in `compacted` play that part for the conversation.

*Why the bounds are enough.*  A channel of one or two slots is full after one or two
events, so every event is dropped in some behaviour and delivered in another;
the real capacity (4096) only makes drops rarer.  Two agents are needed for two
statuses to compete and for one to be done while the other works; a third makes
the order of hand-overs matter.  Two rounds let an answer, a result or a count of
one round meet the next; the replies put a guarded call first and second, beside
agent calls and after an unknown tool.  Three iterations and two cycles let both
loops and both counters reach their limits separately and together.  Two turns are
what "left over from the last turn" needs.  `MaxDrain` is 50 in the code; with 2 a
drain stops before and after the channel is empty.  A budget of one turn with the
code's three spare iterations reaches both stages of the enforcement, the iteration
cap, and a drain that lags behind by the whole channel.

Two containers let one be removed while the other is started, and one tool beside boot,
switch and exit makes up to four users of the client at once.  Three calls to the CPSL
worker put one in the session, one in the queue and one behind it.  Two processes are
enough for files that are read, changed and written: every conflict there is between
two.  `ClearKeep` 1 and `CompactKeep` 3 (4 and 6 in the code) make ten nodes enough for
results to be cleared, a compaction that copies its nodes in full, and others that are cut short;
they are the tightest values the assumption `CompactKeep <= 2 * ClearKeep + 1` allows.  Six jobs put all four fetches and two
rebuilt clients on their way together.  The routing files hold the cases the code
distinguishes: no rule, a weight of zero, an unknown deployment, an alias, a rule without
stages.  Widths 4 and 5 with six runes give up to three wrapped lines, full ones and
ones with a break at the edge.  Two files of up to four lines of two kinds cover every
shape of a change at the start, at the end and across equal lines; the context is 1 where
the code has 3.

*Symmetry* is used in `editing` only: pasted contents, words and lines are only compared
for equality there, and all properties of that run are invariants or about single steps.

*Deadlock* is checked in `bg_agents`, where agents can always be cancelled again.
The other systems stop: a run returns, the user quits, the bounds are reached.

## 4. Fairness

- *BackgroundAgents, AgentLoop*: a sub-agent's run ends (model streams have an
  inactivity timeout, tools their own timeouts, iterations a cap) unless it waits
  for an approval, which has no timeout and gets none here; a goroutine that can
  take its next step does.  `ForwardDoneFails` is the timeout of the blocking send,
  `WaitGivesUp` and the expiry of `DrainGoroutines` those of the waits.  The
  consumer of the channel is *not* fair: the properties hold when nobody reads.
- *AgentLoop*: the loop takes the step it stands at.  Nothing is assumed of the user,
  so `RunEndsOrAsks` allows a run to stay at a request.
- *AgentUI*: the event loop drains when there is something to drain (the 50 ms ticker
  of a running turn guarantees that it looks), and an agent whose run is over goes
  through its deferred calls.  Nothing is assumed of the run or the user.
- *TurnBudget*: both goroutines go on; a model call or a tool answers or times out.
- *Container*: goroutines take their steps, docker commands end (each has a timeout), the
  event loop takes what is in `resultCh`.  A goroutine of a switch that waits for the
  client's lock gets it in the end (strong fairness): Go's mutex hands itself to a
  waiter that has starved for a millisecond.  Docker need not come up; `BootAnswers`
  says what follows if it stays up.
- *CpslWorker*: strong fairness of taking the client's lock, for the same reason; the
  client's timer of a request that was sent expires, and who sees that gives up; boot
  ends.  Nothing is assumed of the worker or the library: they may hang for ever.

All other modules have safety properties only.  What would have to happen eventually
in them is either done within one call or depends on the user.

## 5. Proofs

Each theorem holds for every value of the constants under the assumption its module
names.

**AgentLoopProofs**, first part: the background agents, for every finite or infinite set of
agents, every set of agents that ask and every channel capacity above zero (`BgAssumption`):

- `BgInvariant`: `BgSpec => []BgInv`.  `DoneStatusDelivered` is not inductive: that no
  goroutine is left when the channel is closed follows from the wait before it, and
  that none comes later from the parent no longer launching any.  `BgInv` adds
  to `BgTypeOK` and `ReportedOnce`: a queued result belongs to an exited goroutine
  (`QueuedHaveExited`), a status in the channel is recorded as delivered
  (`QueuedStatusDelivered`), and a wait without timeout leaves no goroutine
  (`ClosedAfterGoroutines`).  One lemma per group of actions shows that a step
  preserves it; `StatusesUnchanged` and `RestUnchanged` carry the parts a step does
  not disturb.
- `BgTypeCorrect`, `ReportsAreUnique`, `NoDoneStatusLost`: the invariants of the run
  `bg_agents`, as consequences.
- `ResultsImplementMailbox`: `BgSpec` implements `ResultMailbox` under the mapping
  `MailboxState`, step by step: `MailboxMoves` for the steps that move one agent's
  task or hand all results over, `MailboxStutter` for the others.

**AgentLoopProofs**, second part: the loop, for every set of agents, every set of replies over the kinds of call,
every channel capacity and every bound on iterations and cycles (`BgAssumption`,
`LoopAssumption`).  Each theorem has an inductive invariant of its own, and lemmas that follow
the parts of `Next`: model calls, tool calls, completion, the surroundings.

- `OneBudget`, `Spec => []IterationBudget`.  `BudgetIndInv` adds which of the loops runs at
  each position (`SiteFits`) and that a round under way has been paid for (`RoundIsPaid`):
  between the head of a loop and the reply that counts the round, the counter stands still.
- `ResultsToldOnce`, `Spec => []ToldOnce`.  The results told and those that wait are one
  sequence, `Queued`: draining the queue, wherever it is done, leaves that sequence as it is
  (`HandingOver`), and only the last step of an agent's goroutine makes it longer
  (`InjectKeepsTold`).
- `ApprovalFirst`, `Spec => []ApprovedBeforeRun`.  A request travels through three places, the
  event channel, the display and the answer channel, which are emptied by three actors.
  `ApprovalIndInv` says that while a call waits at most one of them holds something and it
  is about that call (`AwaitsOne`), and that otherwise, until the run ends, all of them are
  empty (`NothingAsked`): nothing is left over for the next request to find.
- `EndsInOrder`, `Spec => []OrderlyEnd`.  `OnTheWay` says for the positions before the end
  what a run without failure has used up or waited for; it needs the invariants of the
  budget and of the queue (the latter for the phases of the agents).
- `EveryCallAnswered`, `Spec => []ToolResultsComplete`.  `ResultsIndInv` says that until the message is
  built the results are a list, without repetition, of calls that are not agent calls, and that at
  the head of a loop nothing is answered or joined; answering takes the call that is due, which
  has no result yet.  The agent calls then close the list in their order: that an order exists
  for every finite set of positions and lists each once (`OrderExists`, `InOrderLists`) is shown by
  the least counterexample, with `LeastNumber` in place of induction.
- `LoopTypesKept`, `Spec => []LoopTypeOK`, puts the invariants above together with what they leave
  open (`RestTypeOK`).

**TurnBudgetProofs**, for every budget, buffer, number of calls in a reply and channel
capacity (`BudgetAssumption`): `BudgetKept`, `Spec => []BudgetInv`, and `NobodyCutShort`,
`Spec => NeverCutShort`.  The drain counts a turn at the first call after a usage event, and
either event may be dropped by a full channel, so neither the counter nor the channel alone says how
many rounds have been counted.  `TurnsFit` states it with an existential: the calls still in the
channel can be labelled with rounds in such a way that labels never fall, grow between two calls that
a usage parts, start at the turns counted and end at the rounds started.  As long as nothing
was lost the labelling is exact (`Exact`): every round has a call and only a usage parts
two rounds.  A dropped event makes gaps and never a new label, which is why the count errs in
one direction only.  `RepliesTold` is the same argument for the node of the last reply.  Every
step is one of four kinds, by what it does to the channel: nothing, a call, another event,
or taking the first.

**AgentUIProofs**, for every number of turns and requests, length of a drain and channel
capacity (`UIAssumption`): `UITypeCorrect`, `AnswersFit`, `DoneIsAdopted` and `NoTurnLost`, that is
`TypeOK`, `AnswerFitsRequest`, `ReportedNodeAdopted` and `ConversationKept`.  `UIIndInv` adds that the
channel speaks of the node of one turn (`NodesOfTurn`), that an EventDone is the last
thing in it that names a node and stays there as long as the turn runs (`EndIsLast`), and that a
request is in one place, channel, display or answer (`OneRequest`).  The three places
at which the application may learn of the end are then three ways of emptying one channel.

**SandboxProofs** is about the container and about the worker that takes its place:

- `ClientTellsTheTruth`, `Spec => []ContainerInv`, and `OnlyRebuildDrops`, `Spec => OnlyRebuildForgets`,
  for every set of parallel tool calls, workspaces and images and every number of containers
  (`ContainerAssumption`).  `ContainerIndInv` adds that the goroutine
  whose docker run is under way holds the lock and finds no other container running
  (`RunnerHoldsLock`), that a client that is not running has no id (`StoppedHasNoId`), and that a tool
  under way has its workspace (`ToolsHaveDir`).  `RestartInv` is about the application around
  it: a start-up that has not ended, a switch under way, a container announced in the mail
  and one that is ready exclude each other (`OneRestartAtATime`), so that a switch never starts beside
  another one.
- `SessionServesOne`, `CpslSpec => []CpslInv`, for every finite set of callers (`CpslAssumption`).
  `CpslIndInv` adds to the types that there are as
  many numbers as calls that got one (`CountedRequests`, which bounds the numbers), that
  exactly the holder of the lock has a request out and those that wait have none
  (`LockIsHeld`), that nothing is on its way before the start (`FreshStart`), that an "ok" on
  the pipe was worked on (`AnswersAreWork`, from which `OwnAnswer` follows), and that the
  session of a living worker is in one of four situations: no request, one on its way,
  evaluated, answered (`InTurn`, from which `OneRequestAtATime` follows).  `InTurn` speaks of a
  living worker only, and that is the heart of the argument: a caller that gives up frees
  the lock with its request still out, and no later call meets the line it left only
  because giving up kills the worker.

**RecordsProofs** is about six of the records:

- `HistoryKept`, `HistorySpec => []HistoryInv`, for every number of processes and every file
  size (`HistoryAssumption`).  While a rewrite is under way the newest prompts are in the
  entries of the process that rewrites, not in the file it will replace.  `RewriteGoesOn` says, as
  long as no two processes met, that this process is the only one that loads and what the
  temporary file holds at each stage; `HandlesFit` says which process has which file open, so that
  a kill between two steps leaves no writer behind.  The arithmetic of "the last `MaxSize`"
  is in the lemmas about `Newest`: cutting before or after an append gives the same.
  `WalkOK` is the part about the keys: a walk under way keeps the typed text as its draft.
- `CacheTellsTheTruth`, `CacheSpec => []CacheInv`, for every set of calls, requests and replies
  (`CacheAssumption`).  A reply may be kept once its stream has ended with it.  `CacheIndInv` follows
  that through the steps: after a "done" event only an error can come (`StreamsWatched`), a
  replay has nothing to keep (`NothingToKeep`), what a call holds is a reply
  (`RepliesKnown`), and what is being written may be kept and was told (`WrittenWasTold`).
- `PermissionsLastAsTold`, `NakedSpec => []NakedInv`, for every set of agents, stores and
  permissions (`NakedAssumption`).  `OnceEndsWithRun` is nearly inductive; that `RememberedKept` holds
  between saves needs what a save knows while it is under way.  `NakedIndInv` adds that the
  agents that save hold their store's lock (`SaversHoldLock`, `LockIsOwn`), and that as long as
  no two saves met, one store saves (`OneSaves`) and its copy is all that was remembered
  (`SaverKnows`).
- `TreesHold`, `TreesSpec => LocksHold`, for every set of processes and trees
  (`WorktreesAssumption`: the directory herm starts in is not a worktree, and what stands for
  "no lock", "torn" and "no tree" is neither a process nor a tree).  A listing removes the lock
  that is there now because of what it read before; that it never removes a lock it read from a
  live process holds because a process number found dead stays dead (`JudgedStale`, the only
  part that needs numbers not to be used twice).  `CreatorsRead` and `WritesOwn` say which
  sessions may still write `project.json` and which lock a session is about to write.
- `NothingToldIsLost`, `ConversationSpec => []ConversationInv`, for every number of results and nodes
  kept with `CompactKeep <= 2 * ClearKeep + 1` (`ConversationAssumption`; 6 and 4 in the code).
  `BranchOf` is a recursive function: that it exists for a store whose nodes come after their
  parents is shown by the least node whose branches could not be written down
  (`BranchesExist`, `BranchesGiven`), and a branch once there stays (`BranchesStay`).  `ConvIndInv`
  has three parts.  No two nodes of a branch say the same (`AllApart`), so what is copied is
  not in the summary.  Each compaction is what it noted of itself (`CompactionOK`), also after what
  follows it was cleared.  And of the turn's own results on the branch no two are adjacent and
  a cleared one has `ClearKeep` results after it (`KeptReadable`), as long as the turn's compactions
  were stored in full: then at most half of the copied nodes are results (`NoNeighbours`), too few
  for one of them to have been cleared (`CompactedReadable`).
- `ToldIsKept`, `TraceSpec => []TraceInv`, for every number of texts, calls, answers, traces and
  lost events (`TraceAssumption`).  What a collector holds is spread over the turns it has closed and
  the one in progress, so `TraceIndInv` speaks of the trace that would be built of it now: it has
  what the collector was told (`Holds`).  To keep that, a call that is open and whose start was
  heard must be pending under its agent, not ended, and its agent's turn must be in progress
  (`CallsFit`, `Waits`); otherwise the end of the call would find nothing to be written to.
  `FileFits`, `OwnFits` and `SubsFit` say it of the file, of the sub-agent's collector and of the
  traces put at their calls.  The texts and the usages of a trace are recursive functions over its
  turns; that they exist for every trace, and what one more turn adds, is shown by the least
  length at which they would fail.

**ConfigurationProofs** is about the settings, the model list and the routing:

- `ConfigurationAgrees`, `SettingsSpec => []SettingsInv`, for every set of processes, credentials
  and overrides and whatever the first file holds (`SettingsAssumption`).  The processes share two
  files and nothing else, so `SettingsIndInv` says one thing of each process (`Settled`): its
  configuration in use is what its files and overrides give, and the overrides have been
  written over its global configuration already (`InUse`, which is what makes a second rebuild
  change nothing); the editor's draft has the credential typed or the one in use (`Drafted`);
  nothing counts as saved before the first start has ended (`NotYetSaved`); what was saved is
  in use, and in the file unless a later writer took it (`Kept`).  That no draft shares its
  deployments with the configuration in use (`aliased = {}`) is part of it: entering the editor
  copies them.  A process's own step keeps the others settled (`OneAtATime`) because it becomes
  the last writer when it writes.
- `CatalogAgrees`, `CatalogSpec => []CatalogInv`, for every catalog, set of answers, set of
  configurations and number of jobs (`CatalogAssumption`), whatever order the answers arrive in.
  `CatalogIndInv` adds that every listed model comes from a catalog or from the one provider that
  can list it (`Listable`), that the client in use fits a configuration there was
  (`ClientsOK`), and that a client that reaches Apple's models is in use or on its way as long as the
  list has one (`AppleOnTheWay`).  The first is why the assumption asks that no two
  providers list a model of the same name: the ids carry their provider ("ollama/",
  "apple/"), and without that a merge of one answer would take away the other's models.
- `RoutingAgrees`, `RoutingSpec => RoutingHolds`, for every list of models, every configuration and
  every set of rules, those with weights of zero, unknown deployments and no stages included
  (`RoutingAssumption`).  Three more assumptions say what is so of the data: a list has a model
  once (`ListsAssumption`: lists are merged by id); a provider has at most one other name, google's
  gemini and xai's grok (`AliasAssumption`: with two, which of two rules under aliases applies
  would be left to the order of a map); and in the embedded catalog, which is not part of the
  repository, no full name is the native name of another model (`OfferingsAssumption`).  That
  the editor warns exactly of the rules that take a model out of the list (`EditorIsRight`) compares
  two pieces of the code: what the editor finds eligible is what is usable at run time
  (`EligibleIsUsable`), and one rule applies to a model (`OneRoute`).  The invariant is needed for
  `OfferedRuleServes`.  `RuleIsOffered` says that what the menus offer, and what was chosen of it, serves
  every model the rule applies to among those the menus were built from; from that
  `SaveServes` follows, as long as the list is still the same.

**EditingProofs** is about the way from a key to a file:

- `KeysArrive`, `ReaderSpec => []ReaderInv`, for every sequence of keys and every number of
  readers.  Readers follow one another, each with a channel of its own, and the program that is
  given the terminal reads beside them.  `ReadIndInv` says who reads (`OneReader`: as long as
  no two readers met, all but the last have ended, and the last alone uses the last channel, which
  it closes on ending and only when it was stopped), that what was received, what is in the channel,
  the key in the reader's hand and what waits in the terminal follow one another in the order typed
  (`InLine`), and that none of it was meant for a program that has ended (`OwnKeys`).
- `KeysDecoded`, `KeysSpec => []KeysInv`, for every number of keys and every set of pasted texts
  (`KeysAssumption`).  The tokens of the keys are one sequence, the places `After` leads through,
  and `KeysIndInv` says that as long as no keys ran into each other the handler stands at
  one place of it, with the rest in the channel and on the wire (`RestOf`).  It is between two keys
  (`BetweenKeys`), within one, where state, parameters and content are what the tokens so far make of
  them (`TokensRead`), or behind an encoded control key whose byte is still to be put into the channel
  (`ControlFlies`) or first in it (`ControlSent`).  One lemma for each part of the handler
  shows that the next token leads to one of these (`Outcome`).  The pastes are the part with an
  argument: after an escape and a bracket four bytes are taken at once, and unless the
  text ends in between (`CutsMarker`) or has an end marker of its own (`HasMarker`, which no reader
  could tell from the terminal's) what was taken is text, and the marker is found where it begins.
- `PlaceholdersStand`, `EntrySpec => []EntryInv`, for every store of pastes and every
  number of lines.  `EntryIndInv` says of every line kept anywhere, in the entry, as the draft of
  a history walk or in the history, that a placeholder made for the message being written has
  its content in the store under its number.  A paste only makes the store longer, and sending the
  message makes every placeholder one of an older message.
- `FilesReplaced`, `HelpersSpec => FileReplaced`, for every set of calls, texts and modes.  That a
  rename gives the file whole is a matter of `TextsMeant` (the temporary file of a call about to
  rename has what the call means to write).  That it keeps the mode is not inductive until one
  adds what a helper knows of a file that others replace at the same time (`ModesAgree`): as long as
  nothing was removed, a helper that saw no file began when there was none, and what is about to be
  renamed has the mode of the file it replaces.
- `InputShown`, `LineSpec => LineEdited`, for every set of widths of three columns and more
  (`LineAssumption`; the prompt takes two) and every length of the input.  The state has no more to
  say than its type: what is shown is computed from it.  `HasScanned` says what the scan knows after
  so many runes: the lines that have ended follow one another (`FollowsLine`, with a line break
  between them only behind a line that was not full), fit the terminal and have no break inside, and
  so does the line under way.  That it holds to the end is an induction over the
  runes, by the first one for which it could fail (`AllScanned`).  From it comes that lines start
  one behind the other (`StartsRise`), that every position is held by a line (`SomeLineHolds`), and
  by two only before a line break behind a full line (`HeldTwice`).  The property of the arrows is that
  a position within a line is shown on it, or at the start of the next (`ShownOnLine`).

**DiffProofs**: `DiffIsShortest`, `DiffSpec => []DiffInv`, for every two files, every set of lines and
every width of the context (`LineDiffAssumption`).  This is the correctness of Myers' algorithm and of
the cutting of hunks, and `DiffIInv` has a part for each phase.

- *Forward* (`ForwardInv`): the vectors kept so far are those the rounds compute (`Searched`), and no
  round before this one has come to the ends of both files.  What a vector means is said by two lemmas
  about `Searched`.  Where round r gets to on a diagonal, lines in common lead there that leave r
  changes (`FarComes`); and wherever lines in common lead with r changes, round r gets at least as far on
  that diagonal (`FarEnough`), because a round goes on from where its neighbours were (`Growth`).
  The first round to reach the ends has therefore the number of the fewest changes, n + m - 2 `Common`
  (`RoundsAreShortest`), and it reaches them exactly (`FirstReach`).  With no line in common n + m
  changes lead to the ends, so there is such a round.
- *Back* (`BackInv`): reading back stands where round d got to on its diagonal, and the
  script behind it leads from there to the ends, with a change for each round read back (`Turns`).
- *Hunks* (`RegionsInv`): the hunks are cut out of the script at places that follow one another, with
  nothing but equal lines between (`CutAt`), and the last one reaches the context's width behind the
  last change seen (`CutTo`).  `prevHunkEditEnd` finds the end of the last hunk by its
  counts alone (`PrevEndIs`), because every edit adds to one of them; so a hunk made longer is the one
  that would have been cut so (`ExtendIs`).  At the end hunks cut so apply (`CutsApply`):
  a part of the script spells the lines between its ends (`PartSpells`), and a part without changes the same
  ones in both files (`QuietIsEqual`).

Inductions over lengths, rounds and ranks are made by a least counterexample (`LeastNumber`), since the library's
induction theorems take an operator, which the installed provers cannot instantiate.

Only model-checked, and why:

- the liveness properties: they need fairness and `ENABLED`, which the prover does not handle;
- the two properties whose runs end in a counterexample, which are not theorems at all.

## 6. Where the code departs from what it says

Each of the first two has a run that ends in a counterexample:

- `result_left_behind`: a background result queued while the last model call streams
  is told to nobody (`NoResultLeftBehind`).
- `overrides_leak`: a value given with `--config-overrides` "for this run only" is written to
  the user's file when the editor saves (`OverridesStayInRun`).

The others are stated in the modules and, but for the last, have an entry under "findings"; each can be seen
by checking the definition as an invariant or property of its module.

| Statement (module) | What happens |
|---|---|
| `SubAgentApprovalAnswered` (BackgroundAgents) | a background agent whose tool asks for approval is never answered |
| `ApprovedBeforeAnyRun` (AgentLoop) | the tool loop of background completion runs guarded calls without asking |
| `NoRequestAfterTurn` (AgentUI) | a turn that ends during a request leaves the application in approval mode |
| `ClearedStaysCleared` (AgentUI) | an event of the interrupted agent brings a wiped conversation back |
| `SubAgentsCleared` (AgentUI) | a new turn starts with sub-agents of an earlier one on display |
| `ResumableAfterReturn` (TurnBudget) | a sub-agent that fails after some replies cannot be resumed |
| `NothingForgotten` (Container) | a Rebuild forgets a container that a worktree switch has started during its `docker rm` |
| `OnlyStaleCleaned` (Worktrees) | a listing removes a lock that became live after it was read |
| `GrantReachesRun` (NakedPermissions) | the first command to end takes the granted permissions from the one they were promised to |
| `FetchedDeploymentsKept` (ModelCatalog) | a late catalog drops OpenRouter from the models both list |
| `ClientFollowsConfig` (ModelCatalog) | a client built for an older configuration replaces a newer one |
| `KeptAsReported` (Conversation) | after a storage failure the result still reports the planned number of kept nodes |
| `OneResponseEach` (Trace) | a sub-agent's usage ends the flag of the main agent's turn, and two responses become one turn |
| `DiffIsTheChange` (FileHelpers) | of two overlapping edits both report success and one is undone |
| `CursorOnScreen` (InputLine) | at a line break after a full line the cursor is one column too far |
| `NothingLeaks` (KeyDecoding) | a byte put back lands in another key's sequence, whose rest is typed as text |
| `PasteEndsAtMarker` (KeyDecoding) | a short sequence at the end of a paste takes the end marker with it |
| `ProgramGetsItsKeys` (StdinReader) | the first key typed for a shell goes to the reader that was stopped |
| `RecalledPasteKept` (PromptEntry) | a prompt called back from the history has placeholders that stand for nothing, or for another paste (`main.go:493`, `main.go:510`); the code promises nothing else |

Observed while modelling, reachable in the modules or at their edge:

*Agent.*
- The wait for background agents can return between `state.done` and the queueing of
  the result (`WaitSeesAllDone` before `InjectResult`), and completion then ends with
  nothing collected.
- A request for approval that `emit` drops leaves the loop waiting for an answer that
  nobody is asked for (`AskApproval` on a full channel).
- A background agent launched by a call already under way when `Cancel` walks the
  agents is not cancelled (`AgentCallLaunches` after `Cancel`).
- After a failed model call the loop enters background completion with an empty node.
- Background completion that uses up the iterations ends on unanswered tool calls, with
  no final call (`OrderlyEnd` says when).
- A turn that ends through the closed channel keeps its streamed text out of the
  messages (`DrainClosed`).
- `cancelSent`, set while only sub-agents are active, makes the first Ctrl+C of the next
  turn quit.
- A drain that lags behind lets a sub-agent exhaust its iterations, with the loop's own
  final call, before the turn budget is enforced, and then asks for a second synthesis.
- After a compaction the kept nodes may begin with tool results whose calls are in the
  summary (`compact.go:75`); `/compact` during a turn is undone by the turn's end.
- A turn goes on from where a compaction was cut short (`compact.go:139` returns what it has), so
  results come to follow results.  After several such compactions more than `ClearKeep` results
  can be among the nodes the next one copies, cleared ones with them: the turn then lacks one of
  its newest results, which clearing alone keeps intact (`agent_loops.go:265`).
- Two traces that start in the same second share a file (`debuglog.go:36`); a call that
  comes without a turn is counted in the totals only (`trace.go:440`).

*Container, CPSL, files.*
- A second worktree switch while the container is not ready changes the path without a
  restart; the boot's end sets the path back; quitting during boot leaves a container.
- A CPSL call cancelled in the queue still sends, and then ends the session for all; a
  worker that has died is not started again.
- Two processes that met while one loaded its history lose prompts; pressing Up and then
  Enter on the newest prompt leaves the position in the history (`history.go:91`).
- A crash between truncating and writing the permission file makes every later "always"
  fail; saves that overlap lose one of the approvals.
- A configuration file read in the middle of a write counts as broken; of two that save,
  one is lost (`config_storage.go:192`); the sort order chosen in the picker is lost when
  the draft is saved (`model_menu.go:34`).
- An edit given up after its timeout is still applied (`filetools.go:514`); a file removed
  in between comes back with the temporary file's mode.

*Models, keys, text.*
- A fetch of an older Ollama address that answers late replaces the newer list; a replaced
  client is not closed.
- Overlapping sessions of programs can close a closed channel or send on one
  (`input.go:241`, `input.go:244`).
- A completion runs any command while the agent runs, where Enter takes `/clear` only
  (`main.go:461` before `main.go:476`); pasted text that looks like a placeholder is expanded.
- With the cursor at the end of a full line before a line break, Down does not move; Up to
  a wrapped line that is shorter goes to the start of the same line.

## 7. What is not modelled

- **CPSL library loaders**: foreign calls into a library that is not part of the repository.
- **Conversation tree view**: it renders what langdag has stored.
- **Prices, scores and model tables**: data and arithmetic; the sort order's place in the
  configuration is in Settings.
- **Headless run**: one turn over the same loop, without a second actor.
- **Rendering**: sequential, from state that other modules have; the cursor's place, where
  it meets the wrapping, is in InputLine.
- **Prompts and skills, Apple application, checks and scripts**: text, a separate front end in
  another language, build tooling.

In the modelled parts: the content of messages, token sums and progress notices; the race
between `Cancel` and the first lines of `Run` (`agent.go:654`); sub-agents of sub-agents;
output files of sub-agents; application commands other than `/clear`, `/compact`,
`/worktrees` and the shells; the sandbox profile and the splitting of a shell command into
segments; animation, help and layout of the editor; the scoring of completions; mouse
selection; update check and image tags; the git, grep and outline tools, which pass text
through.

langdag, the provider, docker, git, the sandbox and the tools are external and appear only
as the outcomes the code distinguishes.

## 8. What could come next

1. AgentUI and AgentLoop composed, in place of the agent that AgentUI reduces to its
   channels; the window between `Run` and `Cancel`.
2. The shared files of NakedPermissions, Settings and Worktrees as implementations of one
   abstract specification, a file that is replaced and never torn.
