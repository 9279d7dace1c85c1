----------------------------- MODULE AgentLoop -----------------------------
(***************************************************************************)
(* Agent.Run and Agent.runLoop (agent.go, agent_loops.go) composed with    *)
(* the background sub-agents of BackgroundAgents: model calls, the tool    *)
(* loop with its approvals and its parallel sub-agent calls, background    *)
(* completion, graceful exhaustion, cancellation and the end of the run.   *)
(* The language model, the tools and the user are free within what the     *)
(* code lets them do.                                                      *)
(***************************************************************************)
EXTENDS BackgroundAgents

CONSTANTS
  Replies,     \* tool calls of one model reply: sequences over CallKind
  MaxIter,     \* maxToolIterations
  MaxCycles    \* maxBackgroundCompletionCycles

\* "plain" needs no approval, "guarded" does; "fg" and "bg" are agent calls.
CallKind == {"plain", "guarded", "unknown", "fg", "bg"}

ASSUME LoopAssumption ==
  /\ Replies \subseteq Seq(CallKind)
  /\ MaxIter \in Nat \ {0}
  /\ MaxCycles \in Nat

VARIABLES
  pc,          \* where runLoop stands
  site,        \* which call of retryableStream: first, loop, resume, mini, final
  tries,       \* interrupted attempts of that call
  iteration,   \* iterations of the tool loop
  remaining,   \* remainingIter of backgroundCompletion
  cycle,       \* cycles of backgroundCompletion
  calls,       \* tool calls of the last reply
  results,     \* positions of the calls answered so far, in order
  joined,      \* positions of agent calls whose goroutine has returned
  hasNode,     \* nodeID is not empty
  cancelled,   \* the run's context is done
  approval,    \* Agent.approval, a channel of one response
  shown,       \* requests the TUI has on display: at most one
  doneCh,      \* doneCh is closed
  told,        \* history: background results put into a message, in order
  rounds,      \* history: tool-result messages the model has answered
  granted,     \* history: requests the user has approved
  failed       \* history: the loop met an error or a cancellation

convVars == <<site, tries, iteration, remaining, cycle, calls, results, joined, hasNode>>
userVars == <<cancelled, approval, shown, granted>>
histVars == <<told, rounds, failed>>
loopVars == <<pc, convVars, userVars, doneCh, histVars>>
vars == <<bgVars, loopVars>>

ToolSite == {"first", "loop", "resume", "mini"}
PC == {"llm", "head", "calls", "approval", "exec", "after", "cycle", "wait",
       "collect", "done", "signal", "returned"}

\* A request for approval is known by the round and the position of its call.
ApprovalReq(r) == [tag |-> "approval", id |-> r]
DoneEvent(n) == [tag |-> "done", node |-> n]

\* The calls runLoop's own tool loop handles; the others belong to the small
\* loop inside backgroundCompletion.
InMainLoop == site \in {"first", "loop"}

AgentCalls == IF InMainLoop THEN {i \in DOMAIN calls : calls[i] \in {"fg", "bg"}} ELSE {}
Unanswered == (DOMAIN calls \ AgentCalls) \ ToSet(results)
IsDue(i) == i \in Unanswered /\ \A j \in Unanswered : i <= j
Request(i) == <<rounds, i>>

\* Positions of calls in the order of the reply.
InOrder(S) ==
  CHOOSE s \in [1..Cardinality(S) -> S] : \A i, j \in DOMAIN s : i < j => s[i] < s[j]

LoopTypeOK ==
  /\ pc \in PC
  /\ site \in ToolSite \cup {"final"}
  /\ tries \in 0..1
  /\ iteration \in 0..MaxIter
  /\ remaining \in 0..MaxIter
  /\ cycle \in 0..MaxCycles
  /\ calls \in Replies \cup {<<>>}
  /\ results \in Seq(DOMAIN calls)
  /\ joined \subseteq AgentCalls
  /\ hasNode \in BOOLEAN /\ cancelled \in BOOLEAN /\ doneCh \in BOOLEAN /\ failed \in BOOLEAN
  /\ Len(approval) <= 1 /\ Len(shown) <= 1
  /\ told \in Seq(BgAgent)
  /\ rounds \in Nat
  /\ Len(events) <= EventCap

Init ==
  /\ BgInit
  /\ pc = "llm" /\ site = "first" /\ tries = 0
  /\ iteration = 0 /\ remaining = 0 /\ cycle = 0
  /\ calls = <<>> /\ results = <<>> /\ joined = {}
  /\ hasNode = FALSE /\ cancelled = FALSE
  /\ approval = <<>> /\ shown = <<>> /\ doneCh = FALSE
  /\ told = <<>> /\ rounds = 0 /\ granted = {} /\ failed = FALSE

-----------------------------------------------------------------------------
(* Model calls: retryableStream and what follows it at each call site.      *)

Goto(l) == pc' = l

\* A reply's tool calls replace the last ones.
Receive(r) == calls' = r /\ results' = <<>> /\ joined' = {}

CallModel(s) == Goto("llm") /\ site' = s /\ tries' = 0

\* The stream breaks and the context is live: one more attempt.
StreamRetries ==
  /\ pc = "llm" /\ tries = 0 /\ ~cancelled
  /\ tries' = 1
  /\ UNCHANGED <<bgVars, pc, site, iteration, remaining, cycle, calls, results,
                 joined, hasNode, userVars, doneCh, histVars>>

\* The prompt is refused, the retry breaks too, or the context is done.
FirstCallFails ==
  /\ pc = "llm" /\ site = "first"
  /\ Goto("done") /\ failed' = TRUE
  /\ UNCHANGED <<bgVars, convVars, userVars, doneCh, told, rounds>>

LoopCallFails ==
  /\ pc = "llm" /\ site = "loop"
  /\ Goto("after") /\ failed' = TRUE
  /\ Receive(<<>>) /\ hasNode' = FALSE
  /\ UNCHANGED <<bgVars, site, tries, iteration, remaining, cycle, userVars,
                 doneCh, told, rounds>>

CompletionCallFails ==
  /\ pc = "llm" /\ site \in {"resume", "mini", "final"}
  /\ Goto("done") /\ failed' = TRUE
  /\ UNCHANGED <<bgVars, convVars, userVars, doneCh, told, rounds>>

\* The reply was saved as a node, or (n = FALSE) it was cut off with none.
FirstReply(r, n) ==
  /\ pc = "llm" /\ site = "first"
  /\ Receive(r) /\ hasNode' = n
  /\ Goto(IF n THEN "head" ELSE "done")
  /\ failed' = (failed \/ ~n)
  /\ UNCHANGED <<bgVars, site, tries, iteration, remaining, cycle, userVars,
                 doneCh, told, rounds>>

LoopReply(r, n) ==
  /\ pc = "llm" /\ site = "loop"
  /\ Receive(r) /\ hasNode' = n
  /\ Goto(IF n THEN "head" ELSE "after")
  /\ iteration' = IF n THEN iteration + 1 ELSE iteration
  /\ rounds' = IF n THEN rounds + 1 ELSE rounds
  /\ failed' = (failed \/ ~n)
  /\ UNCHANGED <<bgVars, site, tries, remaining, cycle, userVars, doneCh, told>>

\* In backgroundCompletion a reply without a node ends the run; nodeID stays.
NoNodeReply ==
  /\ pc = "llm" /\ site \in {"resume", "mini", "final"}
  /\ Goto("done") /\ failed' = TRUE
  /\ UNCHANGED <<bgVars, convVars, userVars, doneCh, told, rounds>>

ResumeReply(r) ==
  /\ pc = "llm" /\ site = "resume"
  /\ Receive(r) /\ hasNode' = TRUE
  /\ Goto("head")
  /\ UNCHANGED <<bgVars, site, tries, iteration, remaining, cycle, userVars,
                 doneCh, histVars>>

\* Not the code: the round is not charged to the budget.
MiniReplyFree(r) ==
  /\ pc = "llm" /\ site = "mini"
  /\ Receive(r) /\ hasNode' = TRUE
  /\ Goto("head")
  /\ rounds' = rounds + 1
  /\ UNCHANGED <<bgVars, site, tries, iteration, remaining, cycle, userVars, doneCh,
                 told, failed>>

MiniReply(r) ==
  /\ pc = "llm" /\ site = "mini"
  /\ Receive(r) /\ hasNode' = TRUE
  /\ Goto("head")
  /\ remaining' = remaining - 1
  /\ rounds' = rounds + 1
  /\ UNCHANGED <<bgVars, site, tries, iteration, cycle, userVars, doneCh, told, failed>>

\* gracefulExhaustion offers no tools and discards the tool calls of its reply.
FinalReply ==
  /\ pc = "llm" /\ site = "final"
  /\ hasNode' = TRUE
  /\ Goto("done")
  /\ UNCHANGED <<bgVars, site, tries, iteration, remaining, cycle, calls, results,
                 joined, userVars, doneCh, histVars>>

ModelStep ==
  \/ StreamRetries
  \/ FirstCallFails \/ LoopCallFails \/ CompletionCallFails
  \/ \E r \in Replies, n \in BOOLEAN : FirstReply(r, n) \/ LoopReply(r, n)
  \/ NoNodeReply
  \/ \E r \in Replies : ResumeReply(r) \/ MiniReply(r)
  \/ FinalReply

-----------------------------------------------------------------------------
(* The heads of the two tool loops.                                         *)

\* Not the code: both loops take one round too many.
BudgetLeftOffByOne == IF InMainLoop THEN iteration <= MaxIter ELSE remaining >= 0

BudgetLeft == IF InMainLoop THEN iteration < MaxIter ELSE remaining > 0

EnterLoop ==
  /\ pc = "head" /\ calls # <<>> /\ BudgetLeft /\ ~cancelled
  /\ Goto("calls")
  /\ UNCHANGED <<bgVars, convVars, userVars, doneCh, histVars>>

\* ctx.Err() at the head: an error event, and the run is over.
CancelledAtHead ==
  /\ pc = "head" /\ calls # <<>> /\ BudgetLeft /\ cancelled
  /\ Goto("done") /\ failed' = TRUE
  /\ UNCHANGED <<bgVars, convVars, userVars, doneCh, told, rounds>>

LeaveLoop ==
  /\ pc = "head" /\ (calls = <<>> \/ ~BudgetLeft)
  /\ Goto(IF InMainLoop THEN "after" ELSE "cycle")
  /\ UNCHANGED <<bgVars, convVars, userVars, doneCh, histVars>>

-----------------------------------------------------------------------------
(* One round of tool calls.  Calls other than agent calls run one by one;   *)
(* agent calls of the main loop run in parallel when those are done.        *)

Answer(i) == results' = Append(results, i) /\ Goto("calls")

CallFrame == <<site, tries, iteration, remaining, cycle, calls, joined, hasNode>>

UnknownTool(i) ==
  /\ pc = "calls" /\ IsDue(i) /\ calls[i] = "unknown"
  /\ Answer(i)
  /\ UNCHANGED <<bgVars, CallFrame, userVars, doneCh, histVars>>

\* EventApprovalReq goes through emit like any other event.
AskApproval(i) ==
  /\ pc = "calls" /\ IsDue(i) /\ calls[i] = "guarded" /\ InMainLoop
  /\ Offer(ApprovalReq(Request(i)))
  /\ Goto("approval")
  /\ UNCHANGED <<agentVars, inbox, parent, drainExpired, convVars, userVars,
                 doneCh, histVars>>

Approved(i) ==
  /\ pc = "approval" /\ IsDue(i)
  /\ approval # <<>> /\ Head(approval)
  /\ approval' = <<>>
  /\ Goto("exec")
  /\ UNCHANGED <<bgVars, convVars, cancelled, shown, granted, doneCh, histVars>>

\* RecordApproval failed: the call is answered with that error.
RecordingFails(i) ==
  /\ pc = "approval" /\ IsDue(i)
  /\ approval # <<>> /\ Head(approval)
  /\ approval' = <<>>
  /\ Answer(i)
  /\ UNCHANGED <<bgVars, CallFrame, cancelled, shown, granted, doneCh, histVars>>

\* Not the code: a denied call runs.
DeniedRuns(i) ==
  /\ pc = "approval" /\ IsDue(i)
  /\ approval # <<>> /\ ~Head(approval)
  /\ approval' = <<>>
  /\ Goto("exec")
  /\ UNCHANGED <<bgVars, convVars, cancelled, shown, granted, doneCh, histVars>>

Denied(i) ==
  /\ pc = "approval" /\ IsDue(i)
  /\ approval # <<>> /\ ~Head(approval)
  /\ approval' = <<>>
  /\ Answer(i)
  /\ UNCHANGED <<bgVars, CallFrame, cancelled, shown, granted, doneCh, histVars>>

\* Not the code: the wait sees the cancellation only when an answer comes.
CancelledAtAnswer ==
  /\ pc = "approval" /\ cancelled /\ approval # <<>>
  /\ Goto("done") /\ failed' = TRUE
  /\ UNCHANGED <<bgVars, convVars, userVars, doneCh, told, rounds>>

CancelledInApproval ==
  /\ pc = "approval" /\ cancelled
  /\ Goto("done") /\ failed' = TRUE
  /\ UNCHANGED <<bgVars, convVars, userVars, doneCh, told, rounds>>

\* The loop of backgroundCompletion runs every known tool at once.
StartTool(i) ==
  /\ pc = "calls" /\ IsDue(i)
  /\ calls[i] \in (IF InMainLoop THEN {"plain"} ELSE CallKind \ {"unknown"})
  /\ Goto("exec")
  /\ UNCHANGED <<bgVars, convVars, userVars, doneCh, histVars>>

\* Execute returns, with a result or an error; a "bg" call may also be refused.
ToolReturns(i) ==
  /\ pc = "exec" /\ IsDue(i)
  /\ Answer(i)
  /\ UNCHANGED <<bgVars, CallFrame, userVars, doneCh, histVars>>

ToolLaunches(i, b) ==
  /\ pc = "exec" /\ IsDue(i) /\ calls[i] = "bg"
  /\ ExecuteBackground(b)
  /\ Answer(i)
  /\ UNCHANGED <<CallFrame, userVars, doneCh, histVars>>

\* Run recovers a panic of the loop: an error event and EventDone without a node.
ToolPanics ==
  /\ pc = "exec"
  /\ Goto("done") /\ hasNode' = FALSE /\ failed' = TRUE
  /\ UNCHANGED <<bgVars, site, tries, iteration, remaining, cycle, calls, results,
                 joined, userVars, doneCh, told, rounds>>

AgentCallReturns(i) ==
  /\ pc = "calls" /\ Unanswered = {} /\ i \in AgentCalls \ joined
  /\ joined' = joined \cup {i}
  /\ UNCHANGED <<bgVars, pc, site, tries, iteration, remaining, cycle, calls,
                 results, hasNode, userVars, doneCh, histVars>>

AgentCallLaunches(i, b) ==
  /\ pc = "calls" /\ Unanswered = {} /\ i \in AgentCalls \ joined /\ calls[i] = "bg"
  /\ ExecuteBackground(b)
  /\ joined' = joined \cup {i}
  /\ UNCHANGED <<pc, site, tries, iteration, remaining, cycle, calls, results,
                 hasNode, userVars, doneCh, histVars>>

\* Not the code: the message is built without waiting for the agent calls.
SendResultsEarly ==
  /\ pc = "calls" /\ InMainLoop /\ Unanswered = {}
  /\ results' = results \o InOrder(joined)
  /\ told' = told \o inbox
  /\ inbox' = <<>>
  /\ CallModel("loop")
  /\ UNCHANGED <<agentVars, events, parent, drainExpired, iteration, remaining,
                 cycle, calls, joined, hasNode, userVars, doneCh, rounds, failed>>

\* Not the code: the queue keeps the results that were handed over.
SendResultsKeeping ==
  /\ pc = "calls" /\ InMainLoop /\ Unanswered = {} /\ joined = AgentCalls
  /\ results' = results \o InOrder(AgentCalls)
  /\ told' = told \o inbox
  /\ CallModel("loop")
  /\ UNCHANGED <<bgVars, iteration, remaining,
                 cycle, calls, joined, hasNode, userVars, doneCh, rounds, failed>>

\* All calls are answered: the results, in order, and the background results
\* that are in, go into the next message.
SendResults ==
  /\ pc = "calls" /\ InMainLoop /\ Unanswered = {} /\ joined = AgentCalls
  /\ results' = results \o InOrder(AgentCalls)
  /\ told' = told \o inbox
  /\ inbox' = <<>>
  /\ CallModel("loop")
  /\ UNCHANGED <<agentVars, events, parent, drainExpired, iteration, remaining,
                 cycle, calls, joined, hasNode, userVars, doneCh, rounds, failed>>

\* The loop of backgroundCompletion sends its results alone.
SendMiniResults ==
  /\ pc = "calls" /\ ~InMainLoop /\ Unanswered = {}
  /\ CallModel("mini")
  /\ UNCHANGED <<bgVars, iteration, remaining, cycle, calls, results, joined,
                 hasNode, userVars, doneCh, histVars>>

ToolStep ==
  \/ EnterLoop \/ CancelledAtHead \/ LeaveLoop
  \/ \E i \in DOMAIN calls :
       \/ UnknownTool(i) \/ AskApproval(i) \/ Approved(i) \/ RecordingFails(i)
       \/ Denied(i) \/ StartTool(i) \/ ToolReturns(i) \/ AgentCallReturns(i)
       \/ \E b \in BgAgent : ToolLaunches(i, b) \/ AgentCallLaunches(i, b)
  \/ CancelledInApproval \/ ToolPanics \/ SendResults \/ SendMiniResults

-----------------------------------------------------------------------------
(* After the tool loop.                                                     *)

AfterFrame == <<tries, iteration, calls, results, joined, hasNode>>

\* "the LLM chose to stop": no tool calls and budget left.
EnterBackgroundCompletion ==
  /\ pc = "after" /\ calls = <<>> /\ iteration < MaxIter
  /\ Goto("cycle") /\ site' = "resume"
  /\ remaining' = MaxIter - iteration /\ cycle' = 0
  /\ UNCHANGED <<bgVars, AfterFrame, userVars, doneCh, histVars>>

EnterExhaustion ==
  /\ pc = "after" /\ calls # <<>> /\ iteration >= MaxIter
  /\ Goto("wait") /\ site' = "final"
  /\ UNCHANGED <<bgVars, AfterFrame, remaining, cycle, userVars, doneCh, histVars>>

FinishLoop ==
  /\ pc = "after" /\ (calls = <<>> <=> iteration >= MaxIter)
  /\ Goto("done")
  /\ UNCHANGED <<bgVars, convVars, userVars, doneCh, histVars>>

\* Not the code: one cycle short.
CycleGoesOnShort ==
  cycle + 1 < MaxCycles /\ remaining > 0 /\ HasPendingBackgroundAgents

CycleGoesOn == cycle < MaxCycles /\ remaining > 0 /\ HasPendingBackgroundAgents

StartCycle ==
  /\ pc = "cycle" /\ CycleGoesOn
  /\ Goto("wait") /\ site' = "resume" /\ cycle' = cycle + 1
  /\ UNCHANGED <<bgVars, AfterFrame, remaining, userVars, doneCh, histVars>>

EndCycles ==
  /\ pc = "cycle" /\ ~CycleGoesOn
  /\ Goto("done")
  /\ UNCHANGED <<bgVars, convVars, userVars, doneCh, histVars>>

\* WaitForBackgroundAgentsContext: every agent's state is done ...
WaitSeesAllDone ==
  /\ pc = "wait" /\ ~HasPendingBackgroundAgents
  /\ Goto("collect")
  /\ UNCHANGED <<bgVars, convVars, userVars, doneCh, histVars>>

\* Not the code: a wait without a timeout.
WaitsForever ==
  /\ pc = "wait" /\ HasPendingBackgroundAgents /\ cancelled
  /\ Goto("collect") /\ failed' = TRUE
  /\ UNCHANGED <<bgVars, convVars, userVars, doneCh, told, rounds>>

\* ... or the context is done, or two minutes have passed.
WaitGivesUp ==
  /\ pc = "wait" /\ HasPendingBackgroundAgents
  /\ Goto("collect") /\ failed' = TRUE
  /\ UNCHANGED <<bgVars, convVars, userVars, doneCh, told, rounds>>

\* drainBackgroundResults after the wait; a cycle without results is the last.
NothingCollected ==
  /\ pc = "collect" /\ site = "resume" /\ inbox = <<>>
  /\ Goto("done")
  /\ UNCHANGED <<bgVars, convVars, userVars, doneCh, histVars>>

SendCollected ==
  /\ pc = "collect" /\ (site = "final" \/ inbox # <<>>)
  /\ told' = told \o inbox
  /\ inbox' = <<>>
  /\ CallModel(site)
  /\ UNCHANGED <<agentVars, events, parent, drainExpired, iteration, remaining,
                 cycle, calls, results, joined, hasNode, userVars, doneCh, rounds, failed>>

CompletionStep ==
  \/ EnterBackgroundCompletion \/ EnterExhaustion \/ FinishLoop
  \/ StartCycle \/ EndCycles \/ WaitSeesAllDone \/ WaitGivesUp
  \/ NothingCollected \/ SendCollected

-----------------------------------------------------------------------------
(* The end of the run.                                                      *)

\* emit(EventDone) waits for room in the channel, for at most five seconds.
EmitDone ==
  /\ pc = "done"
  /\ Offer(DoneEvent(hasNode))
  /\ Goto("signal")
  /\ UNCHANGED <<agentVars, inbox, parent, drainExpired, convVars, userVars, doneCh, histVars>>

\* Then it closes doneCh; runLoop returns and Run waits for the goroutines.
CloseDoneCh ==
  /\ pc = "signal"
  /\ doneCh' = TRUE
  /\ Goto("returned")
  /\ LoopReturns
  /\ UNCHANGED <<convVars, userVars, histVars>>

RunClosesEvents == CloseEvents /\ UNCHANGED loopVars

EndStep == EmitDone \/ CloseDoneCh \/ RunClosesEvents

-----------------------------------------------------------------------------
(* Around the loop: its ordinary events, its sub-agents, the TUI, the user. *)

\* Text deltas, tool events, usage and errors, any number of them while the loop,
\* or a foreground sub-agent it runs, is doing something.
EmitProgress ==
  /\ pc \notin {"approval", "wait", "done", "signal", "returned"}
  /\ HasRoom
  /\ ParentEmits
  /\ UNCHANGED loopVars

BackgroundStep(b) == AgentStep(b) /\ UNCHANGED loopVars

\* The TUI takes an event; a request for approval goes on display.
TakeEvent ==
  /\ Consume
  /\ shown' = IF Head(events).tag = "approval" THEN <<Head(events).id>> ELSE shown
  /\ UNCHANGED <<pc, convVars, cancelled, approval, granted, doneCh, histVars>>

\* Agent.Approve: the answer is dropped if one is waiting already.
UserAnswers(ok) ==
  /\ shown # <<>>
  /\ shown' = <<>>
  /\ approval' = IF approval = <<>> THEN <<ok>> ELSE approval
  /\ granted' = IF ok THEN granted \cup {Head(shown)} ELSE granted
  /\ UNCHANGED <<bgVars, pc, convVars, cancelled, doneCh, histVars>>

\* Agent.Cancel: the run's context while there is one, and every sub-agent.
Cancel ==
  /\ pc # "returned" \/ \E b \in BgAgent : Live(b)
  /\ CancelAll
  /\ cancelled' = (cancelled \/ parent = "working")
  /\ UNCHANGED <<pc, convVars, approval, shown, granted, doneCh, histVars>>

LoopStep == ModelStep \/ ToolStep \/ CompletionStep \/ EndStep

Next ==
  \/ LoopStep
  \/ EmitProgress
  \/ \E b \in BgAgent : BackgroundStep(b)
  \/ TakeEvent
  \/ \E ok \in BOOLEAN : UserAnswers(ok)
  \/ Cancel

Spec == Init /\ [][Next]_vars

(***************************************************************************)
(* Scheduling: the loop's goroutine takes the step it stands at; model     *)
(* calls, tools and waits end (inactivity timeout of the stream, timeouts  *)
(* of tools and of waits), only the wait for an approval has no timeout.   *)
(* The goroutines of sub-agents are scheduled as in BackgroundAgents.      *)
(***************************************************************************)
Fairness ==
  /\ WF_vars(LoopStep)
  /\ \A b \in BgAgent :
       /\ WF_vars(RunEnds(b) /\ UNCHANGED loopVars)
       /\ WF_vars((ForwardDone(b) \/ ForwardDoneFails(b)) /\ UNCHANGED loopVars)
       /\ WF_vars(StoreResult(b) /\ UNCHANGED loopVars)
       /\ WF_vars(InjectResult(b) /\ UNCHANGED loopVars)

FairSpec == Spec /\ Fairness

-----------------------------------------------------------------------------
(* Properties that hold *)

\* Every message that answers a reply's tool calls has one result for each call,
\* whatever mix of denials, unknown tools, errors and parallel agents produced
\* them: a provider rejects a conversation in which one is missing or doubled.
ToolResultsComplete ==
  pc = "llm" /\ site \in {"loop", "mini"} =>
    Len(results) = Len(calls) /\ ToSet(results) = DOMAIN calls

\* In the main tool loop a tool that needs approval runs only after the user
\* approved this very call, not another one of the turn.
ApprovedBeforeRun ==
  pc = "exec" /\ InMainLoop =>
    \A i \in DOMAIN calls : IsDue(i) /\ calls[i] = "guarded" => Request(i) \in granted

\* One budget covers the tool loop and every cycle of background completion:
\* the rounds of tool results never exceed maxToolIterations.
IterationBudget ==
  /\ rounds <= MaxIter
  /\ InMainLoop => rounds = iteration
  /\ site \in {"resume", "mini"} => rounds + remaining = MaxIter

\* A background result reaches the model at most once, and never before its
\* agent has finished.
ToldOnce ==
  /\ \A i, j \in DOMAIN (told \o inbox) : (told \o inbox)[i] = (told \o inbox)[j] => i = j
  /\ \A b \in ToSet(told) : phase[b] = "exited"

\* A run that meets no error or cancellation ends while a sub-agent still works
\* only when the iterations or the completion cycles are used up, and on unanswered
\* tool calls only after the final call or when completion used the iterations up.
OrderlyEnd ==
  pc = "done" /\ ~failed =>
    /\ HasPendingBackgroundAgents => rounds = MaxIter \/ cycle = MaxCycles
    /\ calls # <<>> => site = "final" \/ rounds = MaxIter

\* A cancelled run ends and its event channel is closed, wherever the loop was:
\* in a model call, waiting for an approval or for sub-agents.
CancelEndsRun == cancelled ~> parent = "closed"

\* Every run ends, or stands in the end at a request the user has to answer.
RunEndsOrAsks == <>[](parent = "closed" \/ pc = "approval")

\* Both of them: nothing keeps a run going for ever but a user who does not answer.
EveryRunSettles == CancelEndsRun /\ RunEndsOrAsks

-----------------------------------------------------------------------------
(* Statements of the code's comments that the code does not keep *)

\* "You will be notified when it completes" (executeBackground's answer): when
\* background completion ends with budget left, no finished result is left over.
NoResultLeftBehind ==
  [][EndCycles /\ ~failed /\ ~cancelled /\ remaining > 0 /\ cycle < MaxCycles
       => inbox = <<>>]_vars

\* "RequiresApproval returns true if this invocation needs user confirmation":
\* such a call does not run without it, in either tool loop.
ApprovedBeforeAnyRun ==
  pc = "exec" =>
    \A i \in DOMAIN calls : IsDue(i) /\ calls[i] = "guarded" => Request(i) \in granted
=============================================================================
