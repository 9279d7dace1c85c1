-------------------------- MODULE BackgroundAgents --------------------------
(***************************************************************************)
(* The background sub-agents of SubAgentTool (subagent.go) and what they   *)
(* share with the agent that spawned them: its bounded event channel, its  *)
(* queue of finished results and the goroutine count it waits for before   *)
(* it closes the channel.  The parent is left free here: it emits events,  *)
(* takes results and returns whenever it likes.  AgentLoop replaces it by  *)
(* the agent loop of the code.                                             *)
(***************************************************************************)
EXTENDS Naturals, Sequences, FiniteSets, SequencesExt

CONSTANTS
  BgAgent,    \* identities available to background sub-agents
  Asking,     \* those among them that may call a tool that needs approval
  EventCap    \* capacity of the parent's event channel (4096 in the code)

ASSUME BgAssumption ==
  /\ Asking \subseteq BgAgent
  /\ EventCap \in Nat \ {0}

VARIABLES
  phase,      \* where the goroutine of each background agent stands
  stopped,    \* its context has been cancelled
  inbox,      \* Agent.bgCompletions: results nobody has taken yet
  events,     \* contents of the parent's event channel
  parent,     \* "working" in runLoop, "draining" in DrainGoroutines, "closed"
  delivered,  \* history: agents whose "done" status entered the channel
  gaveUp,     \* history: agents whose "done" status timed out or found it closed
  drainExpired \* history: DrainGoroutines returned on its timeout

agentVars == <<phase, stopped, delivered, gaveUp>>
bgVars == <<phase, stopped, inbox, events, parent, delivered, gaveUp, drainExpired>>

Phase == {"unborn", "running", "blocked", "drained", "reported", "done", "exited"}

Info == [tag |-> "info"]
SubDone(b) == [tag |-> "subdone", id |-> b]

\* The events of this module; a parent may put others into the channel.
BgEvent == {Info} \cup {SubDone(b) : b \in BgAgent}

\* Not the code: the goroutine is counted until its sub-agent ends.
LiveWhileRunning(b) == phase[b] \in {"running", "blocked"}

\* bgWg counts the goroutine from executeBackground until runBackground returns.
Live(b) == phase[b] \notin {"unborn", "exited"}

\* Registered in bgAgents and state.done is still false.
Pending(b) == phase[b] \in {"running", "blocked", "drained", "reported"}

HasPendingBackgroundAgents == \E b \in BgAgent : Pending(b)

BgTypeOK ==
  /\ phase \in [BgAgent -> Phase]
  /\ stopped \in [BgAgent -> BOOLEAN]
  /\ inbox \in Seq(BgAgent)
  /\ events \in Seq(BgEvent) /\ Len(events) <= EventCap
  /\ parent \in {"working", "draining", "closed"}
  /\ delivered \subseteq BgAgent
  /\ gaveUp \subseteq BgAgent
  /\ drainExpired \in BOOLEAN

BgInit ==
  /\ phase = [b \in BgAgent |-> "unborn"]
  /\ stopped = [b \in BgAgent |-> FALSE]
  /\ inbox = <<>>
  /\ events = <<>>
  /\ parent = "working"
  /\ delivered = {}
  /\ gaveUp = {}
  /\ drainExpired = FALSE

-----------------------------------------------------------------------------
(* Sends.  A send on the closed channel panics and the panic is recovered:  *)
(* the event is lost and the goroutine goes on.                             *)

HasRoom == Len(events) < EventCap

\* Not the code: a send that does not look at the capacity.
OfferUnbounded(e) ==
  events' = IF parent # "closed" THEN Append(events, e) ELSE events

\* forward and emit: a non-blocking send drops the event when the channel is full.
Offer(e) ==
  events' = IF parent # "closed" /\ HasRoom THEN Append(events, e) ELSE events

\* One agent moves from one phase to another.
Moves(b, from, to) ==
  /\ phase[b] = from
  /\ phase' = [phase EXCEPT ![b] = to]

-----------------------------------------------------------------------------
(* The steps of a background agent, in the order of its life.               *)

\* executeBackground: a detached context, an entry in bgAgents, a start event,
\* bgWg.Add(1) and the goroutine.
ExecuteBackground(b) ==
  /\ Moves(b, "unborn", "running")
  /\ Offer(Info)
  /\ UNCHANGED <<stopped, inbox, parent, delivered, gaveUp, drainExpired>>

\* Text deltas, tool names and usage of the running agent, forwarded by the
\* drain loop; none of them may hold the agent up for ever.
ForwardProgress(b) ==
  /\ phase[b] = "running"
  /\ parent # "closed" /\ HasRoom
  /\ Offer(Info)
  /\ UNCHANGED <<agentVars, inbox, parent, drainExpired>>

\* The sub-agent's loop asks for approval and waits on its own approval
\* channel; its drain loop has no case for the request.
AwaitApproval(b) ==
  /\ b \in Asking
  /\ ~stopped[b]
  /\ Moves(b, "running", "blocked")
  /\ UNCHANGED <<stopped, inbox, events, parent, delivered, gaveUp, drainExpired>>

\* Not the code: an agent that waits for an approval does not see its context.
RunEndsUnlessBlocked(b) ==
  /\ Moves(b, "running", "drained")
  /\ UNCHANGED <<stopped, inbox, events, parent, delivered, gaveUp, drainExpired>>

\* EventDone or the closed event channel ends drainSubAgentEvents, after the
\* sub-agent has finished or its context was cancelled; the synthesis call of an
\* agent over its turn budget is made before the next step.
RunEnds(b) ==
  /\ \/ Moves(b, "running", "drained")
     \/ stopped[b] /\ Moves(b, "blocked", "drained")
  /\ UNCHANGED <<stopped, inbox, events, parent, delivered, gaveUp, drainExpired>>

\* Not the code: a delivery that is tried again after it succeeded.
ForwardDoneAgain(b) ==
  /\ phase[b] = "drained"
  /\ parent # "closed"
  /\ HasRoom
  /\ events' = Append(events, SubDone(b))
  /\ delivered' = delivered \cup {b}
  /\ UNCHANGED <<phase, stopped, inbox, parent, gaveUp, drainExpired>>

\* forwardBlockingWithTimeout delivers the "done" status.
ForwardDone(b) ==
  /\ Moves(b, "drained", "reported")
  /\ parent # "closed"
  /\ HasRoom
  /\ events' = Append(events, SubDone(b))
  /\ delivered' = delivered \cup {b}
  /\ UNCHANGED <<stopped, inbox, parent, gaveUp, drainExpired>>

\* Not the code: a delivery without a timeout.
ForwardDoneFailsOnClose(b) ==
  /\ Moves(b, "drained", "reported")
  /\ parent = "closed"
  /\ gaveUp' = gaveUp \cup {b}
  /\ UNCHANGED <<stopped, inbox, events, parent, delivered, drainExpired>>

\* ... or gives up: the channel stayed full for 30s, or is closed.
ForwardDoneFails(b) ==
  /\ Moves(b, "drained", "reported")
  /\ ~HasRoom \/ parent = "closed"
  /\ gaveUp' = gaveUp \cup {b}
  /\ UNCHANGED <<stopped, inbox, events, parent, delivered, drainExpired>>

\* buildResult, then done and result are set under the state's lock.
StoreResult(b) ==
  /\ Moves(b, "reported", "done")
  /\ UNCHANGED <<stopped, inbox, events, parent, delivered, gaveUp, drainExpired>>

\* onBgComplete appends the result to the parent's queue; the goroutine returns
\* and its deferred calls cancel the context and release bgWg.
InjectResult(b) ==
  /\ Moves(b, "done", "exited")
  /\ inbox' = Append(inbox, b)
  /\ stopped' = [stopped EXCEPT ![b] = TRUE]
  /\ UNCHANGED <<events, parent, delivered, gaveUp, drainExpired>>

\* CancelAll calls the cancel function of every registered agent.
CancelAll ==
  /\ stopped' = [b \in BgAgent |-> stopped[b] \/ phase[b] # "unborn"]
  /\ UNCHANGED <<phase, inbox, events, parent, delivered, gaveUp, drainExpired>>

AgentStep(b) ==
  \/ ForwardProgress(b)
  \/ AwaitApproval(b)
  \/ RunEnds(b)
  \/ ForwardDone(b)
  \/ ForwardDoneFails(b)
  \/ StoreResult(b)
  \/ InjectResult(b)

-----------------------------------------------------------------------------
(* The parent: what Run does around runLoop, and an unconstrained runLoop.  *)

\* emit of an event other than EventDone.
ParentEmits ==
  /\ parent = "working"
  /\ Offer(Info)
  /\ UNCHANGED <<agentVars, inbox, parent, drainExpired>>

ParentLaunches(b) == parent = "working" /\ ExecuteBackground(b)

\* Not the code: only the oldest result is handed over.
TakeOneResult ==
  /\ parent = "working"
  /\ inbox # <<>>
  /\ inbox' = Tail(inbox)
  /\ UNCHANGED <<agentVars, events, parent, drainExpired>>

\* drainBackgroundResults hands over the whole queue.
TakeResults ==
  /\ parent = "working"
  /\ inbox # <<>>
  /\ inbox' = <<>>
  /\ UNCHANGED <<agentVars, events, parent, drainExpired>>

\* runLoop returns and Run's first deferred call waits in DrainGoroutines.
LoopReturns ==
  /\ parent = "working"
  /\ parent' = "draining"
  /\ UNCHANGED <<agentVars, inbox, events, drainExpired>>

\* DrainGoroutines returns because every goroutine has exited ...
GoroutinesDrained == \A b \in BgAgent : ~Live(b)

\* ... or after 60s, and the event channel is closed.
CloseEvents ==
  /\ parent = "draining"
  /\ parent' = "closed"
  /\ drainExpired' = ~GoroutinesDrained
  /\ UNCHANGED <<agentVars, inbox, events>>

\* The TUI receives the next event.
Consume ==
  /\ events # <<>>
  /\ events' = Tail(events)
  /\ UNCHANGED <<agentVars, inbox, parent, drainExpired>>

BgNext ==
  \/ \E b \in BgAgent : ParentLaunches(b) \/ AgentStep(b)
  \/ CancelAll
  \/ ParentEmits
  \/ TakeResults
  \/ LoopReturns
  \/ CloseEvents
  \/ Consume

BgSpec == BgInit /\ [][BgNext]_bgVars

(***************************************************************************)
(* Scheduling: a goroutine that can run does.  The language model and the  *)
(* tools answer or time out (stream inactivity timeout, tool timeouts), so *)
(* a run that is not waiting for approval ends.  The two timeouts of       *)
(* ForwardDone make its failure a step that is always possible in the end. *)
(* Nothing is assumed of the parent, of the TUI or of a user who cancels.  *)
(***************************************************************************)
AgentFairness(b) ==
  /\ WF_bgVars(RunEnds(b))
  /\ WF_bgVars(ForwardDone(b) \/ ForwardDoneFails(b))
  /\ WF_bgVars(StoreResult(b))
  /\ WF_bgVars(InjectResult(b))

BgFairSpec == BgSpec /\ \A b \in BgAgent : AgentFairness(b)

-----------------------------------------------------------------------------
(* Properties *)

\* The result queue behaves as the abstract mailbox: one result per agent, taken
\* at most once, and a parent that takes gets all there is (InjectBackgroundResult
\* and drainBackgroundResults under bgMu).
MailboxState ==
  [b \in BgAgent |->
     IF phase[b] = "unborn" THEN "idle"
     ELSE IF phase[b] # "exited" THEN "working"
     ELSE IF b \in ToSet(inbox) THEN "ready" ELSE "taken"]

Mailbox == INSTANCE ResultMailbox WITH Task <- BgAgent, state <- MailboxState

MailboxSpec == Mailbox!Spec

\* "Before closing the channel, wait so that done events are not lost" (Run's
\* deferred call): once the channel is closed, the status of every agent that was
\* started went into it, unless a send or the wait itself ran into its timeout.
DoneStatusDelivered ==
  parent = "closed" /\ ~drainExpired =>
    \A b \in BgAgent : phase[b] # "unborn" => b \in delivered \cup gaveUp

\* An agent's "done" status enters the channel at most once, and never together
\* with a report that it could not be sent.
ReportedOnce ==
  /\ delivered \cap gaveUp = {}
  /\ \A b \in BgAgent :
       /\ \A i, j \in DOMAIN events :
            events[i] = SubDone(b) /\ events[j] = SubDone(b) => i = j
       /\ b \in delivered \cup gaveUp <=> phase[b] \in {"reported", "done", "exited"}

\* CancelAll reaches an agent wherever it is, even one that waits for an approval:
\* its goroutine ends (ESC-twice interrupt, BackgroundCanceller).
CancelledAgentsExit ==
  \A b \in BgAgent : (stopped[b] ~> phase[b] = "exited")

\* An agent that was started ends, or waits for an approval until it is cancelled.
StartedAgentsEnd ==
  \A b \in BgAgent : (phase[b] = "running" ~> phase[b] \in {"exited", "blocked"})

\* Sub-agents inherit the command approval behaviour of naked mode
\* (prompts/naked/tools/agent.md): a sub-agent that asks for approval is answered.
SubAgentApprovalAnswered ==
  \A b \in BgAgent : (phase[b] = "blocked" ~> phase[b] # "blocked")

\* Both of them: no agent outlives its run or its cancellation for ever.
AgentsEnd == CancelledAgentsExit /\ StartedAgentsEnd
=============================================================================
