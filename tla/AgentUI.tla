------------------------------ MODULE AgentUI ------------------------------
(***************************************************************************)
(* The application's event loop (main.go Run) around one agent after the   *)
(* other: starting a turn, draining the agent's event channel with its     *)
(* three ways to learn that the turn is over (EventDone, doneCh, the       *)
(* closed channel), approvals, the double taps that cancel or quit, and    *)
(* /clear.  The agent is what AgentLoop lets the application see of it.    *)
(* Only the current agent's channels matter: startAgent replaces them.     *)
(***************************************************************************)
EXTENDS Naturals, Sequences, SequencesExt

CONSTANTS
  MaxTurns,   \* bound: turns a user starts
  MaxAsks,    \* bound: requests for approval in a turn
  MaxDrain,   \* events drainAgentEvents handles in one go (50 in the code)
  EventCap    \* capacity of the event channel

ASSUME UIAssumption ==
  /\ MaxTurns \in Nat /\ MaxAsks \in Nat
  /\ MaxDrain \in Nat \ {0} /\ EventCap \in Nat \ {0}

VARIABLES
  turn,       \* turns started; the current agent belongs to the last one
  agent,      \* where its goroutine stands
  asks,       \* requests it has made
  events,     \* its event channel
  approval,   \* its approval channel, of one answer
  doneCh,     \* its backup signal is closed
  cancelled,  \* Agent.Cancel was called on it
  sub,        \* its background sub-agent: "none", "live", "over"
  parentNode, \* the node it started from
  running,    \* App.agentRunning
  draining,   \* events drainAgentEvents may still handle; 0 outside it
  awaiting,   \* App.awaitingApproval, with the request on display
  cancelSent, \* App.cancelSent
  hint,       \* App.ctrlCHint, within the two seconds of a double tap
  escHint,    \* App.escHint, likewise
  node,       \* App.agentNodeID: the turns of the conversation it ends
  text,       \* App.streamingText is not empty
  active,     \* hasActiveSubAgents
  quit,       \* the loop has returned
  cleared,    \* history: /clear was given and no turn was started since
  doneSent    \* history: nodes of the EventDone that entered the channel

agentVars == <<turn, agent, asks, approval, doneCh, cancelled, sub, parentNode, doneSent>>
uiVars == <<running, draining, awaiting, cancelSent, hint, escHint, node, text, active,
            quit, cleared>>
vars == <<agentVars, events, uiVars>>

Node == Seq(1..MaxTurns)
NewNode == Append(parentNode, turn)
Request == <<turn, asks>>

Text == [tag |-> "text"]
SubActive == [tag |-> "subactive"]
SubDone == [tag |-> "subdone"]
ApprovalReq(r) == [tag |-> "approval", req |-> r]
Compacted(n) == [tag |-> "compacted", node |-> n]
Done(n) == [tag |-> "done", node |-> n]

TypeOK ==
  /\ turn \in 0..MaxTurns /\ asks \in 0..MaxAsks
  /\ agent \in {"none", "working", "asking", "done", "signal", "draining", "closed"}
  /\ Len(events) <= EventCap /\ Len(approval) <= 1
  /\ sub \in {"none", "live", "over"}
  /\ draining \in 0..MaxDrain
  /\ Len(awaiting) <= 1
  /\ parentNode \in Node /\ node \in Node
  /\ {doneCh, cancelled, running, cancelSent, hint, escHint, text, active, quit, cleared}
       \subseteq BOOLEAN
  /\ Len(doneSent) <= 1

Init ==
  /\ turn = 0 /\ agent = "none" /\ asks = 0
  /\ events = <<>> /\ approval = <<>>
  /\ doneCh = FALSE /\ cancelled = FALSE /\ sub = "none"
  /\ parentNode = <<>> /\ node = <<>> /\ doneSent = <<>>
  /\ running = FALSE /\ draining = 0 /\ awaiting = <<>>
  /\ cancelSent = FALSE /\ hint = FALSE /\ escHint = FALSE
  /\ text = FALSE /\ active = FALSE /\ quit = FALSE /\ cleared = FALSE

-----------------------------------------------------------------------------
(* The agent, as the application sees it.                                   *)

HasRoom == Len(events) < EventCap

\* Not the code: a send that does not look at the capacity.
OfferUnbounded(e) == events' = Append(events, e)

\* emit and forward: an event that finds no room is dropped.
Offer(e) == events' = IF HasRoom THEN Append(events, e) ELSE events

AgentStreams ==
  /\ agent = "working"
  /\ Offer(Text)
  /\ UNCHANGED <<agentVars, uiVars>>

AgentCompacts ==
  /\ agent = "working"
  /\ Offer(Compacted(NewNode))
  /\ UNCHANGED <<agentVars, uiVars>>

AgentAsks ==
  /\ agent = "working" /\ asks < MaxAsks
  /\ agent' = "asking" /\ asks' = asks + 1
  /\ Offer(ApprovalReq(<<turn, asks'>>))
  /\ UNCHANGED <<turn, approval, doneCh, cancelled, sub, parentNode, doneSent, uiVars>>

AgentGetsAnswer ==
  /\ agent = "asking" /\ approval # <<>>
  /\ agent' = "working" /\ approval' = <<>>
  /\ UNCHANGED <<turn, asks, events, doneCh, cancelled, sub, parentNode, doneSent, uiVars>>

\* runLoop reaches its EventDone; a wait for approval ends this way on cancel.
AgentFinishes ==
  /\ agent = "working" \/ (agent = "asking" /\ cancelled)
  /\ agent' = "done"
  /\ UNCHANGED <<turn, asks, events, approval, doneCh, cancelled, sub, parentNode,
                 doneSent, uiVars>>

\* emit(EventDone): into the channel, or dropped after five seconds without
\* room.  The node is empty when the run ended in an error.
AgentSendsDone(n) ==
  /\ agent = "done"
  /\ agent' = "signal"
  /\ Offer(Done(n))
  /\ doneSent' = IF HasRoom THEN <<n>> ELSE <<>>
  /\ UNCHANGED <<turn, asks, approval, doneCh, cancelled, sub, parentNode, uiVars>>

AgentSignals ==
  /\ agent = "signal"
  /\ agent' = "draining" /\ doneCh' = TRUE
  /\ UNCHANGED <<turn, asks, events, approval, cancelled, sub, parentNode, doneSent, uiVars>>

\* DrainGoroutines returns, at the latest after 60s, and the channel is closed.
AgentCloses ==
  /\ agent = "draining"
  /\ agent' = "closed"
  /\ UNCHANGED <<turn, asks, events, approval, doneCh, cancelled, sub, parentNode,
                 doneSent, uiVars>>

SubStarts ==
  /\ agent = "working" /\ sub = "none"
  /\ sub' = "live"
  /\ Offer(SubActive)
  /\ UNCHANGED <<turn, agent, asks, approval, doneCh, cancelled, parentNode, doneSent, uiVars>>

SubReports ==
  /\ sub = "live" /\ agent # "closed"
  /\ Offer(SubActive)
  /\ UNCHANGED <<agentVars, uiVars>>

SubEnds ==
  /\ sub = "live"
  /\ sub' = "over"
  /\ IF agent = "closed" THEN UNCHANGED events ELSE Offer(SubDone)
  /\ UNCHANGED <<turn, agent, asks, approval, doneCh, cancelled, parentNode, doneSent, uiVars>>

AgentStep ==
  \/ AgentGetsAnswer \/ AgentFinishes \/ (\E n \in {<<>>, NewNode} : AgentSendsDone(n))
  \/ AgentSignals \/ AgentCloses

-----------------------------------------------------------------------------
(* Draining the agent's events.                                             *)

Watching == running \/ active

\* finalizeAgentTurn: nothing when the turn was finalized before.
Finalize(n) ==
  IF running
    THEN /\ running' = FALSE /\ cancelSent' = FALSE
         /\ node' = IF n # <<>> THEN n ELSE node
         /\ text' = FALSE
    ELSE UNCHANGED <<running, cancelSent, node, text>>

\* The loop's select took something from the event channel or from resultCh (the
\* ticker's messages, while a turn runs): drainAgentEvents is called.
StartDrain ==
  /\ ~quit /\ draining = 0 /\ Watching
  /\ events # <<>> \/ doneCh
  /\ draining' = MaxDrain
  /\ UNCHANGED <<agentVars, events, running, awaiting, cancelSent, hint, escHint, node,
                 text, active, quit, cleared>>

TakeEvent(tag) ==
  /\ draining > 0 /\ events # <<>> /\ Head(events).tag = tag
  /\ events' = Tail(events)
  /\ draining' = draining - 1
  /\ UNCHANGED <<agentVars, hint, escHint, quit, cleared>>

\* EventTextDelta: text is dropped while a sub-agent is on display as running; else
\* it is kept up to its last line break, which goes to the messages.
OnText ==
  /\ TakeEvent("text")
  /\ text' \in (IF active THEN {text} ELSE BOOLEAN)
  /\ UNCHANGED <<running, awaiting, cancelSent, node, active>>

OnApprovalReq ==
  /\ TakeEvent("approval")
  /\ awaiting' = <<Head(events).req>>
  /\ UNCHANGED <<running, cancelSent, node, text, active>>

OnCompacted ==
  /\ TakeEvent("compacted")
  /\ node' = Head(events).node
  /\ UNCHANGED <<running, awaiting, cancelSent, text, active>>

OnDone ==
  /\ TakeEvent("done")
  /\ Finalize(Head(events).node)
  /\ UNCHANGED <<awaiting, active>>

\* getOrCreateSubAgent: a status of an unknown sub-agent puts it on display.
OnSubActive ==
  /\ TakeEvent("subactive")
  /\ active' = TRUE
  /\ UNCHANGED <<running, awaiting, cancelSent, node, text>>

\* The last active sub-agent is done, or an earlier turn's is still on display.
OnSubDone ==
  /\ TakeEvent("subdone")
  /\ active' \in (IF turn > 1 THEN {FALSE, active} ELSE {FALSE})
  /\ UNCHANGED <<running, awaiting, cancelSent, node, text>>

\* Not the code: the backup signal is looked at before the channel is empty.
DrainEmptyEarly ==
  /\ draining > 0 /\ (events = <<>> \/ doneCh) /\ agent # "closed"
  /\ draining' = 0
  /\ IF doneCh THEN Finalize(<<>>) ELSE UNCHANGED <<running, cancelSent, node, text>>
  /\ UNCHANGED <<agentVars, events, awaiting, hint, escHint, active, quit, cleared>>

\* The channel is empty: if doneCh is closed, EventDone is not coming any more.
DrainEmpty ==
  /\ draining > 0 /\ events = <<>> /\ agent # "closed"
  /\ draining' = 0
  /\ IF doneCh THEN Finalize(<<>>) ELSE UNCHANGED <<running, cancelSent, node, text>>
  /\ UNCHANGED <<agentVars, events, awaiting, hint, escHint, active, quit, cleared>>

\* Not the code: a closed channel is taken for an empty one.
DrainClosedIgnored ==
  /\ draining > 0 /\ events = <<>> /\ agent = "closed"
  /\ draining' = 0
  /\ UNCHANGED <<agentVars, events, running, awaiting, cancelSent, hint, escHint, node,
                 text, active, quit, cleared>>

\* The channel is closed: the turn is over, sub-agents still on display are done.
DrainClosed ==
  /\ draining > 0 /\ events = <<>> /\ agent = "closed"
  /\ draining' = 0
  /\ running' = FALSE /\ cancelSent' = FALSE /\ active' = FALSE
  /\ UNCHANGED <<agentVars, events, awaiting, hint, escHint, node, text, quit, cleared>>

\* After the turn, the loop's own select sees the closed channel first.
SelectClosed ==
  /\ ~quit /\ draining = 0 /\ ~running /\ active
  /\ events = <<>> /\ agent = "closed"
  /\ active' = FALSE
  /\ UNCHANGED <<agentVars, events, running, draining, awaiting, cancelSent, hint, escHint,
                 node, text, quit, cleared>>

DrainStep ==
  \/ OnText \/ OnApprovalReq \/ OnCompacted \/ OnDone \/ OnSubActive \/ OnSubDone
  \/ DrainEmpty \/ DrainClosed

-----------------------------------------------------------------------------
(* The user.  Keys are handled between two drains.                          *)

AtInput == ~quit /\ draining = 0

\* Not the code: the approval channel outlives the agent it was made for.
SubmitSharesApproval ==
  /\ AtInput /\ ~running /\ awaiting = <<>> /\ turn < MaxTurns
  /\ turn' = turn + 1 /\ agent' = "working" /\ asks' = 0
  /\ events' = <<>> /\ doneCh' = FALSE /\ cancelled' = FALSE
  /\ sub' = "none" /\ parentNode' = node /\ doneSent' = <<>>
  /\ running' = TRUE /\ text' = FALSE
  /\ hint' = FALSE /\ escHint' = FALSE /\ cleared' = FALSE
  /\ UNCHANGED <<approval, draining, awaiting, cancelSent, node, active, quit>>

\* Not the code: the turn after the first starts from an empty node.
SubmitAnew ==
  /\ AtInput /\ ~running /\ awaiting = <<>> /\ turn < MaxTurns
  /\ turn' = turn + 1 /\ agent' = "working" /\ asks' = 0
  /\ events' = <<>> /\ approval' = <<>> /\ doneCh' = FALSE /\ cancelled' = FALSE
  /\ sub' = "none" /\ parentNode' = <<>> /\ doneSent' = <<>>
  /\ running' = TRUE /\ text' = FALSE
  /\ hint' = FALSE /\ escHint' = FALSE /\ cleared' = FALSE
  /\ UNCHANGED <<draining, awaiting, cancelSent, node, active, quit>>

\* handleEnter and startAgent: a new agent with channels of its own.  Nothing is
\* done to cancelSent, awaitingApproval or the sub-agents on display.
Submit ==
  /\ AtInput /\ ~running /\ awaiting = <<>> /\ turn < MaxTurns
  /\ turn' = turn + 1 /\ agent' = "working" /\ asks' = 0
  /\ events' = <<>> /\ approval' = <<>> /\ doneCh' = FALSE /\ cancelled' = FALSE
  /\ sub' = "none" /\ parentNode' = node /\ doneSent' = <<>>
  /\ running' = TRUE /\ text' = FALSE
  /\ hint' = FALSE /\ escHint' = FALSE /\ cleared' = FALSE
  /\ UNCHANGED <<draining, awaiting, cancelSent, node, active, quit>>

\* applyApprovalDecision and Agent.Approve; y, n or Enter while awaiting.
Decide ==
  /\ awaiting' = <<>>
  /\ approval' = IF approval = <<>> THEN awaiting ELSE approval

AnswerApproval ==
  /\ AtInput /\ awaiting # <<>>
  /\ Decide
  /\ hint' = FALSE /\ escHint' = FALSE
  /\ UNCHANGED <<turn, agent, asks, doneCh, cancelled, sub, parentNode, doneSent, events,
                 running, draining, cancelSent, node, text, active, quit, cleared>>

\* requestAgentCancel
RequestCancel == cancelled' = (agent # "none") /\ cancelSent' = TRUE

KeyFrame == <<turn, agent, asks, doneCh, sub, parentNode, doneSent, events, running,
              draining, node, text, active, cleared>>

\* Ctrl+C with work to cancel: a hint, then the cancel, then the forced quit.
CtrlCAtWork ==
  /\ AtInput /\ Watching
  /\ hint' = TRUE
  /\ quit' = cancelSent
  /\ IF ~cancelSent /\ hint THEN RequestCancel ELSE UNCHANGED <<cancelled, cancelSent>>
  /\ UNCHANGED <<KeyFrame, approval, awaiting, escHint>>

CtrlCWhenIdle ==
  /\ AtInput /\ ~Watching
  /\ hint' = TRUE
  /\ quit' = hint
  /\ UNCHANGED <<KeyFrame, approval, awaiting, cancelled, cancelSent, escHint>>

CtrlD ==
  /\ AtInput
  /\ quit' = TRUE
  /\ UNCHANGED <<KeyFrame, approval, awaiting, cancelled, cancelSent, hint, escHint>>

\* ESC denies the request on display, then counts as a tap if there is work.
Escape ==
  /\ AtInput
  /\ IF awaiting # <<>> THEN Decide ELSE UNCHANGED <<approval, awaiting>>
  /\ IF Watching
       THEN /\ escHint' = TRUE
            /\ quit' = cancelSent
            /\ IF ~cancelSent /\ escHint
                 THEN RequestCancel ELSE UNCHANGED <<cancelled, cancelSent>>
       ELSE UNCHANGED <<escHint, quit, cancelled, cancelSent>>
  /\ UNCHANGED <<KeyFrame, hint>>

\* Two seconds pass, or another key is pressed.
HintExpires ==
  /\ ~quit
  /\ hint \/ escHint
  /\ hint' = FALSE /\ escHint' = FALSE
  /\ UNCHANGED <<agentVars, events, running, draining, awaiting, cancelSent, node, text,
                 active, quit, cleared>>

\* /clear cancels what runs and forgets the conversation.
Clear ==
  /\ AtInput /\ awaiting = <<>>
  /\ IF Watching THEN RequestCancel ELSE UNCHANGED <<cancelled, cancelSent>>
  /\ node' = <<>> /\ text' = FALSE /\ active' = FALSE
  /\ hint' = FALSE /\ escHint' = FALSE /\ cleared' = TRUE
  /\ UNCHANGED <<turn, agent, asks, events, approval, doneCh, sub, parentNode, doneSent,
                 running, draining, awaiting, quit>>

UserStep ==
  \/ Submit \/ AnswerApproval \/ CtrlCAtWork \/ CtrlCWhenIdle \/ CtrlD \/ Escape
  \/ HintExpires \/ Clear

Next ==
  \/ AgentStreams \/ AgentCompacts \/ AgentAsks \/ AgentStep
  \/ SubStarts \/ SubReports \/ SubEnds
  \/ StartDrain \/ DrainStep \/ SelectClosed
  \/ UserStep

Spec == Init /\ [][Next]_vars

(***************************************************************************)
(* Scheduling: the loop drains when there is something to drain (events,   *)
(* or the 50ms ticker while a turn runs), and an agent whose run is over   *)
(* goes through its deferred calls.  Nothing is assumed of the user or of  *)
(* the run itself.                                                         *)
(***************************************************************************)
FairSpec ==
  /\ Spec
  /\ WF_vars(StartDrain) /\ WF_vars(DrainStep) /\ WF_vars(SelectClosed)
  /\ WF_vars(\E n \in {<<>>, NewNode} : AgentSendsDone(n))
  /\ WF_vars(AgentSignals) /\ WF_vars(AgentCloses)

-----------------------------------------------------------------------------
(* Properties that hold *)

\* The backup signal and the closed channel never win over an EventDone that
\* entered the channel: a turn that was not cleared ends on the node its agent
\* reported (emit sends before it closes doneCh, the drain empties the channel).
ReportedNodeAdopted ==
  agent # "none" /\ ~running /\ ~cleared /\ doneSent # <<>> /\ Head(doneSent) # <<>>
    => node = Head(doneSent)

\* An answer is taken by the request it was given for: not by a later request of
\* the turn, nor by one of the next turn's agent.
AnswerFitsRequest ==
  agent = "asking" /\ approval # <<>> => Head(approval) = Request

\* Turns enter the conversation in order, and no step but /clear drops an earlier
\* one: agentNodeID only moves to a node that continues the present one.
ConversationKept ==
  [][node' # node => Clear \/ IsStrictPrefix(node, node')]_vars

\* The application learns that a turn is over, even if EventDone was dropped and
\* whether or not its sub-agents have ended.
TurnEndIsSeen == doneCh /\ running ~> ~running \/ quit

\* No sub-agent stays on display as running for ever: once the run's channel is
\* closed its spinners stop.
SpinnersStop == agent = "closed" /\ active ~> ~active \/ quit \/ agent # "closed"

\* Both of them: what the application shows as running is in the end shown as over.
TurnsSettle == TurnEndIsSeen /\ SpinnersStop

-----------------------------------------------------------------------------
(* Statements of the code's comments that the code does not keep *)

\* finalizeAgentTurn "performs all state transitions needed when the agent finishes
\* a turn": no request is on display when no turn runs.
NoRequestAfterTurn == ~running /\ draining = 0 => awaiting = <<>>

\* /clear is to "interrupt any in-flight agent work before wiping the conversation":
\* the wiped conversation does not come back before the next turn.
ClearedStaysCleared == cleared => node = <<>>

\* Completed sub-agents persist "until the next agent turn starts (cleared in
\* startAgent)": a new turn starts without sub-agents of an earlier one.
SubAgentsCleared == [][Submit => ~active']_vars
=============================================================================
