------------------------------ MODULE TurnBudget ------------------------------
(***************************************************************************)
(* One sub-agent call (subagent.go Execute and runBackground): the agent   *)
(* loop of the sub-agent on one side, on the other the drain loop that     *)
(* reads its events, counts its turns, cancels it when the budget is spent *)
(* and asks for a synthesis in its place (subagent_drain.go).  The two     *)
(* share a channel that drops events when it is full.  Approvals, which    *)
(* stop a sub-agent for good, are in BackgroundAgents; agents a sub-agent  *)
(* starts in its turn are left out.                                        *)
(***************************************************************************)
EXTENDS Naturals, Sequences

CONSTANTS
  MaxTurns,   \* turn budget of the mode
  Buffer,     \* subAgentIterationBuffer: 3
  MaxCalls,   \* bound: tool calls in one reply
  EventCap    \* capacity of the sub-agent's event channel

ASSUME BudgetAssumption ==
  /\ MaxTurns \in Nat \ {0} /\ Buffer \in Nat
  /\ MaxCalls \in Nat \ {0} /\ EventCap \in Nat \ {0}

MaxIter == MaxTurns + Buffer

VARIABLES
  pc,         \* where the sub-agent's runLoop stands
  node,       \* its nodeID: replies are numbered, 0 is the empty id
  replies,    \* replies that were saved as nodes
  left,       \* calls of the last reply still to be started
  iteration,  \* iterations of its tool loop
  rounds,     \* history: replies whose calls were started
  cancelled,  \* its context is done
  doneCh,     \* its backup signal is closed
  events,     \* its event channel
  lossy,      \* history: an event was dropped or could not be made
  stage,      \* where the call of the agent tool stands
  turns,      \* drainResult.turns
  counted,    \* responseCounted
  synth,      \* drainResult.synthesisAttempted
  exceeded,   \* the error "sub-agent exceeded turn budget" is recorded
  lastNode,   \* drainResult.lastNodeID
  saved,      \* agentNodes has an entry for the agent
  used        \* synthesisUsed

runVars == <<pc, node, replies, left, iteration, rounds, doneCh>>
drainVars == <<stage, turns, counted, synth, exceeded, lastNode, saved, used>>
vars == <<runVars, cancelled, events, lossy, drainVars>>

Text == [tag |-> "text"]
Call == [tag |-> "call"]
Usage(n) == [tag |-> "usage", node |-> n]
Done(n) == [tag |-> "done", node |-> n]

TypeOK ==
  /\ pc \in {"llm", "usage", "head", "calls", "final", "done", "signal", "closing", "closed"}
  /\ replies \in 0..(MaxIter + 2) /\ node \in 0..replies
  /\ left \in 0..MaxCalls /\ iteration \in 0..MaxIter /\ rounds \in 0..MaxIter
  /\ Len(events) <= EventCap
  /\ stage \in {"drain", "fallback", "post", "report", "returned"}
  /\ turns \in Nat /\ lastNode \in 0..replies
  /\ {cancelled, doneCh, lossy, counted, synth, exceeded, saved, used} \subseteq BOOLEAN

Init ==
  /\ pc = "llm" /\ node = 0 /\ replies = 0 /\ left = 0 /\ iteration = 0 /\ rounds = 0
  /\ cancelled = FALSE /\ doneCh = FALSE /\ events = <<>> /\ lossy = FALSE
  /\ stage = "drain" /\ turns = 0 /\ counted = FALSE /\ synth = FALSE /\ exceeded = FALSE
  /\ lastNode = 0 /\ saved = FALSE /\ used = FALSE

-----------------------------------------------------------------------------
(* The sub-agent's run.                                                     *)

HasRoom == Len(events) < EventCap

\* Not the code: a send that does not look at the capacity.
OfferUnbounded(e) == events' = Append(events, e) /\ UNCHANGED lossy

\* emit: an event that finds no room is dropped.
Offer(e) ==
  /\ events' = IF HasRoom THEN Append(events, e) ELSE events
  /\ lossy' = (lossy \/ ~HasRoom)

Goto(l) == pc' = l

\* Deltas, errors and tool results that share the channel.
Streams ==
  /\ pc \in {"llm", "calls", "final"} /\ HasRoom
  /\ Offer(Text)
  /\ UNCHANGED <<runVars, cancelled, drainVars>>

\* A reply with k tool calls; one that was under way when the context was
\* cancelled may still come in.
ModelReplies(k) ==
  /\ pc = "llm"
  /\ replies' = replies + 1 /\ node' = replies'
  /\ left' = k
  /\ Goto("usage")
  /\ UNCHANGED <<iteration, rounds, cancelled, doneCh, events, lossy, drainVars>>

\* The call fails: its empty node is what the run ends on.
ModelFails ==
  /\ pc = "llm"
  /\ node' = 0
  /\ Goto("done")
  /\ UNCHANGED <<replies, left, iteration, rounds, cancelled, doneCh, events, lossy, drainVars>>

\* emitUsage, then iteration++ except after the first reply; the event is not
\* made when the node cannot be read.
EmitUsage(read) ==
  /\ pc = "usage"
  /\ IF read THEN Offer(Usage(node)) ELSE lossy' = TRUE /\ UNCHANGED events
  /\ iteration' = IF replies = 1 THEN 0 ELSE iteration + 1
  /\ Goto("head")
  /\ UNCHANGED <<node, replies, left, rounds, cancelled, doneCh, drainVars>>

\* Not the code: one round too many.
EntersRoundOffByOne ==
  /\ pc = "head" /\ left > 0 /\ iteration <= MaxIter /\ ~cancelled
  /\ rounds' = rounds + 1
  /\ Goto("calls")
  /\ UNCHANGED <<node, replies, left, iteration, doneCh, cancelled, events, lossy, drainVars>>

\* The head of the tool loop.
EntersRound ==
  /\ pc = "head" /\ left > 0 /\ iteration < MaxIter /\ ~cancelled
  /\ rounds' = rounds + 1
  /\ Goto("calls")
  /\ UNCHANGED <<node, replies, left, iteration, doneCh, cancelled, events, lossy, drainVars>>

LoopEnds ==
  /\ pc = "head"
  /\ left = 0 \/ (iteration < MaxIter /\ cancelled)
  /\ Goto("done")
  /\ UNCHANGED <<node, replies, left, iteration, rounds, doneCh, cancelled, events, lossy,
                 drainVars>>

Exhausted ==
  /\ pc = "head" /\ left > 0 /\ iteration >= MaxIter
  /\ Goto("final")
  /\ UNCHANGED <<node, replies, left, iteration, rounds, doneCh, cancelled, events, lossy,
                 drainVars>>

\* EventToolCallStart; the tool runs, in the end the results go to the model.
StartsCall ==
  /\ pc = "calls"
  /\ Offer(Call)
  /\ left' = left - 1
  /\ Goto(IF left = 1 THEN "llm" ELSE "calls")
  /\ UNCHANGED <<node, replies, iteration, rounds, cancelled, doneCh, drainVars>>

\* The started tool panics: Run recovers and reports an EventDone without a node.
ToolPanics ==
  /\ pc = "calls"
  /\ Offer(Call)
  /\ node' = 0
  /\ Goto("done")
  /\ UNCHANGED <<replies, left, iteration, rounds, cancelled, doneCh, drainVars>>

\* gracefulExhaustion's call without tools; nodeID stays when it fails.
FinalCall(ok) ==
  /\ pc = "final"
  /\ replies' = IF ok THEN replies + 1 ELSE replies
  /\ node' = IF ok THEN replies' ELSE node
  /\ Goto("done")
  /\ UNCHANGED <<left, iteration, rounds, cancelled, doneCh, events, lossy, drainVars>>

\* emit(EventDone): into the channel, or dropped after five seconds.
EmitDone ==
  /\ pc = "done"
  /\ Offer(Done(node))
  /\ Goto("signal")
  /\ UNCHANGED <<node, replies, left, iteration, rounds, cancelled, doneCh, drainVars>>

CloseDoneCh ==
  /\ pc = "signal"
  /\ doneCh' = TRUE
  /\ Goto("closing")
  /\ UNCHANGED <<node, replies, left, iteration, rounds, cancelled, events, lossy, drainVars>>

CloseEvents ==
  /\ pc = "closing"
  /\ Goto("closed")
  /\ UNCHANGED <<node, replies, left, iteration, rounds, doneCh, cancelled, events, lossy,
                 drainVars>>

RunStep ==
  \/ (\E k \in 0..MaxCalls : ModelReplies(k)) \/ ModelFails
  \/ (\E read \in BOOLEAN : EmitUsage(read))
  \/ EntersRound \/ LoopEnds \/ Exhausted \/ StartsCall \/ ToolPanics
  \/ (\E ok \in BOOLEAN : FinalCall(ok))
  \/ EmitDone \/ CloseDoneCh \/ CloseEvents

\* The caller's context, or CancelAll.
CallerCancels ==
  /\ pc # "closed" /\ ~cancelled
  /\ cancelled' = TRUE
  /\ UNCHANGED <<runVars, events, lossy, drainVars>>

-----------------------------------------------------------------------------
(* drainSubAgentEvents.                                                     *)

Draining == stage \in {"drain", "fallback"}

Take(tag) ==
  /\ Draining /\ events # <<>> /\ Head(events).tag = tag
  /\ events' = Tail(events)
  /\ UNCHANGED <<runVars, lossy>>

OnText ==
  /\ Take("text")
  /\ UNCHANGED <<cancelled, drainVars>>

\* EventUsage ends a turn: the next tool call belongs to another reply.
OnUsage ==
  /\ Take("usage")
  /\ counted' = FALSE
  /\ lastNode' = Head(events).node
  /\ UNCHANGED <<cancelled, stage, turns, synth, exceeded, saved, used>>

\* Not the code: every call is a turn.
OnCallEach ==
  /\ Take("call")
  /\ turns' = turns + 1
  /\ synth' = (synth \/ turns' > MaxTurns)
  /\ cancelled' = (cancelled \/ (stage = "drain" /\ turns' > MaxTurns))
  /\ UNCHANGED <<stage, counted, exceeded, lastNode, saved, used>>

\* The first call of a reply is a turn.  Over the budget the run is cancelled
\* for a synthesis, one turn further the excess is an error; the fallback drain
\* only notes that a synthesis is due.
OnCall ==
  /\ Take("call")
  /\ turns' = IF counted THEN turns ELSE turns + 1
  /\ counted' = TRUE
  /\ LET over == turns' > MaxTurns
         twice == turns' > MaxTurns + 1 /\ stage = "drain"
     IN /\ exceeded' = (exceeded \/ twice)
        /\ synth' = (synth \/ (over /\ ~twice))
        /\ cancelled' = (cancelled \/ twice \/ (stage = "drain" /\ over /\ ~synth))
  /\ UNCHANGED <<stage, lastNode, saved, used>>

OnDone ==
  /\ Take("done")
  /\ stage' = "post"
  /\ LET n == Head(events).node
     IN /\ lastNode' = IF n # 0 THEN n ELSE lastNode
        /\ saved' = (saved \/ n # 0)
  /\ UNCHANGED <<cancelled, turns, counted, synth, exceeded, used>>

Leaves(s) ==
  /\ stage' = s
  /\ UNCHANGED <<runVars, cancelled, events, lossy, turns, counted, synth, exceeded, lastNode,
                 saved, used>>

\* doneCh may win the select against events that are still in the channel: they
\* are read without acting on them.
SeeDoneCh == stage = "drain" /\ doneCh /\ Leaves("fallback")

\* Not the code: the events in the channel are left there.
FallbackLeavesAtOnce == stage = "fallback" /\ Leaves("post")

\* Not the code: the fallback drain waits for an EventDone with a node.
FallbackAwaitsDone == stage = "fallback" /\ events = <<>> /\ saved /\ Leaves("post")

FallbackEmpty == stage = "fallback" /\ events = <<>> /\ Leaves("post")

SeeClosed == stage = "drain" /\ pc = "closed" /\ events = <<>> /\ Leaves("post")

-----------------------------------------------------------------------------
(* What follows the drain, in Execute and in runBackground alike.           *)

\* gracefulSubAgentSynthesis: no call without a node to continue from, no text
\* when the call fails.
Synthesize(ok) ==
  /\ stage = "post" /\ synth
  /\ used' = (ok /\ lastNode # 0)
  /\ stage' = "report"
  /\ UNCHANGED <<runVars, cancelled, events, lossy, turns, counted, synth, exceeded, lastNode,
                 saved>>

NoSynthesis == stage = "post" /\ ~synth /\ Leaves("report")

\* The "done" status is sent, then the run's goroutine is waited for, for at most
\* five minutes; the result is built.
Returns == stage = "report" /\ Leaves("returned")

DrainStep ==
  \/ OnText \/ OnUsage \/ OnCall \/ OnDone \/ SeeDoneCh \/ FallbackEmpty \/ SeeClosed
  \/ (\E ok \in BOOLEAN : Synthesize(ok)) \/ NoSynthesis \/ Returns

Next == RunStep \/ Streams \/ CallerCancels \/ DrainStep

Spec == Init /\ [][Next]_vars

\* Both goroutines run; model calls and tools answer or time out.
FairSpec == Spec /\ WF_vars(RunStep) /\ WF_vars(DrainStep)

-----------------------------------------------------------------------------
(* Properties *)

\* Turns are counted from the events alone, yet never more of them than replies
\* whose calls were started; exactly as many when no event was lost.
TurnsCounted ==
  /\ turns <= rounds
  /\ ~Draining /\ ~lossy => turns = rounds

\* The drain cancels a run only when it has really started calls for more replies
\* than its budget has turns: no loss or order of events cuts an agent short.
NeverCutShort ==
  [][~cancelled /\ cancelled' => CallerCancels \/ rounds > MaxTurns]_vars

\* subAgentIterationBuffer: however late or lossy the counting, the loop's own cap
\* ends the run; the error for a doubly exceeded budget comes after a synthesis
\* was asked for, as it says.
BackstopHolds ==
  /\ rounds <= MaxIter
  /\ exceeded => synth

\* The drain does not stop before the run's last event: nothing is left in the
\* channel, and a synthesis continues from the run's last reply if nothing was lost.
DrainedToTheEnd ==
  ~Draining =>
    /\ events = <<>>
    /\ ~lossy => lastNode = replies

\* Whatever is dropped, the call of the agent tool returns.
CallReturns == <>(stage = "returned")

\* What a sub-agent's call can rely on in every state: the turns are counted, the
\* loop is bounded without the count, and no event is left behind.
BudgetInv == TypeOK /\ TurnsCounted /\ BackstopHolds /\ DrainedToTheEnd

-----------------------------------------------------------------------------
(* A statement of the prompts that the code does not keep *)

\* "Resume a previous sub-agent by passing its agent_id with a new task": an agent
\* that got as far as a reply can be resumed when its call has returned.
ResumableAfterReturn == stage = "returned" /\ lastNode # 0 => saved
=============================================================================
