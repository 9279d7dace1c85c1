-------------------------- MODULE AgentLoopProofs --------------------------
(***************************************************************************)
(* Proofs about the agent, for every set of agents and replies, every      *)
(* channel capacity and every bound on iterations and cycles.  About the   *)
(* background agents: nothing is reported twice, no status of a finished   *)
(* one is lost, and their results reach the parent as ResultMailbox says.  *)
(* About the loop: one budget covers the tool loop and background          *)
(* completion, no result is told twice, a guarded call of the main loop    *)
(* runs only when the user approved it, every tool call gets one result,   *)
(* and a run without failures ends in order.                               *)
(***************************************************************************)
EXTENDS AgentLoop, FiniteSetTheorems, TLAPS

(***************************************************************************)
(* The background agents                                                   *)
(***************************************************************************)


\* A result is queued only when its agent's goroutine has exited.
QueuedHaveExited == \A b \in ToSet(inbox) : phase[b] = "exited"

\* A status in the channel is recorded as delivered, so that a second one would
\* need a second pass through ForwardDone.
QueuedStatusDelivered ==
  \A i \in DOMAIN events : \A b \in BgAgent :
    events[i] = SubDone(b) => b \in delivered

\* After a wait that did not time out no goroutine is left.
ClosedAfterGoroutines == parent = "closed" /\ ~drainExpired => GoroutinesDrained

\* The inductive invariant.
BgInv ==
  /\ BgTypeOK
  /\ ReportedOnce
  /\ QueuedHaveExited
  /\ QueuedStatusDelivered
  /\ ClosedAfterGoroutines

\* What Append and Tail do to the set of elements of a sequence.
LEMMA ToSetAppend ==
  ASSUME NEW S, NEW s \in Seq(S), NEW x \in S
  PROVE  ToSet(Append(s, x)) = ToSet(s) \cup {x}
<1>1. \A i \in DOMAIN s : Append(s, x)[i] = s[i] /\ i \in DOMAIN Append(s, x)
  OBVIOUS
<1>2. /\ Len(s) + 1 \in DOMAIN Append(s, x)
      /\ Append(s, x)[Len(s) + 1] = x
  OBVIOUS
<1>3. \A i \in DOMAIN Append(s, x) : i \in DOMAIN s \/ i = Len(s) + 1
  OBVIOUS
<1>. QED  BY <1>1, <1>2, <1>3 DEF ToSet

LEMMA ToSetEmpty == ToSet(<<>>) = {}
BY DEF ToSet

\* A send leaves a channel of well-typed events no longer than its capacity.
LEMMA OfferType ==
  ASSUME BgTypeOK, NEW e \in BgEvent, Offer(e)
  PROVE  events' \in Seq(BgEvent) /\ Len(events') <= EventCap
BY BgAssumption DEF BgTypeOK, Offer, HasRoom

\* The invariant holds initially.
LEMMA BgInitInv == BgInit => BgInv
<1>. SUFFICES ASSUME BgInit PROVE BgInv
  OBVIOUS
<1>1. BgTypeOK
  <2>1. phase \in [BgAgent -> Phase] /\ stopped \in [BgAgent -> BOOLEAN]
    BY DEF BgInit, Phase
  <2>2. inbox \in Seq(BgAgent) /\ events \in Seq(BgEvent) /\ Len(events) <= EventCap
    BY BgAssumption DEF BgInit
  <2>3. /\ parent \in {"working", "draining", "closed"}
        /\ delivered \subseteq BgAgent /\ gaveUp \subseteq BgAgent
        /\ drainExpired \in BOOLEAN
    BY DEF BgInit
  <2>. QED  BY <2>1, <2>2, <2>3 DEF BgTypeOK
<1>2. ReportedOnce
  BY DEF BgInit, ReportedOnce
<1>3. QueuedHaveExited
  BY ToSetEmpty DEF BgInit, QueuedHaveExited
<1>4. QueuedStatusDelivered /\ ClosedAfterGoroutines
  BY DEF BgInit, QueuedStatusDelivered, ClosedAfterGoroutines
<1>. QED  BY <1>1, <1>2, <1>3, <1>4 DEF BgInv

\* An ordinary event is not a status, and leaves the statuses where they are.
LEMMA OfferInfo ==
  ASSUME BgTypeOK, Offer(Info)
  PROVE  /\ events' \in Seq(BgEvent) /\ Len(events') <= EventCap
         /\ \A i \in DOMAIN events' : \A b \in BgAgent :
              events'[i] = SubDone(b) => i \in DOMAIN events /\ events[i] = SubDone(b)
<1>1. Info \in BgEvent
  BY DEF BgEvent
<1>2. \A b \in BgAgent : Info # SubDone(b)
  BY DEF Info, SubDone
<1>3. \A i \in DOMAIN events' :
        events'[i] = Info \/ (i \in DOMAIN events /\ events'[i] = events[i])
  BY DEF Offer, BgTypeOK
<1>. QED  BY <1>1, <1>2, <1>3, OfferType

\* The statuses of the channel when nothing, or an ordinary event, was added.
StatusesKept ==
  \A i \in DOMAIN events' : \A b \in BgAgent :
    events'[i] = SubDone(b) => i \in DOMAIN events /\ events[i] = SubDone(b)

\* A step that adds no status and reports for nobody keeps what the invariant
\* says of statuses, if the agents it moves stay on their side of the report.
LEMMA StatusesUnchanged ==
  ASSUME ReportedOnce, QueuedStatusDelivered, StatusesKept,
         UNCHANGED <<delivered, gaveUp>>,
         \A b \in BgAgent : phase'[b] \in {"reported", "done", "exited"}
                              <=> phase[b] \in {"reported", "done", "exited"}
  PROVE  ReportedOnce' /\ QueuedStatusDelivered'
<1>1. QueuedStatusDelivered'
  BY DEF QueuedStatusDelivered, StatusesKept
<1>2. \A b \in BgAgent : \A i, j \in DOMAIN events' :
         events'[i] = SubDone(b) /\ events'[j] = SubDone(b) => i = j
  BY DEF ReportedOnce, StatusesKept
<1>3. (delivered \cap gaveUp = {})'
  BY DEF ReportedOnce
<1>4. \A b \in BgAgent :
        b \in delivered' \cup gaveUp' <=> phase'[b] \in {"reported", "done", "exited"}
  BY DEF ReportedOnce
<1>. QED  BY <1>1, <1>2, <1>3, <1>4 DEF ReportedOnce

\* What a step leaves alone when it neither queues a result nor closes the channel
\* nor touches an agent that has exited.
LEMMA RestUnchanged ==
  ASSUME QueuedHaveExited, ClosedAfterGoroutines,
         UNCHANGED <<inbox, parent, drainExpired>>,
         \A b \in BgAgent : phase[b] \in {"unborn", "exited"} => phase'[b] = phase[b],
         inbox \in Seq(BgAgent)
  PROVE  QueuedHaveExited' /\ ClosedAfterGoroutines'
<1>1. ToSet(inbox) \subseteq BgAgent
  BY DEF ToSet
<1>2. QueuedHaveExited'
  BY <1>1 DEF QueuedHaveExited
<1>3. ClosedAfterGoroutines'
  BY DEF ClosedAfterGoroutines, GoroutinesDrained, Live
<1>. QED  BY <1>2, <1>3

\* A goroutine is launched only by a parent that is still working.
LEMMA LaunchInv ==
  ASSUME BgInv, NEW b \in BgAgent, ParentLaunches(b)
  PROVE  BgInv'
<1>. USE DEF BgInv
<1>1. /\ phase[b] = "unborn" /\ phase' = [phase EXCEPT ![b] = "running"]
      /\ Offer(Info) /\ parent = "working"
      /\ UNCHANGED <<stopped, inbox, parent, delivered, gaveUp, drainExpired>>
  BY DEF ParentLaunches, ExecuteBackground, Moves
<1>2. BgTypeOK'
  BY <1>1, OfferInfo DEF BgTypeOK, Phase
<1>3. StatusesKept
  BY <1>1, OfferInfo DEF StatusesKept
<1>4. ReportedOnce' /\ QueuedStatusDelivered'
  BY <1>1, <1>3, StatusesUnchanged DEF BgTypeOK
<1>5. QueuedHaveExited'
  BY <1>1 DEF QueuedHaveExited, BgTypeOK, ToSet
<1>6. ClosedAfterGoroutines'
  BY <1>1 DEF ClosedAfterGoroutines
<1>. QED  BY <1>2, <1>4, <1>5, <1>6

\* Every step of an agent's own goroutine preserves the invariant.
LEMMA AgentStepInv ==
  ASSUME BgInv, NEW b \in BgAgent, AgentStep(b)
  PROVE  BgInv'
<1>. USE DEF BgInv
<1>1. CASE ForwardProgress(b)
  <2>1. Offer(Info) /\ UNCHANGED <<phase, stopped, delivered, gaveUp, inbox, parent, drainExpired>>
    BY <1>1 DEF ForwardProgress, agentVars
  <2>2. BgTypeOK'
    BY <2>1, OfferInfo DEF BgTypeOK
  <2>3. StatusesKept
    BY <2>1, OfferInfo DEF StatusesKept
  <2>4. ReportedOnce' /\ QueuedStatusDelivered'
    BY <2>1, <2>3, StatusesUnchanged
  <2>5. QueuedHaveExited' /\ ClosedAfterGoroutines'
    BY <2>1, RestUnchanged DEF BgTypeOK
  <2>. QED  BY <2>2, <2>4, <2>5
<1>2. CASE AwaitApproval(b) \/ RunEnds(b)
  <2>1. /\ phase[b] \in {"running", "blocked"}
        /\ \E to \in {"blocked", "drained"} : phase' = [phase EXCEPT ![b] = to]
        /\ UNCHANGED <<stopped, inbox, events, parent, delivered, gaveUp, drainExpired>>
    BY <1>2 DEF AwaitApproval, RunEnds, Moves
  <2>2. BgTypeOK'
    BY <2>1 DEF BgTypeOK, Phase
  <2>3. StatusesKept
    BY <2>1 DEF StatusesKept
  <2>4. ReportedOnce' /\ QueuedStatusDelivered'
    BY <2>1, <2>3, StatusesUnchanged DEF BgTypeOK
  <2>5. QueuedHaveExited' /\ ClosedAfterGoroutines'
    BY <2>1, RestUnchanged DEF BgTypeOK
  <2>. QED  BY <2>2, <2>4, <2>5
<1>3. CASE ForwardDone(b)
  <2>1. /\ phase[b] = "drained" /\ phase' = [phase EXCEPT ![b] = "reported"]
        /\ HasRoom /\ events' = Append(events, SubDone(b))
        /\ delivered' = delivered \cup {b}
        /\ UNCHANGED <<stopped, inbox, parent, gaveUp, drainExpired>>
    BY <1>3 DEF ForwardDone, Moves
  <2>2. SubDone(b) \in BgEvent
    BY DEF BgEvent
  <2>3. BgTypeOK'
    BY <2>1, <2>2, BgAssumption DEF BgTypeOK, Phase, HasRoom
  <2>4. b \notin delivered \cup gaveUp
    BY <2>1 DEF ReportedOnce
  <2>5. \A c \in BgAgent : SubDone(c) = SubDone(b) => c = b
    BY DEF SubDone
  <2>6. \A i \in DOMAIN events' :
          IF i \in DOMAIN events THEN events'[i] = events[i]
          ELSE i = Len(events) + 1 /\ events'[i] = SubDone(b)
    BY <2>1 DEF BgTypeOK
  <2>7. QueuedStatusDelivered'
    BY <2>1, <2>5, <2>6 DEF QueuedStatusDelivered
  <2>8. \A c \in BgAgent : \A i, j \in DOMAIN events' :
           events'[i] = SubDone(c) /\ events'[j] = SubDone(c) => i = j
    <3>. SUFFICES ASSUME NEW c \in BgAgent, NEW i \in DOMAIN events', NEW j \in DOMAIN events',
                         events'[i] = SubDone(c), events'[j] = SubDone(c)
                  PROVE  i = j
      OBVIOUS
    <3>1. CASE c = b
      BY <3>1, <2>4, <2>6 DEF QueuedStatusDelivered
    <3>2. CASE c # b
      BY <3>2, <2>5, <2>6 DEF ReportedOnce
    <3>. QED  BY <3>1, <3>2
  <2>9. ReportedOnce'
    BY <2>1, <2>4, <2>8 DEF ReportedOnce, BgTypeOK
  <2>10. QueuedHaveExited' /\ ClosedAfterGoroutines'
    BY <2>1, RestUnchanged DEF BgTypeOK
  <2>. QED  BY <2>3, <2>7, <2>9, <2>10
<1>4. CASE ForwardDoneFails(b)
  <2>1. /\ phase[b] = "drained" /\ phase' = [phase EXCEPT ![b] = "reported"]
        /\ gaveUp' = gaveUp \cup {b}
        /\ UNCHANGED <<stopped, inbox, events, parent, delivered, drainExpired>>
    BY <1>4 DEF ForwardDoneFails, Moves
  <2>2. BgTypeOK'
    BY <2>1 DEF BgTypeOK, Phase
  <2>3. ReportedOnce' /\ QueuedStatusDelivered'
    BY <2>1 DEF ReportedOnce, QueuedStatusDelivered, BgTypeOK
  <2>4. QueuedHaveExited' /\ ClosedAfterGoroutines'
    BY <2>1, RestUnchanged DEF BgTypeOK
  <2>. QED  BY <2>2, <2>3, <2>4
<1>5. CASE StoreResult(b)
  <2>1. /\ phase[b] = "reported" /\ phase' = [phase EXCEPT ![b] = "done"]
        /\ UNCHANGED <<stopped, inbox, events, parent, delivered, gaveUp, drainExpired>>
    BY <1>5 DEF StoreResult, Moves
  <2>2. BgTypeOK'
    BY <2>1 DEF BgTypeOK, Phase
  <2>3. StatusesKept
    BY <2>1 DEF StatusesKept
  <2>4. ReportedOnce' /\ QueuedStatusDelivered'
    BY <2>1, <2>3, StatusesUnchanged DEF BgTypeOK
  <2>5. QueuedHaveExited' /\ ClosedAfterGoroutines'
    BY <2>1, RestUnchanged DEF BgTypeOK
  <2>. QED  BY <2>2, <2>4, <2>5
<1>6. CASE InjectResult(b)
  <2>1. /\ phase[b] = "done" /\ phase' = [phase EXCEPT ![b] = "exited"]
        /\ inbox' = Append(inbox, b)
        /\ stopped' = [stopped EXCEPT ![b] = TRUE]
        /\ UNCHANGED <<events, parent, delivered, gaveUp, drainExpired>>
    BY <1>6 DEF InjectResult, Moves
  <2>2. BgTypeOK'
    BY <2>1 DEF BgTypeOK, Phase
  <2>3. StatusesKept
    BY <2>1 DEF StatusesKept
  <2>4. ReportedOnce' /\ QueuedStatusDelivered'
    BY <2>1, <2>3, StatusesUnchanged DEF BgTypeOK
  <2>5. ToSet(inbox') = ToSet(inbox) \cup {b}
    BY <2>1, ToSetAppend DEF BgTypeOK
  <2>6. QueuedHaveExited'
    BY <2>1, <2>5 DEF QueuedHaveExited, BgTypeOK
  <2>7. ClosedAfterGoroutines'
    BY <2>1 DEF ClosedAfterGoroutines, GoroutinesDrained, Live, BgTypeOK
  <2>. QED  BY <2>2, <2>4, <2>6, <2>7
<1>. QED  BY <1>1, <1>2, <1>3, <1>4, <1>5, <1>6 DEF AgentStep

\* The steps of the parent, of the TUI and of a user who cancels.
LEMMA OtherStepInv ==
  ASSUME BgInv,
         \/ CancelAll \/ ParentEmits \/ TakeResults
         \/ LoopReturns \/ CloseEvents \/ Consume
  PROVE  BgInv'
<1>. USE DEF BgInv
<1>1. CASE CancelAll
  <2>1. BgTypeOK'
    <3>1. \A b \in BgAgent : (stopped[b] \/ phase[b] # "unborn") \in BOOLEAN
      OBVIOUS
    <3>2. stopped' \in [BgAgent -> BOOLEAN]
      BY <1>1, <3>1, Zenon DEF CancelAll
    <3>. QED  BY <1>1, <3>2 DEF CancelAll, BgTypeOK
  <2>2. ReportedOnce' /\ QueuedStatusDelivered'
    BY <1>1 DEF CancelAll, ReportedOnce, QueuedStatusDelivered
  <2>3. QueuedHaveExited' /\ ClosedAfterGoroutines'
    BY <1>1, RestUnchanged DEF CancelAll, BgTypeOK
  <2>. QED  BY <2>1, <2>2, <2>3
<1>2. CASE ParentEmits
  <2>1. Offer(Info) /\ UNCHANGED <<phase, stopped, delivered, gaveUp, inbox, parent, drainExpired>>
    BY <1>2 DEF ParentEmits, agentVars
  <2>2. BgTypeOK'
    BY <2>1, OfferInfo DEF BgTypeOK
  <2>3. StatusesKept
    BY <2>1, OfferInfo DEF StatusesKept
  <2>4. ReportedOnce' /\ QueuedStatusDelivered'
    BY <2>1, <2>3, StatusesUnchanged
  <2>5. QueuedHaveExited' /\ ClosedAfterGoroutines'
    BY <2>1, RestUnchanged DEF BgTypeOK
  <2>. QED  BY <2>2, <2>4, <2>5
<1>3. CASE TakeResults
  <2>1. /\ parent = "working" /\ inbox' = <<>>
        /\ UNCHANGED <<phase, stopped, delivered, gaveUp, events, parent, drainExpired>>
    BY <1>3 DEF TakeResults, agentVars
  <2>2. inbox' \in Seq(BgAgent)
    BY <2>1
  <2>3. BgTypeOK'
    BY <2>1, <2>2 DEF BgTypeOK
  <2>4. ReportedOnce' /\ QueuedStatusDelivered' /\ ClosedAfterGoroutines'
    BY <2>1 DEF ReportedOnce, QueuedStatusDelivered, ClosedAfterGoroutines
  <2>5. QueuedHaveExited'
    BY <2>1, ToSetEmpty DEF QueuedHaveExited
  <2>. QED  BY <2>3, <2>4, <2>5
<1>4. CASE LoopReturns
  <2>1. /\ parent = "working" /\ parent' = "draining"
        /\ UNCHANGED <<phase, stopped, delivered, gaveUp, inbox, events, drainExpired>>
    BY <1>4 DEF LoopReturns, agentVars
  <2>. QED  BY <2>1 DEF BgTypeOK, ReportedOnce, QueuedStatusDelivered,
                        QueuedHaveExited, ClosedAfterGoroutines
<1>5. CASE CloseEvents
  <2>1. /\ parent' = "closed" /\ drainExpired' = ~GoroutinesDrained
        /\ UNCHANGED <<phase, stopped, delivered, gaveUp, inbox, events>>
    BY <1>5 DEF CloseEvents, agentVars
  <2>2. BgTypeOK'
    BY <2>1, Zenon DEF BgTypeOK
  <2>3. ReportedOnce' /\ QueuedStatusDelivered' /\ QueuedHaveExited'
    BY <2>1 DEF ReportedOnce, QueuedStatusDelivered, QueuedHaveExited
  <2>4. ClosedAfterGoroutines'
    BY <2>1 DEF ClosedAfterGoroutines, GoroutinesDrained, Live
  <2>. QED  BY <2>2, <2>3, <2>4
<1>6. CASE Consume
  <2>1. /\ events # <<>> /\ events' = Tail(events)
        /\ UNCHANGED <<phase, stopped, delivered, gaveUp, inbox, parent, drainExpired>>
    BY <1>6 DEF Consume, agentVars
  <2>2. BgTypeOK'
    BY <2>1, BgAssumption DEF BgTypeOK
  <2>3. \A i \in DOMAIN events' : i + 1 \in DOMAIN events /\ events'[i] = events[i + 1]
    BY <2>1 DEF BgTypeOK
  <2>4. QueuedStatusDelivered'
    BY <2>1, <2>3 DEF QueuedStatusDelivered
  <2>5. \A b \in BgAgent : \A i, j \in DOMAIN events' :
           events'[i] = SubDone(b) /\ events'[j] = SubDone(b) => i = j
    <3>. SUFFICES ASSUME NEW b \in BgAgent, NEW i \in DOMAIN events', NEW j \in DOMAIN events',
                         events'[i] = SubDone(b), events'[j] = SubDone(b)
                  PROVE  i = j
      OBVIOUS
    <3>1. i + 1 = j + 1
      BY <2>3 DEF ReportedOnce
    <3>2. i \in Nat /\ j \in Nat
      BY <2>2 DEF BgTypeOK
    <3>. QED  BY <3>1, <3>2
  <2>6. ReportedOnce'
    BY <2>1, <2>5 DEF ReportedOnce
  <2>7. QueuedHaveExited' /\ ClosedAfterGoroutines'
    BY <2>1, RestUnchanged DEF BgTypeOK
  <2>. QED  BY <2>2, <2>4, <2>6, <2>7
<1>. QED  BY <1>1, <1>2, <1>3, <1>4, <1>5, <1>6

\* Every step preserves the invariant.
LEMMA BgStepInv == BgInv /\ [BgNext]_bgVars => BgInv'
<1>. SUFFICES ASSUME BgInv, [BgNext]_bgVars PROVE BgInv'
  OBVIOUS
<1>1. CASE UNCHANGED bgVars
  BY <1>1 DEF bgVars, BgInv, BgTypeOK, ReportedOnce, QueuedHaveExited,
              QueuedStatusDelivered, ClosedAfterGoroutines, GoroutinesDrained, Live
<1>2. CASE \E b \in BgAgent : ParentLaunches(b) \/ AgentStep(b)
  BY <1>2, LaunchInv, AgentStepInv
<1>3. CASE CancelAll \/ ParentEmits \/ TakeResults \/ LoopReturns \/ CloseEvents \/ Consume
  BY <1>3, OtherStepInv
<1>. QED  BY <1>1, <1>2, <1>3 DEF BgNext

-----------------------------------------------------------------------------
\* The inductive invariant holds in every behaviour of the component.
THEOREM BgInvariant == BgSpec => []BgInv
<1>. QED  BY BgInitInv, BgStepInv, PTL DEF BgSpec

\* Type correctness: the channel never exceeds its capacity, the phases of the
\* agents are those of runBackground.
THEOREM BgTypeCorrect == BgSpec => []BgTypeOK
<1>1. BgInv => BgTypeOK
  BY DEF BgInv
<1>. QED  BY <1>1, BgInvariant, PTL

\* The status of an agent is reported once, through the channel or as given up.
THEOREM ReportsAreUnique == BgSpec => []ReportedOnce
<1>1. BgInv => ReportedOnce
  BY DEF BgInv
<1>. QED  BY <1>1, BgInvariant, PTL

\* Run's deferred wait does what its comment says: the channel is closed after
\* the status of every started agent, unless a timeout fired.
THEOREM NoDoneStatusLost == BgSpec => []DoneStatusDelivered
<1>1. BgInv => DoneStatusDelivered
  BY DEF BgInv, DoneStatusDelivered, ClosedAfterGoroutines, GoroutinesDrained,
         Live, ReportedOnce
<1>. QED  BY <1>1, BgInvariant, PTL

-----------------------------------------------------------------------------
(* The refinement: launching a goroutine starts a task, InjectResult        *)
(* completes it, TakeResults takes; every other step is a stutter.          *)

\* The mailbox's view of one agent.
MailboxOf(b) ==
  IF phase[b] = "unborn" THEN "idle"
  ELSE IF phase[b] # "exited" THEN "working"
  ELSE IF b \in ToSet(inbox) THEN "ready" ELSE "taken"

LEMMA MailboxPointwise ==
  /\ MailboxState = [b \in BgAgent |-> MailboxOf(b)]
  /\ MailboxState' = [b \in BgAgent |-> MailboxOf(b)']
BY DEF MailboxState, MailboxOf

\* A step that keeps every agent's view is a stutter of the mailbox.
LEMMA MailboxStutter ==
  ASSUME \A b \in BgAgent : MailboxOf(b)' = MailboxOf(b)
  PROVE  MailboxState' = MailboxState
BY MailboxPointwise, Zenon

\* A step that moves one agent's view changes the mailbox there and nowhere else.
LEMMA MailboxMoves ==
  ASSUME NEW b \in BgAgent, NEW v,
         MailboxOf(b)' = v,
         \A c \in BgAgent \ {b} : MailboxOf(c)' = MailboxOf(c)
  PROVE  MailboxState' = [MailboxState EXCEPT ![b] = v]
<1>1. MailboxState' = [c \in BgAgent |-> IF c = b THEN v ELSE MailboxOf(c)]
  BY MailboxPointwise
<1>. QED  BY <1>1, MailboxPointwise

\* Every step of the component is a step or a stutter of the mailbox.
LEMMA MailboxStep ==
  ASSUME BgInv, [BgNext]_bgVars
  PROVE  [Mailbox!Next]_MailboxState
<1>. USE DEF BgInv
<1>0. \A b \in BgAgent : MailboxState[b] = MailboxOf(b)
  BY MailboxPointwise
<1>1. ASSUME NEW b \in BgAgent, ParentLaunches(b)
      PROVE  Mailbox!Start(b)
  <2>1. phase[b] = "unborn" /\ phase' = [phase EXCEPT ![b] = "running"] /\ inbox' = inbox
    BY <1>1 DEF ParentLaunches, ExecuteBackground, Moves
  <2>2. MailboxOf(b) = "idle" /\ MailboxOf(b)' = "working"
    BY <2>1 DEF MailboxOf, BgTypeOK
  <2>3. \A c \in BgAgent \ {b} : MailboxOf(c)' = MailboxOf(c)
    BY <2>1 DEF MailboxOf, BgTypeOK
  <2>. QED  BY <1>0, <2>2, <2>3, MailboxMoves DEF Mailbox!Start
<1>2. ASSUME NEW b \in BgAgent, InjectResult(b)
      PROVE  Mailbox!Complete(b)
  <2>1. /\ phase[b] = "done" /\ phase' = [phase EXCEPT ![b] = "exited"]
        /\ inbox' = Append(inbox, b)
    BY <1>2 DEF InjectResult, Moves
  <2>2. ToSet(inbox') = ToSet(inbox) \cup {b}
    BY <2>1, ToSetAppend DEF BgTypeOK
  <2>3. MailboxOf(b) = "working" /\ MailboxOf(b)' = "ready"
    BY <2>1, <2>2 DEF MailboxOf, BgTypeOK
  <2>4. \A c \in BgAgent \ {b} : MailboxOf(c)' = MailboxOf(c)
    BY <2>1, <2>2 DEF MailboxOf, BgTypeOK
  <2>. QED  BY <1>0, <2>3, <2>4, MailboxMoves DEF Mailbox!Complete
<1>3. ASSUME NEW b \in BgAgent, AgentStep(b), ~InjectResult(b)
      PROVE  MailboxState' = MailboxState
  <2>1. /\ inbox' = inbox
        /\ \/ phase' = phase
           \/ /\ phase[b] \in {"running", "blocked", "drained", "reported"}
              /\ \E to \in {"blocked", "drained", "reported", "done"} :
                   phase' = [phase EXCEPT ![b] = to]
    BY <1>3 DEF AgentStep, ForwardProgress, AwaitApproval, RunEnds, ForwardDone,
                ForwardDoneFails, StoreResult, Moves, agentVars
  <2>2. \A c \in BgAgent : MailboxOf(c)' = MailboxOf(c)
    BY <2>1 DEF MailboxOf, BgTypeOK
  <2>. QED  BY <2>2, MailboxStutter
<1>4. ASSUME TakeResults
      PROVE  Mailbox!TakeAll
  <2>1. phase' = phase /\ ToSet(inbox') = {}
    BY <1>4, ToSetEmpty DEF TakeResults, agentVars
  <2>2. \A b \in BgAgent :
          MailboxOf(b)' = IF MailboxState[b] = "ready" THEN "taken" ELSE MailboxState[b]
    BY <1>0, <2>1 DEF MailboxOf
  <2>. QED  BY <2>2, MailboxPointwise DEF Mailbox!TakeAll
<1>5. CASE UNCHANGED <<phase, inbox>>
  <2>1. \A b \in BgAgent : MailboxOf(b)' = MailboxOf(b)
    BY <1>5 DEF MailboxOf
  <2>. QED  BY <2>1, MailboxStutter
<1>6. ASSUME CancelAll \/ ParentEmits \/ LoopReturns \/ CloseEvents \/ Consume \/ UNCHANGED bgVars
      PROVE  UNCHANGED <<phase, inbox>>
  BY <1>6 DEF CancelAll, ParentEmits, LoopReturns, CloseEvents, Consume, agentVars, bgVars
<1>. QED
  BY <1>1, <1>2, <1>3, <1>4, <1>5, <1>6 DEF BgNext, AgentStep, Mailbox!Next

\* The component implements the mailbox: a result is handed over once, and a
\* parent that takes results gets all that are ready.
THEOREM ResultsImplementMailbox == BgSpec => MailboxSpec
<1>1. BgInit => Mailbox!Init
  BY DEF BgInit, Mailbox!Init, MailboxState
<1>2. BgInv /\ [BgNext]_bgVars => [Mailbox!Next]_MailboxState
  BY MailboxStep
<1>. QED  BY <1>1, <1>2, BgInvariant, PTL DEF BgSpec, MailboxSpec, Mailbox!Spec

(***************************************************************************)
(* The loop: one section and one invariant for each result                 *)
(***************************************************************************)


-----------------------------------------------------------------------------
(* The budget *)

InTools == {"calls", "approval", "exec"}

\* Which of the loops runs at each position.
SiteFits ==
  /\ pc = "after" => site \in {"first", "loop"}
  /\ pc = "cycle" => site \in {"resume", "mini"}
  /\ pc \in {"wait", "collect"} => site \in {"resume", "final"}
  /\ pc = "head" \/ pc \in InTools => site \in ToolSite

\* A round that is under way has been paid for.
RoundIsPaid ==
  /\ pc \in InTools \/ pc = "llm" =>
       /\ site = "loop" => iteration < MaxIter
       /\ site = "mini" => remaining > 0
  /\ pc \in InTools => /\ site = "first" => iteration < MaxIter
                       /\ site = "resume" => remaining > 0

\* The inductive invariant.
BudgetIndInv ==
  /\ rounds \in Nat /\ iteration \in Nat /\ remaining \in Nat
  /\ site \in ToolSite \cup {"final"}
  /\ IterationBudget /\ SiteFits /\ RoundIsPaid

\* What the invariant speaks of.
budgetVars == <<pc, site, iteration, remaining, rounds>>

LEMMA BudgetInitInv == Init => BudgetIndInv
BY LoopAssumption
   DEF Init, BudgetIndInv, IterationBudget, SiteFits, RoundIsPaid, InTools, ToolSite, InMainLoop

LEMMA BudgetStutters == ASSUME BudgetIndInv, UNCHANGED budgetVars  PROVE BudgetIndInv'
BY DEF budgetVars, BudgetIndInv, IterationBudget, SiteFits, RoundIsPaid, InMainLoop

\* Steps that go somewhere else in a round, at the same site.
LEMMA BudgetInPlace ==
  ASSUME BudgetIndInv, UNCHANGED <<site, iteration, remaining, rounds>>,
         \/ pc' \in {"done", "signal", "returned"}
         \/ pc \in InTools /\ pc' \in InTools
         \/ pc' = "head" /\ site \in ToolSite
  PROVE  BudgetIndInv'
BY DEF BudgetIndInv, IterationBudget, SiteFits, RoundIsPaid, InMainLoop, InTools

LEMMA ModelKeepsBudget == ASSUME BudgetIndInv, ModelStep  PROVE BudgetIndInv'
<1>. USE DEF Goto
<1>0. BudgetIndInv
  OBVIOUS
<1>1. CASE StreamRetries
  BY <1>0, <1>1, BudgetStutters DEF StreamRetries, histVars, budgetVars
<1>2. CASE FirstCallFails \/ CompletionCallFails \/ NoNodeReply
  BY <1>0, <1>2, BudgetInPlace DEF FirstCallFails, CompletionCallFails, NoNodeReply, convVars
<1>3. CASE LoopCallFails
  BY <1>0, <1>3
     DEF LoopCallFails, BudgetIndInv, IterationBudget, SiteFits, RoundIsPaid, InMainLoop, InTools
<1>4. ASSUME NEW r, NEW n \in BOOLEAN, FirstReply(r, n)  PROVE BudgetIndInv'
  BY <1>0, <1>4, BudgetInPlace DEF FirstReply, ToolSite
<1>5. ASSUME NEW r, NEW n \in BOOLEAN, LoopReply(r, n)  PROVE BudgetIndInv'
  <2>1. CASE n
    BY <1>0, <1>5, <2>1, LoopAssumption
       DEF LoopReply, BudgetIndInv, IterationBudget, SiteFits, RoundIsPaid, InMainLoop, InTools, ToolSite
  <2>2. CASE ~n
    BY <1>0, <1>5, <2>2
       DEF LoopReply, BudgetIndInv, IterationBudget, SiteFits, RoundIsPaid, InMainLoop, InTools
  <2>. QED  BY <2>1, <2>2
<1>6. ASSUME NEW r, ResumeReply(r)  PROVE BudgetIndInv'
  BY <1>0, <1>6, BudgetInPlace DEF ResumeReply, ToolSite, histVars
<1>7. ASSUME NEW r, MiniReply(r)  PROVE BudgetIndInv'
  BY <1>0, <1>7, LoopAssumption
     DEF MiniReply, BudgetIndInv, IterationBudget, SiteFits, RoundIsPaid, InMainLoop, InTools, ToolSite
<1>8. CASE FinalReply
  BY <1>0, <1>8, BudgetInPlace DEF FinalReply, histVars
<1>. QED  BY <1>1, <1>2, <1>3, <1>4, <1>5, <1>6, <1>7, <1>8 DEF ModelStep

LEMMA ToolsKeepBudget == ASSUME BudgetIndInv, ToolStep  PROVE BudgetIndInv'
<1>. USE DEF Goto, convVars, histVars, CallFrame, Answer
<1>0. BudgetIndInv
  OBVIOUS
<1>1. CASE EnterLoop
  BY <1>0, <1>1
     DEF EnterLoop, BudgetLeft, BudgetIndInv, IterationBudget, SiteFits, RoundIsPaid, InMainLoop, InTools,
         ToolSite
<1>2. CASE CancelledAtHead \/ CancelledInApproval \/ ToolPanics
  BY <1>0, <1>2, BudgetInPlace DEF CancelledAtHead, CancelledInApproval, ToolPanics
<1>3. CASE LeaveLoop
  BY <1>0, <1>3
     DEF LeaveLoop, BudgetIndInv, IterationBudget, SiteFits, RoundIsPaid, InMainLoop, InTools, ToolSite
<1>4. ASSUME NEW i, UnknownTool(i) \/ AskApproval(i) \/ Approved(i) \/ RecordingFails(i) \/ Denied(i)
                    \/ StartTool(i) \/ ToolReturns(i)
      PROVE  BudgetIndInv'
  <2>1. pc \in InTools /\ pc' \in InTools /\ UNCHANGED <<site, iteration, remaining, rounds>>
    BY <1>4
       DEF UnknownTool, AskApproval, Approved, RecordingFails, Denied, StartTool, ToolReturns, InTools
  <2>. QED  BY <1>0, <2>1, BudgetInPlace
<1>5. ASSUME NEW i, AgentCallReturns(i)  PROVE BudgetIndInv'
  BY <1>0, <1>5, BudgetStutters DEF AgentCallReturns, budgetVars
<1>6. ASSUME NEW i, NEW b, ToolLaunches(i, b)  PROVE BudgetIndInv'
  <2>1. pc \in InTools /\ pc' \in InTools /\ UNCHANGED <<site, iteration, remaining, rounds>>
    BY <1>6 DEF ToolLaunches, InTools
  <2>. QED  BY <1>0, <2>1, BudgetInPlace
<1>7. ASSUME NEW i, NEW b, AgentCallLaunches(i, b)  PROVE BudgetIndInv'
  BY <1>0, <1>7, BudgetStutters DEF AgentCallLaunches, budgetVars
<1>8. CASE SendResults
  BY <1>0, <1>8
     DEF SendResults, CallModel, BudgetIndInv, IterationBudget, SiteFits, RoundIsPaid, InMainLoop, InTools,
         ToolSite
<1>9. CASE SendMiniResults
  BY <1>0, <1>9
     DEF SendMiniResults, CallModel, BudgetIndInv, IterationBudget, SiteFits, RoundIsPaid, InMainLoop,
         InTools, ToolSite
<1>. QED  BY <1>1, <1>2, <1>3, <1>4, <1>5, <1>6, <1>7, <1>8, <1>9 DEF ToolStep

LEMMA CompletionKeepsBudget == ASSUME BudgetIndInv, CompletionStep  PROVE BudgetIndInv'
<1>. USE DEF Goto, convVars, histVars, AfterFrame
<1>0. BudgetIndInv
  OBVIOUS
<1>1. CASE EnterBackgroundCompletion
  <2>1. MaxIter - iteration \in Nat /\ iteration + (MaxIter - iteration) = MaxIter
    BY <1>0, <1>1, LoopAssumption DEF EnterBackgroundCompletion, BudgetIndInv
  <2>2. rounds = iteration
    BY <1>0, <1>1 DEF EnterBackgroundCompletion, BudgetIndInv, SiteFits, IterationBudget, InMainLoop
  <2>. QED
    BY <1>0, <1>1, <2>1, <2>2
       DEF EnterBackgroundCompletion, BudgetIndInv, IterationBudget, SiteFits, RoundIsPaid, InMainLoop,
           InTools, ToolSite
<1>2. CASE EnterExhaustion
  BY <1>0, <1>2
     DEF EnterExhaustion, BudgetIndInv, IterationBudget, SiteFits, RoundIsPaid, InMainLoop, InTools
<1>3. CASE FinishLoop \/ EndCycles \/ NothingCollected
  BY <1>0, <1>3, BudgetInPlace DEF FinishLoop, EndCycles, NothingCollected
<1>4. CASE StartCycle
  BY <1>0, <1>4
     DEF StartCycle, BudgetIndInv, IterationBudget, SiteFits, RoundIsPaid, InMainLoop, InTools, ToolSite
<1>5. CASE WaitSeesAllDone \/ WaitGivesUp
  BY <1>0, <1>5
     DEF WaitSeesAllDone, WaitGivesUp, BudgetIndInv, IterationBudget, SiteFits, RoundIsPaid, InMainLoop,
         InTools
<1>6. CASE SendCollected
  BY <1>0, <1>6
     DEF SendCollected, CallModel, BudgetIndInv, IterationBudget, SiteFits, RoundIsPaid, InMainLoop, InTools
<1>. QED  BY <1>1, <1>2, <1>3, <1>4, <1>5, <1>6 DEF CompletionStep

LEMMA BudgetStep == BudgetIndInv /\ [Next]_vars => BudgetIndInv'
<1>. SUFFICES ASSUME BudgetIndInv, [Next]_vars  PROVE BudgetIndInv'
  OBVIOUS
<1>1. CASE ModelStep \/ ToolStep \/ CompletionStep
  BY <1>1, ModelKeepsBudget, ToolsKeepBudget, CompletionKeepsBudget
<1>2. CASE EmitDone \/ CloseDoneCh
  BY <1>2, BudgetInPlace DEF EmitDone, CloseDoneCh, Goto, convVars, histVars
<1>3. CASE RunClosesEvents \/ EmitProgress
  BY <1>3, BudgetStutters
     DEF RunClosesEvents, EmitProgress, loopVars, convVars, histVars, budgetVars
<1>4. ASSUME NEW b, BackgroundStep(b)  PROVE BudgetIndInv'
  BY <1>4, BudgetStutters DEF BackgroundStep, loopVars, convVars, histVars, budgetVars
<1>5. ASSUME NEW ok, UserAnswers(ok)  PROVE BudgetIndInv'
  BY <1>5, BudgetStutters DEF UserAnswers, convVars, histVars, budgetVars
<1>6. CASE TakeEvent \/ Cancel
  BY <1>6, BudgetStutters DEF TakeEvent, Cancel, convVars, histVars, budgetVars
<1>7. CASE UNCHANGED vars
  BY <1>7, BudgetStutters DEF vars, loopVars, convVars, histVars, budgetVars
<1>. QED
  BY <1>1, <1>2, <1>3, <1>4, <1>5, <1>6, <1>7 DEF Next, LoopStep, EndStep

\* However the tool loop, the completion cycles and the loop inside them follow each other, the
\* rounds of tool results stay within maxToolIterations (agent_loops.go, runLoop and
\* backgroundCompletion).
THEOREM OneBudget == Spec => []IterationBudget
<1>1. BudgetIndInv => IterationBudget
  BY DEF BudgetIndInv
<1>. QED  BY <1>1, BudgetStep, BudgetInitInv, PTL DEF Spec

-----------------------------------------------------------------------------
(* Background results *)

\* All the results that were ever queued, in order: told first, then waiting.
Queued == told \o inbox

\* The inductive invariant: what was queued is distinct and has finished.
ToldIndInv ==
  /\ phase \in [BgAgent -> Phase]
  /\ told \in Seq(BgAgent) /\ inbox \in Seq(BgAgent)
  /\ \A i, j \in DOMAIN Queued : Queued[i] = Queued[j] => i = j
  /\ \A i \in DOMAIN Queued : phase[Queued[i]] = "exited"

LEMMA ToldInitInv == Init => ToldIndInv
BY DEF Init, BgInit, ToldIndInv, Queued, Phase

LEMMA ToldStutters == ASSUME ToldIndInv, UNCHANGED <<phase, inbox, told>>  PROVE ToldIndInv'
BY DEF ToldIndInv, Queued

\* Handing the queue over keeps the order of everything queued so far.
LEMMA HandingOver ==
  ASSUME ToldIndInv, told' = told \o inbox, inbox' = <<>>, UNCHANGED phase
  PROVE  ToldIndInv'
<1>1. told' \in Seq(BgAgent) /\ inbox' \in Seq(BgAgent)
  BY DEF ToldIndInv
<1>2. Queued' = Queued
  BY <1>1 DEF ToldIndInv, Queued
<1>. QED  BY <1>1, <1>2 DEF ToldIndInv

\* A sub-agent that moves on from a phase before the last one leaves the queue alone.
LEMMA MovingOn ==
  ASSUME ToldIndInv, NEW b \in BgAgent, NEW p \in Phase,
         phase[b] # "exited", phase' = [phase EXCEPT ![b] = p], UNCHANGED <<inbox, told>>
  PROVE  ToldIndInv'
BY DEF ToldIndInv, Queued

LEMMA LaunchKeepsTold ==
  ASSUME ToldIndInv, NEW b \in BgAgent, ExecuteBackground(b), UNCHANGED told
  PROVE  ToldIndInv'
BY MovingOn DEF ExecuteBackground, Moves, Phase

\* Only its own goroutine queues a result, as its last step.
LEMMA InjectKeepsTold ==
  ASSUME ToldIndInv, NEW b \in BgAgent, InjectResult(b), UNCHANGED told
  PROVE  ToldIndInv'
<1>1. /\ phase[b] = "done"
      /\ phase' = [phase EXCEPT ![b] = "exited"]
      /\ inbox' = Append(inbox, b)
  BY DEF InjectResult, Moves
<1>2. /\ told \in Seq(BgAgent) /\ inbox \in Seq(BgAgent) /\ Queued \in Seq(BgAgent)
      /\ inbox' \in Seq(BgAgent)
  BY <1>1 DEF ToldIndInv, Queued
<1>3. Queued' = Append(Queued, b)
  BY <1>1, <1>2 DEF Queued
<1>4. phase' \in [BgAgent -> Phase] /\ phase'[b] = "exited"
  BY <1>1 DEF ToldIndInv, Phase
<1>5. \A i \in DOMAIN Queued : Queued[i] # b
  BY <1>1 DEF ToldIndInv
<1>6. \A i \in DOMAIN Queued' :
        \/ i \in DOMAIN Queued /\ Queued'[i] = Queued[i]
        \/ i = Len(Queued) + 1 /\ Queued'[i] = b
  BY <1>2, <1>3
<1>7. \A i, j \in DOMAIN Queued' : Queued'[i] = Queued'[j] => i = j
  BY <1>5, <1>6 DEF ToldIndInv
<1>8. \A i \in DOMAIN Queued : phase'[Queued[i]] = "exited"
  <2>. SUFFICES ASSUME NEW i \in DOMAIN Queued  PROVE phase'[Queued[i]] = "exited"
    OBVIOUS
  <2>1. Queued[i] \in BgAgent /\ Queued[i] # b
    BY <1>2, <1>5
  <2>2. phase[Queued[i]] = "exited"
    BY DEF ToldIndInv
  <2>. QED  BY <1>1, <2>1, <2>2 DEF ToldIndInv
<1>9. \A i \in DOMAIN Queued' : phase'[Queued'[i]] = "exited"
  BY <1>4, <1>6, <1>8
<1>. QED  BY <1>2, <1>4, <1>7, <1>9 DEF ToldIndInv

LEMMA BackgroundKeepsTold ==
  ASSUME ToldIndInv, NEW b \in BgAgent, AgentStep(b), UNCHANGED told
  PROVE  ToldIndInv'
<1>0. ToldIndInv
  OBVIOUS
<1>1. CASE ForwardProgress(b)
  BY <1>0, <1>1, ToldStutters DEF ForwardProgress, agentVars
<1>2. CASE AwaitApproval(b)
  BY <1>0, <1>2, MovingOn DEF AwaitApproval, Moves, Phase
<1>3. CASE RunEnds(b)
  BY <1>0, <1>3, MovingOn DEF RunEnds, Moves, Phase
<1>4. CASE ForwardDone(b) \/ ForwardDoneFails(b)
  BY <1>0, <1>4, MovingOn DEF ForwardDone, ForwardDoneFails, Moves, Phase
<1>5. CASE StoreResult(b)
  BY <1>0, <1>5, MovingOn DEF StoreResult, Moves, Phase
<1>6. CASE InjectResult(b)
  BY <1>0, <1>6, InjectKeepsTold
<1>. QED  BY <1>1, <1>2, <1>3, <1>4, <1>5, <1>6 DEF AgentStep

LEMMA ModelKeepsTold == ASSUME ModelStep  PROVE UNCHANGED <<phase, inbox, told>>
BY DEF ModelStep, StreamRetries, FirstCallFails, LoopCallFails, CompletionCallFails, FirstReply,
       LoopReply, NoNodeReply, ResumeReply, MiniReply, FinalReply, bgVars, histVars

LEMMA ToolsKeepTold == ASSUME ToldIndInv, ToolStep  PROVE ToldIndInv'
<1>0. ToldIndInv
  OBVIOUS
<1>1. CASE EnterLoop \/ CancelledAtHead \/ LeaveLoop \/ CancelledInApproval \/ ToolPanics
           \/ SendMiniResults
  BY <1>0, <1>1, ToldStutters
     DEF EnterLoop, CancelledAtHead, LeaveLoop, CancelledInApproval, ToolPanics, SendMiniResults,
         bgVars, histVars
<1>2. ASSUME NEW i, UnknownTool(i) \/ AskApproval(i) \/ Approved(i) \/ RecordingFails(i) \/ Denied(i)
                    \/ StartTool(i) \/ ToolReturns(i) \/ AgentCallReturns(i)
      PROVE  ToldIndInv'
  BY <1>0, <1>2, ToldStutters
     DEF UnknownTool, AskApproval, Approved, RecordingFails, Denied, StartTool, ToolReturns,
         AgentCallReturns, bgVars, agentVars, histVars
<1>3. ASSUME NEW i, NEW b \in BgAgent, ToolLaunches(i, b) \/ AgentCallLaunches(i, b)
      PROVE  ToldIndInv'
  BY <1>0, <1>3, LaunchKeepsTold DEF ToolLaunches, AgentCallLaunches, histVars
<1>4. CASE SendResults
  BY <1>0, <1>4, HandingOver DEF SendResults, agentVars
<1>. QED  BY <1>1, <1>2, <1>3, <1>4 DEF ToolStep

LEMMA CompletionKeepsTold == ASSUME ToldIndInv, CompletionStep  PROVE ToldIndInv'
<1>0. ToldIndInv
  OBVIOUS
<1>1. CASE SendCollected
  BY <1>0, <1>1, HandingOver DEF SendCollected, agentVars
<1>2. CASE \/ EnterBackgroundCompletion \/ EnterExhaustion \/ FinishLoop \/ StartCycle \/ EndCycles
           \/ WaitSeesAllDone \/ WaitGivesUp \/ NothingCollected
  BY <1>0, <1>2, ToldStutters
     DEF EnterBackgroundCompletion, EnterExhaustion, FinishLoop, StartCycle, EndCycles,
         WaitSeesAllDone, WaitGivesUp, NothingCollected, bgVars, histVars
<1>. QED  BY <1>1, <1>2 DEF CompletionStep

LEMMA ToldStep == ToldIndInv /\ [Next]_vars => ToldIndInv'
<1>. SUFFICES ASSUME ToldIndInv, [Next]_vars  PROVE ToldIndInv'
  OBVIOUS
<1>1. CASE ModelStep \/ ToolStep \/ CompletionStep
  BY <1>1, ModelKeepsTold, ToldStutters, ToolsKeepTold, CompletionKeepsTold
<1>2. CASE EmitDone \/ CloseDoneCh \/ RunClosesEvents \/ EmitProgress
  BY <1>2, ToldStutters
     DEF EmitDone, CloseDoneCh, LoopReturns, RunClosesEvents, CloseEvents, EmitProgress,
         ParentEmits, agentVars, loopVars, histVars
<1>3. ASSUME NEW b \in BgAgent, BackgroundStep(b)  PROVE ToldIndInv'
  BY <1>3, BackgroundKeepsTold DEF BackgroundStep, loopVars, histVars
<1>4. ASSUME NEW ok, UserAnswers(ok)  PROVE ToldIndInv'
  BY <1>4, ToldStutters DEF UserAnswers, bgVars, histVars
<1>5. CASE TakeEvent \/ Cancel
  BY <1>5, ToldStutters DEF TakeEvent, Consume, Cancel, CancelAll, agentVars, histVars
<1>6. CASE UNCHANGED vars
  BY <1>6, ToldStutters DEF vars, bgVars, loopVars, histVars
<1>. QED
  BY <1>1, <1>2, <1>3, <1>4, <1>5, <1>6 DEF Next, LoopStep, EndStep

\* No background result reaches the model twice or before its agent has finished, though the tool
\* loop, the completion cycles and the final call all drain the same queue
\* (agent_loops.go, drainBackgroundResults and its callers).
THEOREM ResultsToldOnce == Spec => []ToldOnce
<1>1. ToldIndInv => ToldOnce
  <2>. SUFFICES ASSUME ToldIndInv  PROVE ToldOnce
    OBVIOUS
  <2>1. \A i \in DOMAIN told : i \in DOMAIN Queued /\ Queued[i] = told[i]
    BY DEF ToldIndInv, Queued
  <2>2. \A b \in ToSet(told) : phase[b] = "exited"
    BY <2>1 DEF ToldIndInv, ToSet
  <2>. QED  BY <2>2 DEF ToldIndInv, ToldOnce, Queued
<1>. QED  BY <1>1, ToldStep, ToldInitInv, PTL DEF Spec

-----------------------------------------------------------------------------
(* Approvals *)

AnyEvent == BgEvent \cup {ApprovalReq(r) : r \in Nat \X Nat} \cup {DoneEvent(n) : n \in BOOLEAN}

\* The run's end has begun: its channels no longer matter to a tool call.
Ending == {"done", "signal", "returned"}

\* Where in the event channel requests for approval are.
Asks == {k \in DOMAIN events : events[k].tag = "approval"}

NothingAsked == Asks = {} /\ shown = <<>> /\ approval = <<>>

\* At most one thing is under way for call i: its request, the display or the answer.
AwaitsOne(i) ==
  /\ \A k \in Asks : events[k] = ApprovalReq(Request(i))
  /\ \A k, l \in Asks : k = l
  /\ Asks # {} => shown = <<>> /\ approval = <<>>
  /\ shown # <<>> => shown = <<Request(i)>> /\ approval = <<>>
  /\ approval = <<TRUE>> => Request(i) \in granted

ApprovalTypeOK ==
  /\ rounds \in Nat /\ hasNode \in BOOLEAN
  /\ calls \in Seq(CallKind)
  /\ events \in Seq(AnyEvent)
  /\ approval \in {<<>>, <<TRUE>>, <<FALSE>>}

\* The inductive invariant.
ApprovalIndInv ==
  /\ ApprovalTypeOK
  /\ pc \notin Ending \cup {"approval"} => NothingAsked
  /\ pc = "approval" => InMainLoop /\ \E i \in DOMAIN calls : IsDue(i) /\ AwaitsOne(i)
  /\ ApprovedBeforeRun

\* Whatever happened to the channel, no request for approval was added to it.
NoNewAsk ==
  /\ events' \in Seq(AnyEvent)
  /\ \A k \in Asks' : k \in Asks /\ events'[k] = events[k]

LEMMA ApprovalInitInv == Init => ApprovalIndInv
<1>. SUFFICES ASSUME Init  PROVE ApprovalIndInv
  OBVIOUS
<1>1. ApprovalTypeOK
  <2>1. calls \in Seq(CallKind) /\ events \in Seq(AnyEvent)
    BY DEF Init, BgInit
  <2>. QED  BY <2>1 DEF Init, ApprovalTypeOK
<1>2. pc = "llm" /\ NothingAsked
  BY DEF Init, BgInit, NothingAsked, Asks
<1>. QED  BY <1>1, <1>2 DEF ApprovalIndInv, ApprovedBeforeRun

\* At most one call is due.
LEMMA DueIsUnique ==
  ASSUME ApprovalTypeOK, NEW i, NEW j, IsDue(i), IsDue(j)
  PROVE  i = j
<1>1. i \in DOMAIN calls /\ j \in DOMAIN calls
  BY DEF IsDue, Unanswered
<1>2. i \in Nat /\ j \in Nat
  BY <1>1 DEF ApprovalTypeOK
<1>3. i <= j /\ j <= i
  BY DEF IsDue
<1>. QED  BY <1>2, <1>3

LEMMA SameEvents == ASSUME ApprovalTypeOK, UNCHANGED events  PROVE NoNewAsk
BY DEF ApprovalTypeOK, NoNewAsk, Asks

LEMMA AddedEvent ==
  ASSUME ApprovalTypeOK, NEW e \in AnyEvent, e.tag # "approval",
         events' = events \/ events' = Append(events, e)
  PROVE  NoNewAsk
<1>1. CASE events' = events
  BY <1>1, SameEvents
<1>2. CASE events' = Append(events, e)
  <2>1. events' \in Seq(AnyEvent)
    BY <1>2 DEF ApprovalTypeOK
  <2>2. \A k \in DOMAIN events' :
          \/ k \in DOMAIN events /\ events'[k] = events[k]
          \/ events'[k] = e
    BY <1>2 DEF ApprovalTypeOK
  <2>. QED  BY <2>1, <2>2 DEF NoNewAsk, Asks
<1>. QED  BY <1>1, <1>2

LEMMA OfferedEvent ==
  ASSUME ApprovalTypeOK, NEW e \in AnyEvent, e.tag # "approval", Offer(e)
  PROVE  NoNewAsk
BY AddedEvent DEF Offer

LEMMA PlainEvents ==
  /\ Info \in AnyEvent /\ Info.tag # "approval"
  /\ \A b \in BgAgent : SubDone(b) \in AnyEvent /\ SubDone(b).tag # "approval"
  /\ \A n \in BOOLEAN : DoneEvent(n) \in AnyEvent /\ DoneEvent(n).tag # "approval"
BY DEF AnyEvent, BgEvent, Info, SubDone, DoneEvent

\* Steps around the loop that leave requests, display and answers as they are.
LEMMA AroundTheLoop ==
  ASSUME ApprovalIndInv, NoNewAsk,
         UNCHANGED <<pc, site, rounds, hasNode, calls, results, approval, shown, granted>>
  PROVE  ApprovalIndInv'
<1>1. ApprovalTypeOK'
  BY DEF ApprovalIndInv, ApprovalTypeOK, NoNewAsk
<1>2. NothingAsked => NothingAsked'
  BY DEF NoNewAsk, NothingAsked
<1>3. \A i : Request(i)' = Request(i) /\ (IsDue(i) <=> IsDue(i)')
  BY DEF Request, IsDue, Unanswered, AgentCalls, InMainLoop
<1>4. InMainLoop' <=> InMainLoop
  BY DEF InMainLoop
<1>5. ASSUME NEW i, AwaitsOne(i)  PROVE AwaitsOne(i)'
  <2>1. Asks' # {} => Asks # {}
    BY DEF NoNewAsk
  <2>2. /\ \A k \in Asks' : events'[k] = ApprovalReq(Request(i))
        /\ \A k, l \in Asks' : k = l
    BY <1>5 DEF NoNewAsk, AwaitsOne
  <2>. QED  BY <1>3, <1>5, <2>1, <2>2 DEF AwaitsOne
<1>6. ApprovedBeforeRun'
  BY <1>3, <1>4 DEF ApprovalIndInv, ApprovedBeforeRun
<1>7. pc' = "approval" => InMainLoop' /\ \E i \in DOMAIN calls' : IsDue(i)' /\ AwaitsOne(i)'
  BY <1>3, <1>4, <1>5 DEF ApprovalIndInv
<1>. QED  BY <1>1, <1>2, <1>6, <1>7 DEF ApprovalIndInv

\* Steps of the loop with no request under way.
LEMMA NothingAskedStep ==
  ASSUME ApprovalIndInv, NoNewAsk, ApprovalTypeOK', UNCHANGED <<approval, shown>>,
         pc \notin Ending \cup {"approval"}, pc' \notin {"approval", "exec"}
  PROVE  ApprovalIndInv'
BY DEF ApprovalIndInv, NoNewAsk, NothingAsked, Asks, ApprovedBeforeRun

LEMMA EndingStep ==
  ASSUME ApprovalTypeOK', pc' \in Ending
  PROVE  ApprovalIndInv'
BY DEF ApprovalIndInv, ApprovedBeforeRun, Ending

LEMMA ModelKeepsApproval == ASSUME ApprovalIndInv, ModelStep  PROVE ApprovalIndInv'
<1>1. pc = "llm" /\ UNCHANGED <<events, approval, shown>>
  BY DEF ModelStep, StreamRetries, FirstCallFails, LoopCallFails, CompletionCallFails, FirstReply,
         LoopReply, NoNodeReply, ResumeReply, MiniReply, FinalReply, bgVars, userVars
<1>2. pc' \in {"llm", "head", "after", "done"}
  BY DEF ModelStep, StreamRetries, FirstCallFails, LoopCallFails, CompletionCallFails, FirstReply,
         LoopReply, NoNodeReply, ResumeReply, MiniReply, FinalReply, Goto
<1>3. calls' \in Seq(CallKind)
  <2>1. CASE UNCHANGED calls
    BY <2>1 DEF ApprovalIndInv, ApprovalTypeOK
  <2>2. CASE calls' = <<>>
    BY <2>2
  <2>3. CASE calls' \in Replies
    BY <2>3, LoopAssumption
  <2>. QED
    BY <2>1, <2>2, <2>3
       DEF ModelStep, StreamRetries, FirstCallFails, LoopCallFails, CompletionCallFails, FirstReply,
           LoopReply, NoNodeReply, ResumeReply, MiniReply, FinalReply, Receive, convVars
<1>4. hasNode' \in BOOLEAN
  <2>1. CASE UNCHANGED hasNode
    BY <2>1 DEF ApprovalIndInv, ApprovalTypeOK
  <2>. QED
    BY <2>1
       DEF ModelStep, StreamRetries, FirstCallFails, LoopCallFails, CompletionCallFails, FirstReply,
           LoopReply, NoNodeReply, ResumeReply, MiniReply, FinalReply, convVars
<1>5. rounds' \in Nat
  BY DEF ModelStep, StreamRetries, FirstCallFails, LoopCallFails, CompletionCallFails, FirstReply,
         LoopReply, NoNodeReply, ResumeReply, MiniReply, FinalReply, histVars,
         ApprovalIndInv, ApprovalTypeOK
<1>6. ApprovalTypeOK' /\ NoNewAsk
  BY <1>1, <1>3, <1>4, <1>5, SameEvents DEF ApprovalIndInv, ApprovalTypeOK
<1>. QED  BY <1>1, <1>2, <1>6, NothingAskedStep DEF Ending

\* The answer that arrives is the answer to the call that waits for it.
LEMMA AnswerIsForDue ==
  ASSUME ApprovalIndInv, pc = "approval", approval # <<>>, NEW i, IsDue(i)
  PROVE  /\ InMainLoop
         /\ Asks = {} /\ shown = <<>>
         /\ Head(approval) => Request(i) \in granted
<1>1. PICK j \in DOMAIN calls : IsDue(j) /\ AwaitsOne(j)
  BY DEF ApprovalIndInv
<1>2. i = j
  BY <1>1, DueIsUnique DEF ApprovalIndInv
<1>3. approval = <<TRUE>> \/ approval = <<FALSE>>
  BY DEF ApprovalIndInv, ApprovalTypeOK
<1>4. Head(approval) => approval = <<TRUE>>
  <2>1. \A x : Head(<<x>>) = x
    OBVIOUS
  <2>2. CASE approval = <<FALSE>>
    <3>1. Head(approval) = FALSE
      BY <2>1, <2>2, Zenon
    <3>. QED  BY <3>1, Zenon
  <2>. QED  BY <1>3, <2>2
<1>. QED  BY <1>1, <1>2, <1>4 DEF AwaitsOne, ApprovalIndInv

LEMMA AskKeepsApproval ==
  ASSUME ApprovalIndInv, NEW i \in DOMAIN calls, AskApproval(i)
  PROVE  ApprovalIndInv'
<1>. DEFINE e == ApprovalReq(Request(i))
<1>1. NothingAsked /\ ApprovalTypeOK
  BY DEF ApprovalIndInv, AskApproval, Ending
<1>2. e \in AnyEvent
  <2>1. Request(i) \in Nat \X Nat
    BY <1>1 DEF ApprovalTypeOK, Request
  <2>. QED  BY <2>1 DEF AnyEvent
<1>3. events' = events \/ events' = Append(events, e)
  BY DEF AskApproval, Offer
<1>4. events' \in Seq(AnyEvent)
  BY <1>1, <1>2, <1>3 DEF ApprovalTypeOK
<1>5. \A k \in Asks' : k = Len(events) + 1 /\ events'[k] = e
  BY <1>1, <1>3 DEF ApprovalTypeOK, NothingAsked, Asks
<1>6. /\ pc' = "approval" /\ InMainLoop' /\ IsDue(i)' /\ Request(i)' = Request(i)
      /\ UNCHANGED <<rounds, hasNode, calls, approval, shown>>
  BY DEF AskApproval, Goto, InMainLoop, IsDue, Unanswered, AgentCalls, Request, convVars, userVars,
         histVars
<1>7. AwaitsOne(i)'
  BY <1>1, <1>5, <1>6 DEF AwaitsOne, NothingAsked
<1>8. ApprovalTypeOK'
  BY <1>1, <1>4, <1>6 DEF ApprovalTypeOK
<1>. QED  BY <1>6, <1>7, <1>8 DEF ApprovalIndInv, ApprovedBeforeRun, Ending

LEMMA ApprovedKeepsApproval ==
  ASSUME ApprovalIndInv, NEW i, Approved(i)
  PROVE  ApprovalIndInv'
<1>1. /\ pc' = "exec" /\ approval' = <<>> /\ UNCHANGED <<events, shown>>
      /\ UNCHANGED <<site, rounds, hasNode, calls, results, granted>>
  BY DEF Approved, Goto, bgVars, convVars, histVars
<1>2. Asks = {} /\ shown = <<>>
  BY AnswerIsForDue DEF Approved
<1>3. \A j \in DOMAIN calls : IsDue(j) => Request(j) \in granted
  BY AnswerIsForDue DEF Approved
<1>4. NothingAsked' /\ ApprovalTypeOK'
  BY <1>1, <1>2 DEF NothingAsked, Asks, ApprovalIndInv, ApprovalTypeOK
<1>5. ApprovedBeforeRun'
  BY <1>1, <1>3
     DEF ApprovedBeforeRun, IsDue, Unanswered, AgentCalls, InMainLoop, Request
<1>. QED  BY <1>1, <1>4, <1>5 DEF ApprovalIndInv

LEMMA RefusedKeepsApproval ==
  ASSUME ApprovalIndInv, NEW i, RecordingFails(i) \/ Denied(i)
  PROVE  ApprovalIndInv'
<1>1. /\ pc' = "calls" /\ approval' = <<>>
      /\ UNCHANGED <<events, shown, rounds, hasNode, calls>>
  BY DEF RecordingFails, Denied, Answer, Goto, bgVars, CallFrame, histVars
<1>2. Asks = {} /\ shown = <<>>
  BY AnswerIsForDue DEF RecordingFails, Denied
<1>3. NothingAsked' /\ ApprovalTypeOK'
  BY <1>1, <1>2 DEF NothingAsked, Asks, ApprovalIndInv, ApprovalTypeOK
<1>. QED  BY <1>1, <1>3 DEF ApprovalIndInv, ApprovedBeforeRun

LEMMA StartKeepsApproval ==
  ASSUME ApprovalIndInv, NEW i, StartTool(i)
  PROVE  ApprovalIndInv'
<1>1. /\ pc = "calls" /\ pc' = "exec" /\ IsDue(i)
      /\ UNCHANGED <<events, shown, approval, site, rounds, hasNode, calls, results, granted>>
  BY DEF StartTool, Goto, bgVars, convVars, userVars, histVars
<1>2. InMainLoop => \A j \in DOMAIN calls : IsDue(j) => calls[j] = "plain"
  BY <1>1, DueIsUnique DEF StartTool, ApprovalIndInv
<1>3. NothingAsked' /\ ApprovalTypeOK'
  BY <1>1 DEF NothingAsked, Asks, ApprovalIndInv, ApprovalTypeOK, Ending
<1>4. ApprovedBeforeRun'
  BY <1>1, <1>2 DEF ApprovedBeforeRun, IsDue, Unanswered, AgentCalls, InMainLoop
<1>. QED  BY <1>1, <1>3, <1>4 DEF ApprovalIndInv

LEMMA ToolsKeepApproval == ASSUME ApprovalIndInv, ToolStep  PROVE ApprovalIndInv'
<1>0. ApprovalIndInv
  OBVIOUS
<1>1. CASE CancelledAtHead \/ CancelledInApproval \/ ToolPanics
  <2>1. pc' \in Ending
    BY <1>1 DEF CancelledAtHead, CancelledInApproval, ToolPanics, Goto, Ending
  <2>2. ApprovalTypeOK'
    BY <1>0, <1>1
       DEF CancelledAtHead, CancelledInApproval, ToolPanics, ApprovalIndInv, ApprovalTypeOK, bgVars,
           convVars, userVars
  <2>. QED  BY <2>1, <2>2, EndingStep
<1>2. CASE EnterLoop \/ LeaveLoop \/ SendResults \/ SendMiniResults
  <2>1. /\ pc \in {"head", "calls"} /\ pc' \in {"calls", "after", "cycle", "llm"}
        /\ UNCHANGED <<events, approval, shown, rounds, hasNode, calls>>
    BY <1>2
       DEF EnterLoop, LeaveLoop, SendResults, SendMiniResults, CallModel, Goto, bgVars, convVars,
           userVars, histVars
  <2>2. ApprovalTypeOK' /\ NoNewAsk
    BY <1>0, <2>1, SameEvents DEF ApprovalIndInv, ApprovalTypeOK
  <2>. QED  BY <1>0, <2>1, <2>2, NothingAskedStep DEF Ending
<1>3. ASSUME NEW i, UnknownTool(i) \/ ToolReturns(i) \/ AgentCallReturns(i)  PROVE ApprovalIndInv'
  <2>1. /\ pc \in {"calls", "exec"} /\ pc' = "calls"
        /\ UNCHANGED <<events, approval, shown, rounds, hasNode, calls>>
    BY <1>3
       DEF UnknownTool, ToolReturns, AgentCallReturns, Answer, Goto, bgVars, CallFrame, userVars,
           histVars
  <2>2. ApprovalTypeOK' /\ NoNewAsk
    BY <1>0, <2>1, SameEvents DEF ApprovalIndInv, ApprovalTypeOK
  <2>. QED  BY <1>0, <2>1, <2>2, NothingAskedStep DEF Ending
<1>4. ASSUME NEW i, NEW b, ToolLaunches(i, b) \/ AgentCallLaunches(i, b)  PROVE ApprovalIndInv'
  <2>1. /\ pc \in {"calls", "exec"} /\ pc' = "calls" /\ Offer(Info)
        /\ UNCHANGED <<approval, shown, rounds, hasNode, calls>>
    BY <1>4
       DEF ToolLaunches, AgentCallLaunches, ExecuteBackground, Answer, Goto, CallFrame, userVars,
           histVars
  <2>2. NoNewAsk
    BY <1>0, <2>1, OfferedEvent, PlainEvents DEF ApprovalIndInv
  <2>3. ApprovalTypeOK'
    BY <1>0, <2>1, <2>2 DEF ApprovalIndInv, ApprovalTypeOK, NoNewAsk
  <2>. QED  BY <1>0, <2>1, <2>2, <2>3, NothingAskedStep DEF Ending
<1>5. ASSUME NEW i \in DOMAIN calls, AskApproval(i)  PROVE ApprovalIndInv'
  BY <1>0, <1>5, AskKeepsApproval
<1>6. ASSUME NEW i, Approved(i)  PROVE ApprovalIndInv'
  BY <1>0, <1>6, ApprovedKeepsApproval
<1>7. ASSUME NEW i, RecordingFails(i) \/ Denied(i)  PROVE ApprovalIndInv'
  BY <1>0, <1>7, RefusedKeepsApproval
<1>8. ASSUME NEW i, StartTool(i)  PROVE ApprovalIndInv'
  BY <1>0, <1>8, StartKeepsApproval
<1>. QED  BY <1>1, <1>2, <1>3, <1>4, <1>5, <1>6, <1>7, <1>8 DEF ToolStep

LEMMA CompletionKeepsApproval == ASSUME ApprovalIndInv, CompletionStep  PROVE ApprovalIndInv'
<1>0. ApprovalIndInv
  OBVIOUS
<1>1. UNCHANGED <<events, approval, shown, rounds, hasNode, calls>>
  BY DEF CompletionStep, EnterBackgroundCompletion, EnterExhaustion, FinishLoop, StartCycle,
         EndCycles, WaitSeesAllDone, WaitGivesUp, NothingCollected, SendCollected, AfterFrame,
         bgVars, convVars, userVars, histVars
<1>2. /\ pc \in {"after", "cycle", "wait", "collect"}
      /\ pc' \in {"cycle", "wait", "done", "collect", "llm"}
  BY DEF CompletionStep, EnterBackgroundCompletion, EnterExhaustion, FinishLoop, StartCycle,
         EndCycles, WaitSeesAllDone, WaitGivesUp, NothingCollected, SendCollected, CallModel, Goto
<1>3. ApprovalTypeOK' /\ NoNewAsk
  BY <1>0, <1>1, SameEvents DEF ApprovalIndInv, ApprovalTypeOK
<1>. QED  BY <1>0, <1>1, <1>2, <1>3, NothingAskedStep DEF Ending

\* What Tail does to the places of a sequence.
LEMMA TailPlaces ==
  ASSUME NEW S, NEW s \in Seq(S), s # <<>>
  PROVE  /\ Tail(s) \in Seq(S) /\ 1 \in DOMAIN s /\ Head(s) = s[1]
         /\ \A k \in DOMAIN Tail(s) : /\ k + 1 \in DOMAIN s /\ Tail(s)[k] = s[k + 1]
                                      /\ k \in Nat \ {0}
OBVIOUS

LEMMA TakeKeepsApproval ==
  ASSUME ApprovalIndInv, TakeEvent
  PROVE  ApprovalIndInv'
<1>. DEFINE e == Head(events)
<1>1. /\ events # <<>> /\ events' = Tail(events)
      /\ UNCHANGED <<pc, site, rounds, hasNode, calls, results, approval, granted>>
  BY DEF TakeEvent, Consume, convVars, histVars
<1>2. /\ events' \in Seq(AnyEvent) /\ 1 \in DOMAIN events /\ e = events[1]
      /\ \A k \in Asks' : k + 1 \in Asks /\ events'[k] = events[k + 1] /\ k \in Nat \ {0}
  BY <1>1, TailPlaces DEF Asks, ApprovalIndInv, ApprovalTypeOK
<1>3. shown' = IF e.tag = "approval" THEN <<e.id>> ELSE shown
  BY DEF TakeEvent
<1>4. ApprovalTypeOK'
  BY <1>1, <1>2 DEF ApprovalIndInv, ApprovalTypeOK
<1>5. NothingAsked => NothingAsked'
  <2>. SUFFICES ASSUME NothingAsked  PROVE NothingAsked'
    OBVIOUS
  <2>1. Asks' = {}
    BY <1>2 DEF NothingAsked
  <2>2. e.tag # "approval"
    BY <1>2 DEF NothingAsked, Asks
  <2>. QED  BY <1>1, <1>3, <2>1, <2>2 DEF NothingAsked
<1>6. ASSUME NEW i, AwaitsOne(i)  PROVE AwaitsOne(i)'
  <2>1. Request(i)' = Request(i)
    BY <1>1 DEF Request
  <2>2. CASE e.tag = "approval"
    <3>1. 1 \in Asks
      BY <1>2, <2>2 DEF Asks
    <3>2. /\ e = ApprovalReq(Request(i)) /\ shown = <<>> /\ approval = <<>>
          /\ \A k \in Asks : k = 1
      BY <1>2, <1>6, <3>1 DEF AwaitsOne
    <3>3. shown' = <<Request(i)>>
      BY <1>3, <2>2, <3>2 DEF ApprovalReq
    <3>4. Asks' = {}
      BY <1>2, <3>2
    <3>. QED  BY <1>1, <2>1, <3>2, <3>3, <3>4 DEF AwaitsOne
  <2>3. CASE e.tag # "approval"
    <3>1. shown' = shown
      BY <1>3, <2>3
    <3>2. \A k \in Asks' : events'[k] = ApprovalReq(Request(i))
      BY <1>2, <1>6 DEF AwaitsOne
    <3>3. \A k, l \in Asks' : k = l
      BY <1>2, <1>6 DEF AwaitsOne
    <3>4. Asks' # {} => Asks # {}
      BY <1>2
    <3>. QED  BY <1>1, <1>6, <2>1, <3>1, <3>2, <3>3, <3>4 DEF AwaitsOne
  <2>. QED  BY <2>2, <2>3
<1>7. ApprovedBeforeRun'
  BY <1>1 DEF ApprovalIndInv, ApprovedBeforeRun, IsDue, Unanswered, AgentCalls, InMainLoop, Request
<1>8. pc' = "approval" => InMainLoop' /\ \E i \in DOMAIN calls' : IsDue(i)' /\ AwaitsOne(i)'
  BY <1>1, <1>6 DEF ApprovalIndInv, IsDue, Unanswered, AgentCalls, InMainLoop
<1>. QED  BY <1>1, <1>4, <1>5, <1>7, <1>8 DEF ApprovalIndInv

LEMMA AnswerKeepsApproval ==
  ASSUME ApprovalIndInv, NEW ok \in BOOLEAN, UserAnswers(ok)
  PROVE  ApprovalIndInv'
<1>1. /\ shown # <<>> /\ shown' = <<>>
      /\ approval' = IF approval = <<>> THEN <<ok>> ELSE approval
      /\ granted' = IF ok THEN granted \cup {Head(shown)} ELSE granted
      /\ UNCHANGED <<events, pc, site, rounds, hasNode, calls, results>>
  BY DEF UserAnswers, bgVars, convVars, histVars
<1>2. ApprovalTypeOK'
  BY <1>1 DEF ApprovalIndInv, ApprovalTypeOK
<1>3. granted \subseteq granted'
  BY <1>1
<1>4. pc \in Ending \cup {"approval"}
  BY <1>1 DEF ApprovalIndInv, NothingAsked
<1>5. ASSUME NEW i, AwaitsOne(i)  PROVE AwaitsOne(i)'
  <2>1. shown = <<Request(i)>> /\ approval = <<>> /\ Asks = {} /\ Request(i)' = Request(i)
    BY <1>1, <1>5 DEF AwaitsOne, Request
  <2>2. approval' = <<ok>>
    BY <1>1, <2>1
  <2>3. Asks' = {}
    BY <1>1, <2>1 DEF Asks
  <2>4. ok => Request(i) \in granted'
    BY <1>1, <2>1
  <2>5. approval' = <<TRUE>> => ok
    BY <2>2
  <2>. QED  BY <1>1, <2>1, <2>3, <2>4, <2>5 DEF AwaitsOne
<1>6. pc' = "approval" => InMainLoop' /\ \E i \in DOMAIN calls' : IsDue(i)' /\ AwaitsOne(i)'
  BY <1>1, <1>5 DEF ApprovalIndInv, IsDue, Unanswered, AgentCalls, InMainLoop
<1>7. ApprovedBeforeRun'
  BY <1>1, <1>4 DEF ApprovedBeforeRun, Ending
<1>. QED  BY <1>1, <1>2, <1>4, <1>6, <1>7 DEF ApprovalIndInv

LEMMA BackgroundKeepsApproval ==
  ASSUME ApprovalIndInv, NEW b \in BgAgent, BackgroundStep(b)
  PROVE  ApprovalIndInv'
<1>0. ApprovalIndInv
  OBVIOUS
<1>1. UNCHANGED <<pc, site, rounds, hasNode, calls, results, approval, shown, granted>>
  BY DEF BackgroundStep, loopVars, convVars, userVars, histVars
<1>2. \/ events' = events \/ events' = Append(events, Info)
      \/ events' = Append(events, SubDone(b))
  BY DEF BackgroundStep, AgentStep, ForwardProgress, AwaitApproval, RunEnds, ForwardDone,
         ForwardDoneFails, StoreResult, InjectResult, Offer
<1>3. NoNewAsk
  BY <1>0, <1>2, AddedEvent, PlainEvents DEF ApprovalIndInv
<1>. QED  BY <1>0, <1>1, <1>3, AroundTheLoop

LEMMA ApprovalStep == ApprovalIndInv /\ [Next]_vars => ApprovalIndInv'
<1>. SUFFICES ASSUME ApprovalIndInv, [Next]_vars  PROVE ApprovalIndInv'
  OBVIOUS
<1>0. ApprovalTypeOK
  BY DEF ApprovalIndInv
<1>1. CASE ModelStep \/ ToolStep \/ CompletionStep
  BY <1>1, ModelKeepsApproval, ToolsKeepApproval, CompletionKeepsApproval
<1>2. CASE EmitDone
  <2>1. NoNewAsk
    BY <1>0, <1>2, OfferedEvent, PlainEvents DEF EmitDone, ApprovalTypeOK
  <2>2. pc' \in Ending /\ UNCHANGED <<rounds, hasNode, calls, approval>>
    BY <1>2 DEF EmitDone, Goto, Ending, convVars, userVars, histVars
  <2>. QED  BY <1>0, <2>1, <2>2, EndingStep DEF ApprovalTypeOK, NoNewAsk
<1>3. CASE CloseDoneCh
  <2>1. pc' \in Ending /\ UNCHANGED <<rounds, hasNode, calls, approval, events>>
    BY <1>3 DEF CloseDoneCh, LoopReturns, Goto, Ending, convVars, userVars, histVars
  <2>. QED  BY <1>0, <2>1, EndingStep DEF ApprovalTypeOK
<1>4. CASE RunClosesEvents \/ EmitProgress
  <2>1. UNCHANGED <<pc, site, rounds, hasNode, calls, results, approval, shown, granted>>
    BY <1>4 DEF RunClosesEvents, EmitProgress, loopVars, convVars, userVars, histVars
  <2>2. UNCHANGED events \/ Offer(Info)
    BY <1>4 DEF RunClosesEvents, EmitProgress, CloseEvents, ParentEmits
  <2>3. NoNewAsk
    BY <1>0, <2>2, SameEvents, OfferedEvent, PlainEvents
  <2>. QED  BY <2>1, <2>3, AroundTheLoop
<1>5. ASSUME NEW b \in BgAgent, BackgroundStep(b)  PROVE ApprovalIndInv'
  BY <1>5, BackgroundKeepsApproval
<1>6. ASSUME NEW ok \in BOOLEAN, UserAnswers(ok)  PROVE ApprovalIndInv'
  BY <1>6, AnswerKeepsApproval
<1>7. CASE TakeEvent
  BY <1>7, TakeKeepsApproval
<1>8. CASE Cancel
  <2>1. /\ UNCHANGED <<pc, site, rounds, hasNode, calls, results, approval, shown, granted>>
        /\ UNCHANGED events
    BY <1>8 DEF Cancel, CancelAll, convVars, histVars
  <2>. QED  BY <1>0, <2>1, SameEvents, AroundTheLoop
<1>9. CASE UNCHANGED vars
  <2>1. /\ UNCHANGED <<pc, site, rounds, hasNode, calls, results, approval, shown, granted>>
        /\ UNCHANGED events
    BY <1>9 DEF vars, bgVars, loopVars, convVars, userVars, histVars
  <2>. QED  BY <1>0, <2>1, SameEvents, AroundTheLoop
<1>. QED
  BY <1>1, <1>2, <1>3, <1>4, <1>5, <1>6, <1>7, <1>8, <1>9 DEF Next, LoopStep, EndStep

\* A tool that needs approval runs in the main loop only after the user approved this very call:
\* an answer cannot belong to an earlier request, one that was dropped or one of another round
\* (agent_loops.go, the approval wait of runLoop; agent.go, Approve).
THEOREM ApprovalFirst == Spec => []ApprovedBeforeRun
<1>1. ApprovalIndInv => ApprovedBeforeRun
  BY DEF ApprovalIndInv
<1>. QED  BY <1>1, ApprovalStep, ApprovalInitInv, PTL DEF Spec

-----------------------------------------------------------------------------
(* The end of a run without failures *)

\* What is known on the way to the end of such a run.
OnTheWay ==
  /\ pc = "after" /\ calls # <<>> => iteration >= MaxIter
  /\ site = "final" => rounds = MaxIter
  /\ pc = "cycle" /\ calls # <<>> => remaining = 0
  /\ pc \in {"wait", "collect"} /\ site = "resume" => calls = <<>>
  /\ pc = "collect" => ~HasPendingBackgroundAgents

\* The inductive invariant, together with that of the budget.
EndIndInv ==
  /\ cycle \in Nat /\ cycle <= MaxCycles
  /\ failed \in BOOLEAN
  /\ ~failed => OnTheWay
  /\ OrderlyEnd

LEMMA EndInitInv == Init => EndIndInv
<1>. SUFFICES ASSUME Init  PROVE EndIndInv
  OBVIOUS
<1>1. cycle \in Nat /\ cycle <= MaxCycles
  BY LoopAssumption DEF Init
<1>2. failed \in BOOLEAN
  BY DEF Init
<1>3. OnTheWay /\ OrderlyEnd
  BY DEF Init, OnTheWay, OrderlyEnd
<1>. QED  BY <1>1, <1>2, <1>3 DEF EndIndInv

\* No sub-agent becomes pending but by a launch.
LEMMA FewerPending ==
  ASSUME EndIndInv, UNCHANGED <<pc, site, iteration, remaining, cycle, calls, rounds, failed>>,
         HasPendingBackgroundAgents' => HasPendingBackgroundAgents
  PROVE  EndIndInv'
BY DEF EndIndInv, OnTheWay, OrderlyEnd

\* A step inside a round or a model call, and one that ends the run with a failure.
LEMMA InsideRound ==
  ASSUME EndIndInv, UNCHANGED <<cycle, failed, rounds>>, site' = "final" => site = "final",
         pc' \notin {"after", "cycle", "wait", "collect", "done"}
  PROVE  EndIndInv'
BY DEF EndIndInv, OnTheWay, OrderlyEnd

LEMMA FailingStep ==
  ASSUME EndIndInv, UNCHANGED cycle, failed' = TRUE
  PROVE  EndIndInv'
BY DEF EndIndInv, OrderlyEnd

LEMMA ModelKeepsEnd == ASSUME EndIndInv, BudgetIndInv, ModelStep  PROVE EndIndInv'
<1>. USE DEF Goto, Receive
<1>0. EndIndInv
  OBVIOUS
<1>1. CASE FirstCallFails \/ LoopCallFails \/ CompletionCallFails \/ NoNodeReply
  BY <1>0, <1>1, FailingStep
     DEF FirstCallFails, LoopCallFails, CompletionCallFails, NoNodeReply, convVars
<1>2. CASE StreamRetries
  BY <1>0, <1>2, InsideRound DEF StreamRetries, histVars
<1>3. ASSUME NEW r, NEW n \in BOOLEAN, FirstReply(r, n) \/ LoopReply(r, n)  PROVE EndIndInv'
  <2>1. CASE n = FALSE
    <3>1. UNCHANGED cycle /\ failed' = TRUE
      BY <1>3, <2>1 DEF FirstReply, LoopReply
    <3>. QED  BY <1>0, <3>1, FailingStep
  <2>2. CASE n = TRUE
    <3>1. pc' = "head" /\ site \in {"first", "loop"} /\ UNCHANGED <<site, cycle>>
      BY <1>3, <2>2 DEF FirstReply, LoopReply
    <3>2. failed' = failed
      BY <1>0, <1>3, <2>2 DEF FirstReply, LoopReply, EndIndInv
    <3>. QED  BY <1>0, <3>1, <3>2 DEF EndIndInv, OnTheWay, OrderlyEnd
  <2>. QED  BY <2>1, <2>2
<1>4. ASSUME NEW r, ResumeReply(r) \/ MiniReply(r)  PROVE EndIndInv'
  <2>1. /\ pc' = "head" /\ site \in {"resume", "mini"}
        /\ UNCHANGED <<site, cycle, failed>>
    BY <1>4 DEF ResumeReply, MiniReply, histVars
  <2>. QED  BY <1>0, <2>1 DEF EndIndInv, OnTheWay, OrderlyEnd
<1>5. CASE FinalReply
  BY <1>0, <1>5 DEF FinalReply, histVars, EndIndInv, OnTheWay, OrderlyEnd
<1>. QED  BY <1>1, <1>2, <1>3, <1>4, <1>5 DEF ModelStep

LEMMA ToolsKeepEnd == ASSUME EndIndInv, BudgetIndInv, ToolStep  PROVE EndIndInv'
<1>. USE DEF Goto, convVars, histVars, CallFrame, Answer
<1>0. EndIndInv
  OBVIOUS
<1>1. CASE CancelledAtHead \/ CancelledInApproval \/ ToolPanics
  BY <1>0, <1>1, FailingStep DEF CancelledAtHead, CancelledInApproval, ToolPanics
<1>2. CASE LeaveLoop
  <2>1. pc' = (IF InMainLoop THEN "after" ELSE "cycle")
        /\ UNCHANGED <<site, iteration, remaining, cycle, calls, rounds, failed>>
    BY <1>2 DEF LeaveLoop
  <2>2. calls # <<>> => IF InMainLoop THEN iteration >= MaxIter ELSE remaining = 0
    BY <1>2, LoopAssumption DEF LeaveLoop, BudgetLeft, BudgetIndInv
  <2>. QED  BY <1>0, <2>1, <2>2 DEF EndIndInv, OnTheWay, OrderlyEnd
<1>3. CASE EnterLoop \/ SendResults \/ SendMiniResults
  BY <1>0, <1>3, InsideRound DEF EnterLoop, SendResults, SendMiniResults, CallModel
<1>4. ASSUME NEW i, UnknownTool(i) \/ AskApproval(i) \/ Approved(i) \/ RecordingFails(i) \/ Denied(i)
                    \/ StartTool(i) \/ ToolReturns(i) \/ AgentCallReturns(i)
      PROVE  EndIndInv'
  BY <1>0, <1>4, InsideRound
     DEF UnknownTool, AskApproval, Approved, RecordingFails, Denied, StartTool, ToolReturns,
         AgentCallReturns
<1>5. ASSUME NEW i, NEW b, ToolLaunches(i, b) \/ AgentCallLaunches(i, b)  PROVE EndIndInv'
  BY <1>0, <1>5, InsideRound DEF ToolLaunches, AgentCallLaunches
<1>. QED  BY <1>1, <1>2, <1>3, <1>4, <1>5 DEF ToolStep

LEMMA CompletionKeepsEnd == ASSUME EndIndInv, BudgetIndInv, CompletionStep  PROVE EndIndInv'
<1>. USE DEF Goto, convVars, histVars, AfterFrame
<1>0. EndIndInv
  OBVIOUS
<1>1. CASE EnterBackgroundCompletion
  BY <1>0, <1>1, LoopAssumption DEF EnterBackgroundCompletion, EndIndInv, OnTheWay, OrderlyEnd
<1>2. CASE EnterExhaustion
  <2>1. rounds = MaxIter
    BY <1>2, LoopAssumption
       DEF EnterExhaustion, BudgetIndInv, IterationBudget, SiteFits, InMainLoop
  <2>2. pc' = "wait" /\ site' = "final" /\ UNCHANGED <<cycle, failed, rounds>>
    BY <1>2 DEF EnterExhaustion
  <2>. QED  BY <1>0, <2>1, <2>2 DEF EndIndInv, OnTheWay, OrderlyEnd
<1>3. CASE FinishLoop
  <2>1. iteration >= MaxIter => rounds = MaxIter
    BY <1>3, LoopAssumption DEF FinishLoop, BudgetIndInv, IterationBudget, SiteFits, InMainLoop
  <2>2. ~failed /\ calls # <<>> => iteration >= MaxIter
    BY <1>0, <1>3 DEF FinishLoop, EndIndInv, OnTheWay
  <2>3. pc' = "done" /\ UNCHANGED <<site, cycle, calls, rounds, failed>>
    BY <1>3 DEF FinishLoop
  <2>4. calls = <<>> <=> iteration >= MaxIter
    BY <1>3 DEF FinishLoop
  <2>. QED  BY <1>0, <2>1, <2>2, <2>3, <2>4 DEF EndIndInv, OnTheWay, OrderlyEnd
<1>4. CASE StartCycle
  <2>1. cycle < MaxCycles /\ remaining > 0
    BY <1>4 DEF StartCycle, CycleGoesOn
  <2>2. pc = "cycle" /\ pc' = "wait" /\ site' = "resume" /\ cycle' = cycle + 1
        /\ UNCHANGED <<calls, failed>>
    BY <1>4 DEF StartCycle
  <2>. QED  BY <1>0, <2>1, <2>2, LoopAssumption DEF EndIndInv, OnTheWay, OrderlyEnd
<1>5. CASE EndCycles
  <2>1. \/ cycle = MaxCycles
        \/ remaining = 0
        \/ ~HasPendingBackgroundAgents
    BY <1>0, <1>5, LoopAssumption DEF EndCycles, CycleGoesOn, BudgetIndInv, EndIndInv
  <2>2. remaining = 0 => rounds = MaxIter
    BY <1>5, LoopAssumption DEF EndCycles, BudgetIndInv, IterationBudget, SiteFits
  <2>3. /\ pc = "cycle" /\ pc' = "done" /\ UNCHANGED <<site, cycle, calls, rounds, failed>>
        /\ UNCHANGED phase
    BY <1>5 DEF EndCycles, bgVars
  <2>. QED
    BY <1>0, <2>1, <2>2, <2>3
       DEF EndIndInv, OnTheWay, OrderlyEnd, HasPendingBackgroundAgents, Pending
<1>6. CASE WaitSeesAllDone
  BY <1>0, <1>6
     DEF WaitSeesAllDone, bgVars, EndIndInv, OnTheWay, OrderlyEnd, HasPendingBackgroundAgents, Pending
<1>7. CASE WaitGivesUp
  BY <1>0, <1>7, FailingStep DEF WaitGivesUp
<1>8. CASE NothingCollected
  BY <1>0, <1>8
     DEF NothingCollected, bgVars, EndIndInv, OnTheWay, OrderlyEnd, HasPendingBackgroundAgents, Pending
<1>9. CASE SendCollected
  BY <1>0, <1>9, InsideRound DEF SendCollected, CallModel
<1>. QED  BY <1>1, <1>2, <1>3, <1>4, <1>5, <1>6, <1>7, <1>8, <1>9 DEF CompletionStep

LEMMA BackgroundKeepsEnd ==
  ASSUME EndIndInv, ToldIndInv, NEW b \in BgAgent, BackgroundStep(b)
  PROVE  EndIndInv'
<1>1. UNCHANGED <<pc, site, iteration, remaining, cycle, calls, rounds, failed>>
  BY DEF BackgroundStep, loopVars, convVars, histVars
<1>2. \/ UNCHANGED phase
      \/ /\ phase[b] \in {"running", "blocked", "drained", "reported", "done"}
         /\ \E p \in Phase : /\ phase' = [phase EXCEPT ![b] = p]
                             /\ phase[b] = "done" => p = "exited"
  BY DEF BackgroundStep, AgentStep, ForwardProgress, AwaitApproval, RunEnds, ForwardDone,
         ForwardDoneFails, StoreResult, InjectResult, Moves, Phase, agentVars
<1>3. \A a \in BgAgent : Pending(a)' => Pending(a)
  BY <1>2 DEF Pending, ToldIndInv
<1>. QED  BY <1>1, <1>3, FewerPending DEF HasPendingBackgroundAgents

LEMMA EndStepInv == EndIndInv /\ BudgetIndInv /\ ToldIndInv /\ [Next]_vars => EndIndInv'
<1>. SUFFICES ASSUME EndIndInv, BudgetIndInv, ToldIndInv, [Next]_vars  PROVE EndIndInv'
  OBVIOUS
<1>1. CASE ModelStep \/ ToolStep \/ CompletionStep
  BY <1>1, ModelKeepsEnd, ToolsKeepEnd, CompletionKeepsEnd
<1>2. CASE EmitDone \/ CloseDoneCh
  BY <1>2, InsideRound DEF EmitDone, CloseDoneCh, Goto, convVars, histVars
<1>3. ASSUME NEW b \in BgAgent, BackgroundStep(b)  PROVE EndIndInv'
  BY <1>3, BackgroundKeepsEnd
<1>4. CASE RunClosesEvents \/ EmitProgress \/ TakeEvent \/ Cancel \/ UNCHANGED vars
           \/ \E ok \in BOOLEAN : UserAnswers(ok)
  <2>1. UNCHANGED <<pc, site, iteration, remaining, cycle, calls, rounds, failed>>
    BY <1>4
       DEF RunClosesEvents, EmitProgress, TakeEvent, Cancel, UserAnswers, vars, loopVars,
           convVars, histVars
  <2>2. UNCHANGED phase
    BY <1>4
       DEF RunClosesEvents, EmitProgress, TakeEvent, Cancel, UserAnswers, CloseEvents,
           ParentEmits, Consume, CancelAll, vars, bgVars, agentVars
  <2>. QED  BY <2>1, <2>2, FewerPending DEF HasPendingBackgroundAgents, Pending
<1>. QED
  BY <1>1, <1>2, <1>3, <1>4 DEF Next, LoopStep, EndStep

\* A run without failure or cancellation ends with a sub-agent at work only when iterations or
\* cycles are used up, and on unanswered calls only after the final call or with no iterations left
\* (agent_loops.go, the ends of runLoop, backgroundCompletion and gracefulExhaustion).
THEOREM EndsInOrder == Spec => []OrderlyEnd
<1>1. EndIndInv => OrderlyEnd
  BY DEF EndIndInv
<1>. QED
  BY <1>1, EndStepInv, EndInitInv, BudgetStep, BudgetInitInv, ToldStep, ToldInitInv, PTL DEF Spec

-----------------------------------------------------------------------------
(* Positions in order *)

\* Every set of numbers that is not empty has a least one: induction without an operator.
LEMMA LeastNumber ==
  ASSUME NEW T \in SUBSET Nat, T # {}
  PROVE  \E m \in T : \A k \in T : m <= k
<1>. DEFINE R == OpToRel(<, Nat)
<1>1. PICK m \in T : \A k \in T : ~(<<k, m>> \in R)
  <2>. HIDE DEF R
  <2>1. IsWellFoundedOn(R, Nat)
    BY NatLessThanWellFounded DEF R
  <2>. QED  BY <2>1, WFMin
<1>2. \A k \in T : ~(k < m)
  BY <1>1 DEF OpToRel
<1>. QED  BY <1>2

Rising(s) == \A i, j \in DOMAIN s : i < j => s[i] < s[j]

\* The greatest of some positions.
LEMMA GreatestPosition ==
  ASSUME NEW n \in Nat, NEW S \in SUBSET (1..n), S # {}
  PROVE  \E m \in S : \A x \in S : x <= m
<1>. DEFINE U == {u \in Nat : \A x \in S : x <= u}
<1>1. n \in U
  OBVIOUS
<1>2. PICK m \in U : \A k \in U : m <= k
  <2>. HIDE DEF U
  <2>1. U \in SUBSET Nat
    BY DEF U
  <2>. QED  BY <1>1, <2>1, LeastNumber
<1>3. m \in S
  <2>1. SUFFICES ASSUME m \notin S  PROVE FALSE
    OBVIOUS
  <2>2. \A x \in S : x < m
    BY <2>1
  <2>3. PICK x \in S : TRUE
    OBVIOUS
  <2>4. m \in Nat /\ m > 0
    BY <2>2, <2>3
  <2>5. m - 1 \in Nat /\ \A y \in S : y <= m - 1
    BY <2>2, <2>4
  <2>. QED  BY <1>2, <2>4, <2>5
<1>. QED  BY <1>3

\* Some positions can be put in order: a smallest set without an order would have a greatest
\* element, to be put behind the rest.
LEMMA OrderExists ==
  ASSUME NEW n \in Nat, NEW S \in SUBSET (1..n)
  PROVE  \E s \in [1..Cardinality(S) -> S] : Rising(s)
<1>. DEFINE Ordered(A) == \E s \in [1..Cardinality(A) -> A] : Rising(s)
            Sizes == {Cardinality(A) : A \in {B \in SUBSET (1..n) : ~Ordered(B)}}
<1>0. \A A \in SUBSET (1..n) : IsFiniteSet(A) /\ Cardinality(A) \in Nat
  <2>1. IsFiniteSet(1..n)
    BY FS_Interval
  <2>. QED  BY <2>1, FS_Subset, FS_CardinalityType
<1>1. SUFFICES ASSUME ~Ordered(S)  PROVE FALSE
  OBVIOUS
<1>2. PICK A \in SUBSET (1..n) : /\ ~Ordered(A)
                                 /\ \A B \in SUBSET (1..n) : ~Ordered(B) => Cardinality(A) <= Cardinality(B)
  <2>. HIDE DEF Ordered
  <2>1. Sizes \in SUBSET Nat /\ Sizes # {}
    BY <1>0, <1>1
  <2>2. PICK k \in Sizes : \A l \in Sizes : k <= l
    <3>. HIDE DEF Sizes
    <3>. QED  BY <2>1, LeastNumber
  <2>. QED  BY <2>2
<1>3. A # {}
  <2>1. SUFFICES ASSUME A = {}  PROVE FALSE
    OBVIOUS
  <2>2. Cardinality(A) = 0
    BY <2>1, FS_EmptySet
  <2>3. [i \in 1..0 |-> 0] \in [1..0 -> A]
    OBVIOUS
  <2>4. Rising([i \in 1..0 |-> 0])
    BY DEF Rising
  <2>. QED  BY <1>2, <2>2, <2>3, <2>4
<1>4. PICK m \in A : \A x \in A : x <= m
  BY <1>3, GreatestPosition
<1>. DEFINE B == A \ {m}
            c == Cardinality(B)
<1>5. c \in Nat /\ Cardinality(A) = c + 1
  BY <1>0, FS_RemoveElement
<1>6. PICK s \in [1..c -> B] : Rising(s)
  <2>1. Ordered(B)
    <3>. HIDE DEF Ordered
    <3>1. B \in SUBSET (1..n) /\ ~(Cardinality(A) <= Cardinality(B))
      BY <1>5
    <3>. QED  BY <1>2, <3>1
  <2>. QED  BY <2>1
<1>. DEFINE t == [i \in 1..c + 1 |-> IF i = c + 1 THEN m ELSE s[i]]
<1>. HIDE DEF B, c
<1>7. t \in [1..c + 1 -> A]
  BY <1>5, <1>6 DEF B
<1>8. Rising(t)
  <2>. SUFFICES ASSUME NEW i \in 1..c + 1, NEW j \in 1..c + 1, i < j  PROVE t[i] < t[j]
    BY <1>7 DEF Rising
  <2>1. i \in 1..c /\ t[i] = s[i] /\ s[i] \in A /\ s[i] # m
    BY <1>5, <1>6 DEF B
  <2>2. CASE j = c + 1
    <3>1. s[i] \in A /\ s[i] <= m
      BY <1>4, <2>1
    <3>2. A \subseteq Nat
      OBVIOUS
    <3>3. s[i] \in Nat /\ m \in Nat
      BY <3>1, <3>2
    <3>. QED  BY <1>5, <2>1, <2>2, <3>1, <3>3
  <2>3. CASE j # c + 1
    <3>1. j \in 1..c /\ t[j] = s[j]
      BY <1>5, <2>3
    <3>. QED  BY <1>6, <2>1, <3>1 DEF Rising
  <2>. QED  BY <2>2, <2>3
<1>. QED  BY <1>2, <1>5, <1>7, <1>8

\* What the order of some positions is: each of them once.
LEMMA InOrderLists ==
  ASSUME NEW n \in Nat, NEW S \in SUBSET (1..n)
  PROVE  /\ InOrder(S) \in Seq(S)
         /\ IsInjective(InOrder(S))
         /\ ToSet(InOrder(S)) = S
<1>. DEFINE s == InOrder(S)
            c == Cardinality(S)
<1>0. IsFiniteSet(S) /\ c \in Nat
  <2>1. IsFiniteSet(1..n)
    BY FS_Interval
  <2>. QED  BY <2>1, FS_Subset, FS_CardinalityType
<1>1. s \in [1..c -> S] /\ Rising(s)
  BY OrderExists DEF InOrder, Rising
<1>. HIDE DEF s, c
<1>2. IsInjective(s)
  <2>. SUFFICES ASSUME NEW i \in 1..c, NEW j \in 1..c, s[i] = s[j]  PROVE i = j
    BY <1>1 DEF IsInjective
  <2>1. i \in Nat /\ j \in Nat /\ s[i] \in S
    BY <1>0, <1>1
  <2>2. S \subseteq Nat
    OBVIOUS
  <2>3. ~(s[i] < s[j]) /\ ~(s[j] < s[i])
    <3>1. \A x \in Nat : ~(x < x)
      OBVIOUS
    <3>2. s[i] \in Nat
      BY <2>1, <2>2, Zenon
    <3>. QED  BY <3>1, <3>2, Zenon
  <2>4. i \in DOMAIN s /\ j \in DOMAIN s
    BY <1>1
  <2>5. ~(i < j) /\ ~(j < i)
    BY <1>1, <2>3, <2>4 DEF Rising
  <2>. QED  BY <2>1, <2>5
<1>3. s \in Surjection(1..c, S)
  <2>1. s \in Injection(1..c, S)
    BY <1>1, <1>2 DEF Injection
  <2>2. Cardinality(1..c) = c
    BY <1>0, FS_Interval
  <2>. QED  BY <1>0, <2>1, <2>2, FS_Injection DEF c
<1>4. ToSet(s) = S
  BY <1>1, <1>3 DEF ToSet, Surjection
<1>5. s \in Seq(S)
  BY <1>0, <1>1
<1>. QED  BY <1>2, <1>4, <1>5 DEF s

-----------------------------------------------------------------------------
(* The results of a reply's tool calls *)

\* A sequence that names each of some things once.
Lists(s, S) == s \in Seq(S) /\ IsInjective(s) /\ ToSet(s) = S

\* Where the results stand between a reply and the message that answers it.
ResultsFit ==
  /\ pc \in {"head", "after"} => results = <<>> /\ joined = {}
  /\ pc \in InTools => ToSet(results) \cap AgentCalls = {}
  /\ pc = "llm" /\ site \in {"loop", "mini"} => ToSet(results) = DOMAIN calls

\* The inductive invariant, together with that of the budget.
ResultsIndInv ==
  /\ calls \in Replies \cup {<<>>}
  /\ results \in Seq(DOMAIN calls) /\ IsInjective(results)
  /\ joined \subseteq AgentCalls
  /\ ResultsFit

\* What the invariant speaks of.
resultsVars == <<pc, site, calls, results, joined>>

LEMMA CallsArePositions ==
  ASSUME ResultsIndInv
  PROVE  Len(calls) \in Nat /\ DOMAIN calls = 1..Len(calls) /\ AgentCalls \subseteq DOMAIN calls
<1>1. calls \in Seq(CallKind)
  BY LoopAssumption DEF ResultsIndInv
<1>. QED  BY <1>1 DEF AgentCalls

LEMMA NothingListed == <<>> \in Seq({}) /\ IsInjective(<<>>) /\ ToSet(<<>>) = {}
BY DEF IsInjective, ToSet

LEMMA LongerList ==
  ASSUME NEW S, NEW s \in Seq(S), NEW x \in S, IsInjective(s), x \notin ToSet(s)
  PROVE  IsInjective(Append(s, x))
<1>. DEFINE t == Append(s, x)
<1>1. Len(s) \in Nat /\ DOMAIN s = 1..Len(s) /\ DOMAIN t = 1..Len(s) + 1
  OBVIOUS
<1>2. t[Len(s) + 1] = x /\ \A k \in 1..Len(s) : t[k] = s[k]
  OBVIOUS
<1>. HIDE DEF t
<1>3. \A k \in DOMAIN t : k # Len(s) + 1 => k \in DOMAIN s /\ t[k] = s[k] /\ s[k] # x
  BY <1>1, <1>2 DEF ToSet
<1>4. \A k, l \in DOMAIN t : t[k] = t[l] => k = l
  BY <1>2, <1>3 DEF IsInjective
<1>. QED  BY <1>4 DEF IsInjective, t

\* A list of some positions behind a list of others is a list of all of them.
LEMMA ListsTogether ==
  ASSUME NEW S, NEW T, S \cap T = {}, NEW s, NEW t, Lists(s, S), Lists(t, T)
  PROVE  Lists(s \o t, S \cup T)
<1>. DEFINE u == s \o t
<1>0. s \in Seq(S \cup T) /\ t \in Seq(S \cup T) /\ Len(s) \in Nat /\ Len(t) \in Nat
      /\ DOMAIN s = 1..Len(s) /\ DOMAIN t = 1..Len(t)
  BY DEF Lists
<1>1. /\ u \in Seq(S \cup T)
      /\ DOMAIN u = 1..Len(s) + Len(t)
      /\ \A i \in 1..Len(s) : u[i] = s[i]
      /\ \A i \in 1..Len(t) : u[i + Len(s)] = t[i]
  BY <1>0
<1>2. \A i \in DOMAIN u : \/ i \in DOMAIN s /\ u[i] = s[i] /\ u[i] \in S
                         \/ /\ i - Len(s) \in DOMAIN t /\ u[i] = t[i - Len(s)] /\ u[i] \in T
                            /\ i \in Nat
  <2>. SUFFICES ASSUME NEW i \in DOMAIN u
                PROVE  \/ i \in DOMAIN s /\ u[i] = s[i] /\ u[i] \in S
                       \/ /\ i - Len(s) \in DOMAIN t /\ u[i] = t[i - Len(s)] /\ u[i] \in T
                          /\ i \in Nat
    OBVIOUS
  <2>. HIDE DEF u
  <2>1. CASE i <= Len(s)
    <3>1. i \in 1..Len(s)
      BY <1>0, <1>1, <2>1
    <3>. QED  BY <1>0, <1>1, <3>1 DEF Lists
  <2>2. CASE ~(i <= Len(s))
    <3>1. i \in Nat /\ i - Len(s) \in 1..Len(t) /\ (i - Len(s)) + Len(s) = i
      BY <1>0, <1>1, <2>2
    <3>2. u[i] = t[i - Len(s)]
      BY <1>1, <3>1
    <3>. QED  BY <1>0, <3>1, <3>2 DEF Lists
  <2>. QED  BY <2>1, <2>2
<1>. HIDE DEF u
<1>3. IsInjective(u)
  <2>. SUFFICES ASSUME NEW i \in DOMAIN u, NEW j \in DOMAIN u, u[i] = u[j]  PROVE i = j
    BY DEF IsInjective
  <2>1. CASE u[i] \in S
    <3>1. i \in DOMAIN s /\ j \in DOMAIN s /\ s[i] = s[j]
      BY <1>2, <2>1
    <3>. QED  BY <3>1 DEF Lists, IsInjective
  <2>2. CASE u[i] \in T
    <3>1. /\ i - Len(s) \in DOMAIN t /\ j - Len(s) \in DOMAIN t
          /\ t[i - Len(s)] = t[j - Len(s)] /\ i \in Nat /\ j \in Nat
      BY <1>2, <2>2
    <3>2. i - Len(s) = j - Len(s)
      BY <3>1 DEF Lists, IsInjective
    <3>. QED  BY <1>0, <3>1, <3>2
  <2>. QED  BY <1>2, <2>1, <2>2
<1>4. ToSet(u) = S \cup T
  <2>1. ToSet(u) \subseteq S \cup T
    BY <1>2 DEF ToSet
  <2>2. S \subseteq ToSet(u)
    <3>. SUFFICES ASSUME NEW x \in S  PROVE x \in ToSet(u)
      OBVIOUS
    <3>1. PICK i \in DOMAIN s : s[i] = x
      BY DEF Lists, ToSet
    <3>2. i \in DOMAIN u /\ u[i] = x
      BY <1>0, <1>1, <3>1
    <3>. QED  BY <3>2 DEF ToSet
  <2>3. T \subseteq ToSet(u)
    <3>. SUFFICES ASSUME NEW x \in T  PROVE x \in ToSet(u)
      OBVIOUS
    <3>1. PICK i \in DOMAIN t : t[i] = x
      BY DEF Lists, ToSet
    <3>2. i + Len(s) \in DOMAIN u /\ u[i + Len(s)] = x
      BY <1>0, <1>1, <3>1
    <3>. QED  BY <3>2 DEF ToSet
  <2>. QED  BY <2>1, <2>2, <2>3
<1>. QED  BY <1>1, <1>3, <1>4 DEF Lists, u

\* Who lists all the calls has as many results as there are calls.
LEMMA ListOfAll ==
  ASSUME NEW n \in Nat, NEW s, Lists(s, 1..n)
  PROVE  Len(s) = n
<1>1. s \in Seq(1..n) /\ Len(s) \in Nat /\ s \in [1..Len(s) -> 1..n]
  BY DEF Lists
<1>2. s \in Bijection(1..Len(s), 1..n)
  BY <1>1 DEF Lists, Bijection, Injection, Surjection, ToSet
<1>3. Cardinality(1..n) = Len(s)
  BY <1>1, <1>2, FS_CountingElements DEF ExistsBijection
<1>4. Cardinality(1..n) = n
  BY FS_Interval
<1>. QED  BY <1>3, <1>4

LEMMA ResultsInitInv == Init => ResultsIndInv
<1>. SUFFICES ASSUME Init  PROVE ResultsIndInv
  OBVIOUS
<1>1. calls = <<>> /\ results = <<>> /\ joined = {} /\ pc = "llm" /\ site = "first"
  BY DEF Init
<1>2. results \in Seq(DOMAIN calls) /\ IsInjective(results)
  BY <1>1, NothingListed
<1>. QED  BY <1>1, <1>2 DEF ResultsIndInv, ResultsFit, InTools

LEMMA ResultsStutter == ASSUME ResultsIndInv, UNCHANGED resultsVars  PROVE ResultsIndInv'
BY DEF resultsVars, ResultsIndInv, ResultsFit, AgentCalls, InMainLoop

\* Steps that leave calls and results alone and lead to no place where more is known of them.
LEMMA ResultsStay ==
  ASSUME ResultsIndInv, UNCHANGED <<calls, results, joined>>, AgentCalls' = AgentCalls,
         \/ pc' \in {"done", "signal", "returned", "cycle", "wait", "collect"}
         \/ pc' \in InTools /\ pc \in InTools
         \/ pc' = "llm" /\ site' \notin {"loop", "mini"}
  PROVE  ResultsIndInv'
BY DEF ResultsIndInv, ResultsFit, InTools

\* A reply's tool calls replace the last ones.
LEMMA ReceiveFits ==
  ASSUME NEW r \in Replies \cup {<<>>}, Receive(r), pc' \in {"head", "after", "done"}
  PROVE  ResultsIndInv'
<1>1. calls' \in Replies \cup {<<>>} /\ results' = <<>> /\ joined' = {}
  BY DEF Receive
<1>2. results' \in Seq(DOMAIN calls') /\ IsInjective(results')
  BY <1>1, NothingListed
<1>. QED  BY <1>1, <1>2 DEF ResultsIndInv, ResultsFit, InTools

LEMMA ModelKeepsResults == ASSUME ResultsIndInv, ModelStep  PROVE ResultsIndInv'
<1>. USE DEF Goto
<1>0. ResultsIndInv
  OBVIOUS
<1>1. CASE StreamRetries
  BY <1>0, <1>1, ResultsStutter DEF StreamRetries, resultsVars
<1>2. CASE FirstCallFails \/ CompletionCallFails \/ NoNodeReply \/ FinalReply
  <2>1. UNCHANGED <<calls, results, joined, site>> /\ pc' = "done"
    BY <1>2 DEF FirstCallFails, CompletionCallFails, NoNodeReply, FinalReply, convVars
  <2>. QED  BY <1>0, <2>1, ResultsStay DEF AgentCalls, InMainLoop
<1>3. CASE LoopCallFails
  BY <1>3, ReceiveFits DEF LoopCallFails
<1>4. ASSUME NEW r \in Replies, NEW n \in BOOLEAN,
             FirstReply(r, n) \/ LoopReply(r, n) \/ ResumeReply(r) \/ MiniReply(r)
      PROVE  ResultsIndInv'
  BY <1>4, ReceiveFits DEF FirstReply, LoopReply, ResumeReply, MiniReply
<1>. QED  BY <1>1, <1>2, <1>3, <1>4 DEF ModelStep

\* The call that is due is answered: it is not an agent call of the main loop, and was not
\* answered before.
LEMMA AnswerKeepsResults ==
  ASSUME ResultsIndInv, NEW i, IsDue(i), pc \in InTools, Answer(i), UNCHANGED <<site, calls, joined>>
  PROVE  ResultsIndInv'
<1>1. i \in DOMAIN calls /\ i \notin AgentCalls /\ i \notin ToSet(results)
  BY DEF IsDue, Unanswered
<1>2. results' = Append(results, i) /\ pc' \in InTools
  BY DEF Answer, Goto, InTools
<1>3. results \in Seq(DOMAIN calls) /\ results' \in Seq(DOMAIN calls)
  BY <1>1, <1>2 DEF ResultsIndInv
<1>4. ToSet(results') = ToSet(results) \cup {i}
  BY <1>1, <1>2, <1>3, ToSetAppend
<1>5. IsInjective(results')
  BY <1>1, <1>2, <1>3, LongerList DEF ResultsIndInv
<1>6. AgentCalls' = AgentCalls
  BY DEF AgentCalls, InMainLoop
<1>7. pc' \notin {"head", "after", "llm"}
  BY <1>2 DEF InTools
<1>8. ToSet(results') \cap AgentCalls' = {}
  BY <1>1, <1>4, <1>6 DEF ResultsIndInv, ResultsFit
<1>. QED  BY <1>3, <1>5, <1>6, <1>7, <1>8 DEF ResultsIndInv, ResultsFit

\* The message of the main loop: the results so far, and those of the agent calls in order.
LEMMA SendKeepsResults ==
  ASSUME ResultsIndInv, SendResults
  PROVE  ResultsIndInv'
<1>. DEFINE rest == DOMAIN calls \ AgentCalls
            n == Len(calls)
<1>1. /\ pc = "calls" /\ Unanswered = {} /\ site \in {"first", "loop"}
      /\ results' = results \o InOrder(AgentCalls)
      /\ pc' = "llm" /\ site' = "loop" /\ UNCHANGED <<calls, joined>>
  BY DEF SendResults, CallModel, Goto, InMainLoop
<1>2. n \in Nat /\ DOMAIN calls = 1..n /\ AgentCalls \subseteq 1..n
  BY CallsArePositions
<1>3. results \in Seq(DOMAIN calls) /\ IsInjective(results)
  BY DEF ResultsIndInv
<1>4. ToSet(results) = rest
  <2>1. ToSet(results) \subseteq DOMAIN calls
    BY <1>3 DEF ToSet
  <2>2. ToSet(results) \cap AgentCalls = {}
    BY <1>1 DEF ResultsIndInv, ResultsFit, InTools
  <2>. QED  BY <1>1, <2>1, <2>2 DEF Unanswered
<1>5. Lists(results, rest)
  <2>1. results \in Seq(rest)
    BY <1>3, <1>4 DEF ToSet
  <2>. QED  BY <1>3, <1>4, <2>1 DEF Lists
<1>6. Lists(InOrder(AgentCalls), AgentCalls)
  BY <1>2, InOrderLists DEF Lists
<1>7. rest \cap AgentCalls = {} /\ rest \cup AgentCalls = DOMAIN calls
  BY <1>2
<1>8. Lists(results', DOMAIN calls)
  <2>. HIDE DEF rest
  <2>. QED  BY <1>1, <1>5, <1>6, <1>7, ListsTogether
<1>9. AgentCalls' = AgentCalls
  BY <1>1 DEF AgentCalls, InMainLoop
<1>. QED  BY <1>1, <1>8, <1>9 DEF Lists, ResultsIndInv, ResultsFit, InTools

\* The message of the loop in backgroundCompletion: it has no calls but those answered.
LEMMA SendMiniKeepsResults ==
  ASSUME ResultsIndInv, SendMiniResults
  PROVE  ResultsIndInv'
<1>1. /\ pc = "calls" /\ Unanswered = {} /\ site \notin {"first", "loop"}
      /\ pc' = "llm" /\ site' = "mini" /\ UNCHANGED <<calls, results, joined>>
  BY DEF SendMiniResults, CallModel, Goto, InMainLoop
<1>2. AgentCalls = {} /\ AgentCalls' = {}
  BY <1>1 DEF AgentCalls, InMainLoop
<1>3. ToSet(results) = DOMAIN calls
  <2>1. ToSet(results) \subseteq DOMAIN calls
    BY DEF ToSet, ResultsIndInv
  <2>. QED  BY <1>1, <1>2, <2>1 DEF Unanswered
<1>. QED  BY <1>1, <1>2, <1>3 DEF ResultsIndInv, ResultsFit, InTools

LEMMA ToolsKeepResults == ASSUME ResultsIndInv, ToolStep  PROVE ResultsIndInv'
<1>. USE DEF Goto, convVars
<1>0. ResultsIndInv
  OBVIOUS
<1>1. CASE EnterLoop
  <2>1. pc = "head" /\ pc' = "calls" /\ UNCHANGED <<site, calls, results, joined>>
    BY <1>1 DEF EnterLoop
  <2>2. AgentCalls' = AgentCalls
    BY <2>1 DEF AgentCalls, InMainLoop
  <2>3. results = <<>> /\ ToSet(results') = {}
    BY <1>0, <2>1, NothingListed DEF ResultsIndInv, ResultsFit
  <2>. QED  BY <1>0, <2>1, <2>2, <2>3 DEF ResultsIndInv, ResultsFit
<1>2. CASE CancelledAtHead \/ CancelledInApproval \/ ToolPanics
  <2>1. pc' = "done" /\ UNCHANGED <<site, calls, results, joined>>
    BY <1>2 DEF CancelledAtHead, CancelledInApproval, ToolPanics
  <2>. QED  BY <1>0, <2>1, ResultsStay DEF AgentCalls, InMainLoop
<1>3. CASE LeaveLoop
  <2>1. pc = "head" /\ pc' \in {"after", "cycle"} /\ UNCHANGED <<site, calls, results, joined>>
    BY <1>3 DEF LeaveLoop
  <2>. QED  BY <1>0, <2>1 DEF ResultsIndInv, ResultsFit, AgentCalls, InMainLoop, InTools
<1>4. ASSUME NEW i, AskApproval(i) \/ Approved(i) \/ StartTool(i)  PROVE ResultsIndInv'
  <2>1. pc \in InTools /\ pc' \in InTools /\ UNCHANGED <<site, calls, results, joined>>
    BY <1>4 DEF AskApproval, Approved, StartTool, InTools
  <2>. QED  BY <1>0, <2>1, ResultsStay DEF AgentCalls, InMainLoop
<1>5. ASSUME NEW i, UnknownTool(i) \/ RecordingFails(i) \/ Denied(i) \/ ToolReturns(i)
      PROVE  ResultsIndInv'
  BY <1>0, <1>5, AnswerKeepsResults
     DEF UnknownTool, RecordingFails, Denied, ToolReturns, CallFrame, InTools
<1>6. ASSUME NEW i, NEW b, ToolLaunches(i, b)  PROVE ResultsIndInv'
  BY <1>0, <1>6, AnswerKeepsResults DEF ToolLaunches, CallFrame, InTools
<1>7. ASSUME NEW i, NEW b, AgentCallReturns(i) \/ AgentCallLaunches(i, b)  PROVE ResultsIndInv'
  <2>1. /\ pc = "calls" /\ pc' = pc /\ i \in AgentCalls /\ joined' = joined \cup {i}
        /\ UNCHANGED <<site, calls, results>>
    BY <1>7 DEF AgentCallReturns, AgentCallLaunches
  <2>2. AgentCalls' = AgentCalls
    BY <2>1 DEF AgentCalls, InMainLoop
  <2>. QED  BY <1>0, <2>1, <2>2 DEF ResultsIndInv, ResultsFit, InTools
<1>8. CASE SendResults
  BY <1>0, <1>8, SendKeepsResults
<1>9. CASE SendMiniResults
  BY <1>0, <1>9, SendMiniKeepsResults
<1>. QED  BY <1>1, <1>2, <1>3, <1>4, <1>5, <1>6, <1>7, <1>8, <1>9 DEF ToolStep

LEMMA CompletionKeepsResults ==
  ASSUME ResultsIndInv, BudgetIndInv, CompletionStep
  PROVE  ResultsIndInv'
<1>. USE DEF Goto, convVars, AfterFrame
<1>0. ResultsIndInv
  OBVIOUS
<1>1. CASE EnterBackgroundCompletion \/ EnterExhaustion
  <2>1. /\ pc = "after" /\ pc' \in {"cycle", "wait"} /\ site' \in {"resume", "final"}
        /\ UNCHANGED <<calls, results, joined>>
    BY <1>1 DEF EnterBackgroundCompletion, EnterExhaustion
  <2>. QED  BY <1>0, <2>1 DEF ResultsIndInv, ResultsFit, InTools
<1>2. CASE StartCycle
  <2>1. /\ pc = "cycle" /\ pc' = "wait" /\ site' = "resume" /\ UNCHANGED <<calls, results, joined>>
    BY <1>2 DEF StartCycle
  <2>2. AgentCalls = {} /\ AgentCalls' = {}
    BY <2>1 DEF BudgetIndInv, SiteFits, AgentCalls, InMainLoop
  <2>. QED  BY <1>0, <2>1, <2>2, ResultsStay
<1>3. CASE FinishLoop \/ EndCycles \/ WaitSeesAllDone \/ WaitGivesUp \/ NothingCollected
  <2>1. pc' \in {"done", "collect"} /\ UNCHANGED <<site, calls, results, joined>>
    BY <1>3 DEF FinishLoop, EndCycles, WaitSeesAllDone, WaitGivesUp, NothingCollected
  <2>. QED  BY <1>0, <2>1, ResultsStay DEF AgentCalls, InMainLoop
<1>4. CASE SendCollected
  <2>1. pc = "collect" /\ pc' = "llm" /\ UNCHANGED <<site, calls, results, joined>>
    BY <1>4 DEF SendCollected, CallModel
  <2>2. site' \in {"resume", "final"}
    BY <2>1 DEF BudgetIndInv, SiteFits
  <2>. QED  BY <1>0, <2>1, <2>2, ResultsStay DEF AgentCalls, InMainLoop
<1>. QED  BY <1>1, <1>2, <1>3, <1>4 DEF CompletionStep

LEMMA ResultsStep == ResultsIndInv /\ BudgetIndInv /\ [Next]_vars => ResultsIndInv'
<1>. SUFFICES ASSUME ResultsIndInv, BudgetIndInv, [Next]_vars  PROVE ResultsIndInv'
  OBVIOUS
<1>1. CASE ModelStep \/ ToolStep \/ CompletionStep
  BY <1>1, ModelKeepsResults, ToolsKeepResults, CompletionKeepsResults
<1>2. CASE EmitDone \/ CloseDoneCh
  <2>1. pc' \in {"signal", "returned"} /\ UNCHANGED <<site, calls, results, joined>>
    BY <1>2 DEF EmitDone, CloseDoneCh, Goto, convVars
  <2>. QED  BY <2>1, ResultsStay DEF AgentCalls, InMainLoop
<1>3. CASE RunClosesEvents \/ EmitProgress
  BY <1>3, ResultsStutter DEF RunClosesEvents, EmitProgress, loopVars, convVars, resultsVars
<1>4. ASSUME NEW b, BackgroundStep(b)  PROVE ResultsIndInv'
  BY <1>4, ResultsStutter DEF BackgroundStep, loopVars, convVars, resultsVars
<1>5. ASSUME NEW ok, UserAnswers(ok)  PROVE ResultsIndInv'
  BY <1>5, ResultsStutter DEF UserAnswers, convVars, resultsVars
<1>6. CASE TakeEvent \/ Cancel
  BY <1>6, ResultsStutter DEF TakeEvent, Cancel, convVars, resultsVars
<1>7. CASE UNCHANGED vars
  BY <1>7, ResultsStutter DEF vars, loopVars, convVars, resultsVars
<1>. QED
  BY <1>1, <1>2, <1>3, <1>4, <1>5, <1>6, <1>7 DEF Next, LoopStep, EndStep

\* Every message that answers a reply's tool calls has exactly one result for each of them,
\* whatever was denied, unknown, failed or run in parallel (agent_loops.go, the tool loop of
\* runLoop and the small one of backgroundCompletion).
THEOREM EveryCallAnswered == Spec => []ToolResultsComplete
<1>1. ResultsIndInv => ToolResultsComplete
  <2>. SUFFICES ASSUME ResultsIndInv, pc = "llm", site \in {"loop", "mini"}
                PROVE  Len(results) = Len(calls) /\ ToSet(results) = DOMAIN calls
    BY DEF ToolResultsComplete
  <2>1. Len(calls) \in Nat /\ DOMAIN calls = 1..Len(calls)
    BY CallsArePositions
  <2>2. Lists(results, DOMAIN calls)
    BY DEF ResultsIndInv, ResultsFit, Lists
  <2>. QED  BY <2>1, <2>2, ListOfAll DEF Lists
<1>. QED  BY <1>1, ResultsStep, ResultsInitInv, BudgetStep, BudgetInitInv, PTL DEF Spec

-----------------------------------------------------------------------------
(* The types of the loop's state: what the other invariants leave over *)

\* The channel never holds more than it has room for.
ChannelFits == events \in Seq(AnyEvent) /\ Len(events) <= EventCap

RestTypeOK ==
  /\ pc \in PC
  /\ tries \in 0..1
  /\ iteration <= MaxIter /\ remaining <= MaxIter
  /\ cancelled \in BOOLEAN /\ doneCh \in BOOLEAN
  /\ shown = <<>> \/ \E r : shown = <<r>>
  /\ Len(events) <= EventCap

\* A send looks at the capacity first.
LEMMA OfferFits ==
  ASSUME ChannelFits, NEW e, \/ Offer(e)
                             \/ HasRoom /\ events' = Append(events, e)
  PROVE  Len(events') <= EventCap
<1>1. CASE events' = events
  BY <1>1 DEF ChannelFits
<1>2. CASE HasRoom /\ events' = Append(events, e)
  <2>1. events \in Seq(AnyEvent \cup {e})
    BY DEF ChannelFits
  <2>2. Len(events') = Len(events) + 1 /\ Len(events) \in Nat
    BY <1>2, <2>1
  <2>. QED  BY <1>2, <2>2, BgAssumption DEF HasRoom
<1>. QED  BY <1>1, <1>2 DEF Offer

LEMMA TailFits ==
  ASSUME ChannelFits, events # <<>>, events' = Tail(events)
  PROVE  Len(events') <= EventCap
<1>1. Len(events') = Len(events) - 1 /\ Len(events) \in Nat
  BY DEF ChannelFits
<1>. QED  BY <1>1, BgAssumption DEF ChannelFits

LEMMA ChannelStep == ASSUME ChannelFits, [Next]_vars  PROVE Len(events') <= EventCap
<1>1. CASE UNCHANGED events
  BY <1>1 DEF ChannelFits
<1>2. CASE ModelStep \/ CompletionStep
  BY <1>1, <1>2
     DEF ModelStep, StreamRetries, FirstCallFails, LoopCallFails, CompletionCallFails, FirstReply,
         LoopReply, NoNodeReply, ResumeReply, MiniReply, FinalReply, bgVars, CompletionStep,
         EnterBackgroundCompletion, EnterExhaustion, FinishLoop, StartCycle, EndCycles,
         WaitSeesAllDone, WaitGivesUp, NothingCollected, SendCollected
<1>3. CASE ToolStep
  <2>1. ASSUME NEW i, AskApproval(i)  PROVE Len(events') <= EventCap
    BY <2>1, OfferFits DEF AskApproval
  <2>2. ASSUME NEW i, NEW b, ToolLaunches(i, b) \/ AgentCallLaunches(i, b)
        PROVE  Len(events') <= EventCap
    BY <2>2, OfferFits DEF ToolLaunches, AgentCallLaunches, ExecuteBackground
  <2>3. ASSUME NEW i, \/ UnknownTool(i) \/ Approved(i) \/ RecordingFails(i) \/ Denied(i)
                      \/ StartTool(i) \/ ToolReturns(i) \/ AgentCallReturns(i)
        PROVE  UNCHANGED events
    BY <2>3 DEF UnknownTool, Approved, RecordingFails, Denied, StartTool, ToolReturns,
                AgentCallReturns, bgVars
  <2>4. ASSUME EnterLoop \/ CancelledAtHead \/ LeaveLoop \/ CancelledInApproval \/ ToolPanics
               \/ SendResults \/ SendMiniResults
        PROVE  UNCHANGED events
    BY <2>4 DEF EnterLoop, CancelledAtHead, LeaveLoop, CancelledInApproval, ToolPanics, SendResults,
                SendMiniResults, bgVars
  <2>. QED  BY <1>1, <1>3, <2>1, <2>2, <2>3, <2>4 DEF ToolStep
<1>4. CASE EmitDone \/ EmitProgress
  BY <1>4, OfferFits DEF EmitDone, EmitProgress, ParentEmits
<1>5. CASE CloseDoneCh \/ RunClosesEvents \/ Cancel \/ UNCHANGED vars \/ \E ok \in BOOLEAN : UserAnswers(ok)
  BY <1>1, <1>5 DEF CloseDoneCh, LoopReturns, RunClosesEvents, CloseEvents, Cancel, CancelAll,
                    UserAnswers, vars, bgVars
<1>6. ASSUME NEW b, BackgroundStep(b)  PROVE Len(events') <= EventCap
  <2>1. UNCHANGED events \/ Offer(Info) \/ (HasRoom /\ events' = Append(events, SubDone(b)))
    BY <1>6 DEF BackgroundStep, AgentStep, ForwardProgress, AwaitApproval, RunEnds, ForwardDone,
                ForwardDoneFails, StoreResult, InjectResult
  <2>. QED  BY <1>1, <2>1, OfferFits
<1>7. CASE TakeEvent
  BY <1>7, TailFits DEF TakeEvent, Consume
<1>. QED  BY <1>2, <1>3, <1>4, <1>5, <1>6, <1>7 DEF Next, LoopStep, EndStep

LEMMA RestInit == Init => RestTypeOK
<1>. SUFFICES ASSUME Init  PROVE RestTypeOK
  OBVIOUS
<1>1. pc \in PC /\ shown = <<>> /\ cancelled \in BOOLEAN /\ doneCh \in BOOLEAN
  BY DEF Init, PC
<1>4. tries \in 0..1
  BY DEF Init
<1>2. iteration <= MaxIter /\ remaining <= MaxIter
  BY LoopAssumption DEF Init
<1>3. Len(events) = 0
  BY DEF Init, BgInit
<1>. QED  BY <1>1, <1>2, <1>3, <1>4, BgAssumption DEF RestTypeOK

\* The counters stay below the budget: a reply is counted only in a round paid for.
LEMMA CountersStep ==
  ASSUME BudgetIndInv, iteration <= MaxIter, remaining <= MaxIter, [Next]_vars
  PROVE  iteration' <= MaxIter /\ remaining' <= MaxIter
<1>1. CASE UNCHANGED <<iteration, remaining>>
  BY <1>1
<1>2. CASE ModelStep
  <2>1. ASSUME NEW r, NEW n \in BOOLEAN, LoopReply(r, n)
        PROVE  iteration' <= MaxIter /\ remaining' <= MaxIter
    <3>1. pc = "llm" /\ site = "loop" /\ remaining' = remaining
          /\ (iteration' = iteration + 1 \/ iteration' = iteration)
      BY <2>1 DEF LoopReply
    <3>2. iteration < MaxIter /\ iteration \in Nat
      BY <3>1 DEF BudgetIndInv, RoundIsPaid
    <3>. QED  BY <3>1, <3>2, LoopAssumption
  <2>2. ASSUME NEW r, MiniReply(r)  PROVE iteration' <= MaxIter /\ remaining' <= MaxIter
    BY <2>2, LoopAssumption DEF MiniReply, BudgetIndInv
  <2>3. ASSUME NEW r, NEW n, FirstReply(r, n) \/ ResumeReply(r)  PROVE UNCHANGED <<iteration, remaining>>
    BY <2>3 DEF FirstReply, ResumeReply
  <2>4. ASSUME StreamRetries \/ FirstCallFails \/ LoopCallFails \/ CompletionCallFails \/ NoNodeReply
               \/ FinalReply
        PROVE  UNCHANGED <<iteration, remaining>>
    BY <2>4 DEF StreamRetries, FirstCallFails, LoopCallFails, CompletionCallFails, NoNodeReply,
                FinalReply, convVars
  <2>. QED  BY <1>1, <1>2, <2>1, <2>2, <2>3, <2>4 DEF ModelStep
<1>3. CASE ToolStep
  BY <1>1, <1>3
     DEF ToolStep, EnterLoop, CancelledAtHead, LeaveLoop, UnknownTool, AskApproval, Approved,
         RecordingFails, Denied, StartTool, ToolReturns, AgentCallReturns, ToolLaunches,
         AgentCallLaunches, CancelledInApproval, ToolPanics, SendResults, SendMiniResults, CallFrame,
         convVars
<1>4. CASE EnterBackgroundCompletion
  <2>1. iteration \in Nat /\ iteration' = iteration /\ remaining' = MaxIter - iteration
    BY <1>4 DEF EnterBackgroundCompletion, AfterFrame, BudgetIndInv
  <2>. QED  BY <2>1, LoopAssumption
<1>5. CASE CompletionStep /\ ~EnterBackgroundCompletion
  BY <1>1, <1>5
     DEF CompletionStep, EnterExhaustion, FinishLoop, StartCycle, EndCycles, WaitSeesAllDone,
         WaitGivesUp, NothingCollected, SendCollected, AfterFrame, convVars
<1>6. CASE \/ EndStep \/ EmitProgress \/ TakeEvent \/ Cancel \/ UNCHANGED vars
           \/ (\E b \in BgAgent : BackgroundStep(b)) \/ \E ok \in BOOLEAN : UserAnswers(ok)
  BY <1>1, <1>6
     DEF EndStep, EmitDone, CloseDoneCh, RunClosesEvents, EmitProgress, BackgroundStep, TakeEvent,
         Cancel, UserAnswers, vars, loopVars, convVars
<1>. QED  BY <1>2, <1>3, <1>4, <1>5, <1>6 DEF Next, LoopStep

\* Positions and attempts.
LEMMA PlacesStep ==
  ASSUME pc \in PC, tries \in 0..1, [Next]_vars
  PROVE  pc' \in PC /\ tries' \in 0..1
<1>. USE DEF Goto, CallModel, PC
<1>1. CASE ModelStep
  BY <1>1
     DEF ModelStep, StreamRetries, FirstCallFails, LoopCallFails, CompletionCallFails, FirstReply,
         LoopReply, NoNodeReply, ResumeReply, MiniReply, FinalReply, convVars
<1>2. CASE ToolStep
  <2>1. pc' \in PC
    BY <1>2
       DEF ToolStep, EnterLoop, CancelledAtHead, LeaveLoop, UnknownTool, AskApproval, Approved,
           RecordingFails, Denied, StartTool, ToolReturns, AgentCallReturns, ToolLaunches,
           AgentCallLaunches, CancelledInApproval, ToolPanics, SendResults, SendMiniResults, Answer
  <2>2. tries' = tries \/ tries' = 0
    BY <1>2
       DEF ToolStep, EnterLoop, CancelledAtHead, LeaveLoop, UnknownTool, AskApproval, Approved,
           RecordingFails, Denied, StartTool, ToolReturns, AgentCallReturns, ToolLaunches,
           AgentCallLaunches, CancelledInApproval, ToolPanics, SendResults, SendMiniResults, CallFrame,
           convVars
  <2>. QED  BY <2>1, <2>2
<1>3. CASE CompletionStep
  BY <1>3
     DEF CompletionStep, EnterBackgroundCompletion, EnterExhaustion, FinishLoop, StartCycle, EndCycles,
         WaitSeesAllDone, WaitGivesUp, NothingCollected, SendCollected, AfterFrame, convVars
<1>4. CASE \/ EndStep \/ EmitProgress \/ TakeEvent \/ Cancel \/ UNCHANGED vars
           \/ (\E b \in BgAgent : BackgroundStep(b)) \/ \E ok \in BOOLEAN : UserAnswers(ok)
  BY <1>4
     DEF EndStep, EmitDone, CloseDoneCh, RunClosesEvents, EmitProgress, BackgroundStep, TakeEvent,
         Cancel, UserAnswers, vars, loopVars, convVars
<1>. QED  BY <1>1, <1>2, <1>3, <1>4 DEF Next, LoopStep

\* Cancellation, the closed doneCh and the display.
LEMMA SurfaceStep ==
  ASSUME cancelled \in BOOLEAN, doneCh \in BOOLEAN, shown = <<>> \/ \E r : shown = <<r>>, [Next]_vars
  PROVE  /\ cancelled' \in BOOLEAN /\ doneCh' \in BOOLEAN
         /\ shown' = <<>> \/ \E r : shown' = <<r>>
<1>1. CASE UNCHANGED <<cancelled, doneCh, shown>>
  BY <1>1
<1>2. CASE ModelStep
  BY <1>1, <1>2
     DEF ModelStep, StreamRetries, FirstCallFails, LoopCallFails, CompletionCallFails, FirstReply,
         LoopReply, NoNodeReply, ResumeReply, MiniReply, FinalReply, userVars
<1>3. CASE ToolStep
  BY <1>1, <1>3
     DEF ToolStep, EnterLoop, CancelledAtHead, LeaveLoop, UnknownTool, AskApproval, Approved,
         RecordingFails, Denied, StartTool, ToolReturns, AgentCallReturns, ToolLaunches,
         AgentCallLaunches, CancelledInApproval, ToolPanics, SendResults, SendMiniResults, CallModel,
         userVars
<1>4. CASE CompletionStep
  BY <1>1, <1>4
     DEF CompletionStep, EnterBackgroundCompletion, EnterExhaustion, FinishLoop, StartCycle, EndCycles,
         WaitSeesAllDone, WaitGivesUp, NothingCollected, SendCollected, CallModel, userVars
<1>5. CASE CloseDoneCh
  BY <1>5 DEF CloseDoneCh, userVars
<1>6. CASE \/ EmitDone \/ RunClosesEvents \/ EmitProgress \/ UNCHANGED vars
           \/ \E b \in BgAgent : BackgroundStep(b)
  BY <1>1, <1>6
     DEF EmitDone, RunClosesEvents, EmitProgress, BackgroundStep, vars, loopVars, userVars
<1>7. CASE TakeEvent
  <2>1. UNCHANGED <<cancelled, doneCh>>
    BY <1>7 DEF TakeEvent
  <2>2. shown' = shown \/ \E r : shown' = <<r>>
    BY <1>7 DEF TakeEvent
  <2>. QED  BY <2>1, <2>2
<1>8. CASE Cancel
  <2>1. cancelled' = (cancelled \/ parent = "working") /\ UNCHANGED <<doneCh, shown>>
    BY <1>8 DEF Cancel
  <2>2. cancelled' \in BOOLEAN
    BY <2>1, Zenon
  <2>. QED  BY <2>1, <2>2
<1>9. ASSUME NEW ok, UserAnswers(ok)  PROVE UNCHANGED <<cancelled, doneCh>> /\ shown' = <<>>
  BY <1>9 DEF UserAnswers
<1>. QED  BY <1>2, <1>3, <1>4, <1>5, <1>6, <1>7, <1>8, <1>9 DEF Next, LoopStep, EndStep

LEMMA RestStep == RestTypeOK /\ BudgetIndInv /\ ApprovalIndInv /\ [Next]_vars => RestTypeOK'
<1>. SUFFICES ASSUME RestTypeOK, BudgetIndInv, ApprovalIndInv, [Next]_vars  PROVE RestTypeOK'
  OBVIOUS
<1>1. pc' \in PC /\ tries' \in 0..1
  BY PlacesStep DEF RestTypeOK
<1>2. iteration' <= MaxIter /\ remaining' <= MaxIter
  BY CountersStep DEF RestTypeOK
<1>3. /\ cancelled' \in BOOLEAN /\ doneCh' \in BOOLEAN
      /\ shown' = <<>> \/ \E r : shown' = <<r>>
  BY SurfaceStep DEF RestTypeOK
<1>4. Len(events') <= EventCap
  BY ChannelStep DEF RestTypeOK, ChannelFits, ApprovalIndInv, ApprovalTypeOK
<1>. QED  BY <1>1, <1>2, <1>3, <1>4 DEF RestTypeOK

\* Type correctness: the counters stay below their bounds, what was answered and joined are
\* positions of the reply, the channels hold no more than they have room for, and no more than
\* one request is on display (agent_loops.go, agent.go).
THEOREM LoopTypesKept == Spec => []LoopTypeOK
<1>1. /\ ResultsIndInv /\ BudgetIndInv /\ ToldIndInv /\ ApprovalIndInv /\ EndIndInv /\ RestTypeOK
      => LoopTypeOK
  <2>. SUFFICES ASSUME ResultsIndInv, BudgetIndInv, ToldIndInv, ApprovalIndInv, EndIndInv, RestTypeOK
                PROVE  LoopTypeOK
    OBVIOUS
  <2>1. /\ pc \in PC /\ tries \in 0..1 /\ cancelled \in BOOLEAN /\ doneCh \in BOOLEAN
        /\ Len(events) <= EventCap
    BY DEF RestTypeOK
  <2>2. Len(shown) <= 1
    <3>1. \A r : Len(<<r>>) = 1
      OBVIOUS
    <3>2. CASE shown = <<>>
      BY <3>2
    <3>3. CASE \E r : shown = <<r>>
      BY <3>1, <3>3
    <3>. QED  BY <3>2, <3>3 DEF RestTypeOK
  <2>3. Len(approval) <= 1
    <3>1. approval = <<>> \/ approval = <<TRUE>> \/ approval = <<FALSE>>
      BY DEF ApprovalIndInv, ApprovalTypeOK
    <3>2. Len(<<>>) = 0 /\ \A x : Len(<<x>>) = 1
      OBVIOUS
    <3>3. Len(approval) = 0 \/ Len(approval) = 1
      BY <3>1, <3>2, Zenon
    <3>4. \A x : x = 0 \/ x = 1 => x <= 1
      OBVIOUS
    <3>. QED  BY <3>3, <3>4, Zenon
  <2>4. site \in ToolSite \cup {"final"}
    BY DEF BudgetIndInv
  <2>5. iteration \in 0..MaxIter /\ remaining \in 0..MaxIter
    BY LoopAssumption DEF BudgetIndInv, RestTypeOK
  <2>6. cycle \in 0..MaxCycles /\ failed \in BOOLEAN
    BY LoopAssumption DEF EndIndInv
  <2>7. hasNode \in BOOLEAN /\ rounds \in Nat
    BY DEF ApprovalIndInv, ApprovalTypeOK
  <2>8. calls \in Replies \cup {<<>>} /\ results \in Seq(DOMAIN calls) /\ joined \subseteq AgentCalls
    BY DEF ResultsIndInv
  <2>9. told \in Seq(BgAgent)
    BY DEF ToldIndInv
  <2>. QED  BY <2>1, <2>2, <2>3, <2>4, <2>5, <2>6, <2>7, <2>8, <2>9 DEF LoopTypeOK
<1>. QED
  BY <1>1, ResultsStep, ResultsInitInv, BudgetStep, BudgetInitInv, ToldStep, ToldInitInv,
     ApprovalStep, ApprovalInitInv, EndStepInv, EndInitInv, RestStep, RestInit, PTL DEF Spec
=============================================================================
