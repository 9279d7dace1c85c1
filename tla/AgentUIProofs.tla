--------------------------- MODULE AgentUIProofs ---------------------------
(***************************************************************************)
(* Proofs about AgentUI, for every number of turns and requests, length of *)
(* a drain and capacity of the channel: an answer reaches the request it   *)
(* was given for, a turn ends on the node its agent reported, and the      *)
(* conversation only grows but for /clear.                                 *)
(***************************************************************************)
EXTENDS AgentUI, TLAPS

Ended == {"signal", "draining", "closed"}
Stands == {"none", "working", "asking", "done"} \cup Ended

EventType ==
  [tag : {"text", "subactive", "subdone"}] \cup [tag : {"approval"}, req : Nat \X Nat]
    \cup [tag : {"compacted", "done"}, node : Node]

\* The channel speaks of one node, that of the turn; the application stands on it, on
\* the one before, or on none after a /clear.
NodesOfTurn ==
  /\ events \in Seq(EventType)
  /\ agent # "none" => turn \in 1..MaxTurns
  /\ node \in {<<>>, parentNode, NewNode}
  /\ \A i \in DOMAIN events :
       /\ events[i].tag = "compacted" => events[i].node = NewNode
       /\ events[i].tag = "done" => events[i].node \in {<<>>, NewNode}

\* A turn is not over before its agent's run is, the EventDone that entered the channel
\* stays there as long as the turn runs, and no compaction follows it.
EndIsLast ==
  /\ agent = "none" => ~running /\ events = <<>> /\ sub = "none"
  /\ agent \notin {"none"} \cup Ended => running
  /\ doneSent # <<>> => agent \in Ended /\ doneSent = <<Head(doneSent)>>
  /\ doneCh => agent \in {"draining", "closed"}
  /\ \A i \in DOMAIN events :
       events[i].tag = "done" =>
         /\ running /\ doneSent = <<events[i].node>>
         /\ \A j \in DOMAIN events : i < j => events[j].tag \notin {"compacted", "done"}
  /\ ~running => \A i \in DOMAIN events : events[i].tag # "compacted"
  /\ running /\ doneSent # <<>> => \E i \in DOMAIN events : events[i].tag = "done"

\* A request is in one place: the channel, the display, or in its answer.
Asked == {i \in DOMAIN events : events[i].tag = "approval"}
OneRequest ==
  /\ Asked # {} => agent \notin {"none", "working"} /\ awaiting = <<>> /\ approval = <<>>
  /\ \A i \in Asked : events[i].req = Request
  /\ \A i, j \in Asked : i = j
  /\ awaiting # <<>> => awaiting = <<Request>> /\ approval = <<>> /\ agent \notin {"none", "working"}
  /\ approval # <<>> => approval = <<Request>> /\ agent \notin {"none", "working"}

\* The inductive invariant.
UIIndInv == TypeOK /\ NodesOfTurn /\ EndIsLast /\ OneRequest /\ ReportedNodeAdopted

-----------------------------------------------------------------------------
(* Nodes, events and the channel *)

LEMMA NodesGrow ==
  ASSUME TypeOK, agent # "none" => turn \in 1..MaxTurns, agent # "none"
  PROVE  /\ NewNode \in Node /\ NewNode # <<>> /\ <<>> \in Node
         /\ NewNode # parentNode
         /\ IsStrictPrefix(parentNode, NewNode) /\ IsStrictPrefix(<<>>, NewNode)
<1>1. parentNode \in Seq(1..MaxTurns) /\ turn \in 1..MaxTurns
  BY DEF TypeOK, Node
<1>2. /\ NewNode \in Seq(1..MaxTurns) /\ Len(NewNode) = Len(parentNode) + 1 /\ Len(parentNode) \in Nat
      /\ \A i \in 1..Len(parentNode) : NewNode[i] = parentNode[i]
  BY <1>1 DEF NewNode
<1>3. NewNode # <<>> /\ NewNode # parentNode /\ <<>> \in Seq(1..MaxTurns)
  BY <1>2
<1>4. SubSeq(parentNode, 1, Len(parentNode)) = SubSeq(NewNode, 1, Len(parentNode))
  <2>1. SubSeq(parentNode, 1, Len(parentNode)) = [i \in 1..Len(parentNode) |-> parentNode[i]]
    BY <1>1, <1>2
  <2>2. SubSeq(NewNode, 1, Len(parentNode)) = [i \in 1..Len(parentNode) |-> NewNode[i]]
    BY <1>1, <1>2
  <2>. QED  BY <1>2, <2>1, <2>2
<1>5. SubSeq(<<>>, 1, 0) = SubSeq(NewNode, 1, 0)
  BY <1>2
<1>6. IsStrictPrefix(parentNode, NewNode)
  BY <1>2, <1>3, <1>4 DEF IsStrictPrefix, IsPrefix
<1>7. IsStrictPrefix(<<>>, NewNode)
  BY <1>2, <1>3, <1>5 DEF IsStrictPrefix, IsPrefix
<1>. QED  BY <1>2, <1>3, <1>6, <1>7 DEF Node

LEMMA EventKinds ==
  /\ Text \in EventType /\ SubActive \in EventType /\ SubDone \in EventType
  /\ Text.tag = "text" /\ SubActive.tag = "subactive" /\ SubDone.tag = "subdone"
  /\ \A r \in Nat \X Nat : ApprovalReq(r) \in EventType
  /\ \A r : ApprovalReq(r).tag = "approval" /\ ApprovalReq(r).req = r
  /\ \A n \in Node : Compacted(n) \in EventType /\ Done(n) \in EventType
  /\ \A n : /\ Compacted(n).tag = "compacted" /\ Compacted(n).node = n
            /\ Done(n).tag = "done" /\ Done(n).node = n
BY DEF Text, SubActive, SubDone, ApprovalReq, Compacted, Done, EventType

LEMMA AppendsLast ==
  ASSUME events \in Seq(EventType), NEW e \in EventType, events' = Append(events, e)
  PROVE  /\ events' \in Seq(EventType) /\ Len(events) \in Nat /\ Len(events') = Len(events) + 1
         /\ DOMAIN events = 1..Len(events) /\ DOMAIN events' = 1..Len(events')
         /\ \A i \in DOMAIN events : events'[i] = events[i]
         /\ events'[Len(events) + 1] = e
<1>. HIDE DEF EventType
<1>. QED  OBVIOUS

LEMMA TakesFirst ==
  ASSUME events \in Seq(EventType), events # <<>>, events' = Tail(events)
  PROVE  /\ events' \in Seq(EventType) /\ Len(events) \in Nat \ {0} /\ Len(events') = Len(events) - 1
         /\ DOMAIN events = 1..Len(events) /\ DOMAIN events' = 1..Len(events')
         /\ \A i \in DOMAIN events' : events'[i] = events[i + 1] /\ i + 1 \in DOMAIN events
         /\ Head(events) = events[1] /\ events[1] \in EventType /\ 1 \in DOMAIN events
<1>. HIDE DEF EventType
<1>. QED  OBVIOUS

-----------------------------------------------------------------------------
(* Kinds of steps *)

\* Steps that change nothing the invariant speaks of but for its types.
Aside == StartDrain \/ SelectClosed \/ CtrlCAtWork \/ CtrlCWhenIdle \/ CtrlD \/ HintExpires
Moves == AgentGetsAnswer \/ AgentFinishes \/ AgentSignals \/ AgentCloses
Offers ==
  \/ AgentStreams \/ AgentCompacts \/ AgentAsks \/ (\E n \in {<<>>, NewNode} : AgentSendsDone(n))
  \/ SubStarts \/ SubReports \/ SubEnds
Takes == OnText \/ OnApprovalReq \/ OnCompacted \/ OnDone \/ OnSubActive \/ OnSubDone
Answers == AnswerApproval \/ Escape

LEMMA NextKinds ==
  Next => Aside \/ Moves \/ Offers \/ Takes \/ DrainEmpty \/ DrainClosed \/ Submit \/ Answers \/ Clear
BY DEF Next, AgentStep, DrainStep, UserStep, Aside, Moves, Offers, Takes, Answers

\* What the agent may put into the channel, and when.
LEMMA OffersWhat ==
  ASSUME TypeOK, NodesOfTurn, EndIsLast, Offers
  PROVE  /\ UNCHANGED <<turn, approval, doneCh, cancelled, parentNode, uiVars>> /\ agent # "none"
         /\ agent' # "none"
         /\ \E e \in EventType :
              /\ events' = events \/ (HasRoom /\ events' = Append(events, e))
              /\ \/ /\ e.tag \in {"text", "subactive", "subdone"}
                    /\ UNCHANGED <<agent, asks, doneSent>>
                 \/ /\ e.tag = "compacted" /\ e.node = NewNode /\ agent = "working"
                    /\ UNCHANGED <<agent, asks, doneSent>>
                 \/ /\ e.tag = "approval" /\ e.req = <<turn, asks + 1>>
                    /\ agent = "working" /\ agent' = "asking" /\ asks < MaxAsks /\ asks' = asks + 1
                    /\ doneSent' = doneSent
                 \/ /\ e.tag = "done" /\ e.node \in {<<>>, NewNode}
                    /\ agent = "done" /\ agent' = "signal" /\ asks' = asks
                    /\ \/ events' = events /\ doneSent' = <<>>
                       \/ events' = Append(events, e) /\ doneSent' = <<e.node>>
<1>0. agent # "none" => NewNode \in Node /\ <<>> \in Node
  BY NodesGrow DEF NodesOfTurn
<1>1. ASSUME NEW e, Offer(e)  PROVE events' = events \/ (HasRoom /\ events' = Append(events, e))
  BY <1>1 DEF Offer
<1>2. CASE AgentStreams
  BY <1>1, <1>2, EventKinds DEF AgentStreams, agentVars
<1>3. CASE AgentCompacts
  BY <1>0, <1>1, <1>3, EventKinds DEF AgentCompacts, agentVars
<1>4. CASE AgentAsks
  <2>1. /\ agent = "working" /\ asks < MaxAsks /\ agent' = "asking" /\ asks' = asks + 1
        /\ Offer(ApprovalReq(<<turn, asks + 1>>))
        /\ UNCHANGED <<turn, approval, doneCh, cancelled, parentNode, doneSent, uiVars>>
    BY <1>4 DEF AgentAsks
  <2>2. <<turn, asks + 1>> \in Nat \X Nat
    BY DEF TypeOK
  <2>. QED  BY <1>1, <2>1, <2>2, EventKinds
<1>5. ASSUME NEW n \in {<<>>, NewNode}, AgentSendsDone(n)
      PROVE  /\ UNCHANGED <<turn, approval, doneCh, cancelled, parentNode, uiVars>>
             /\ Done(n) \in EventType
             /\ events' = events \/ (HasRoom /\ events' = Append(events, Done(n)))
             /\ agent = "done" /\ agent' = "signal" /\ asks' = asks
             /\ \/ events' = events /\ doneSent' = <<>>
                \/ events' = Append(events, Done(n)) /\ doneSent' = <<n>>
  <2>1. /\ agent = "done" /\ agent' = "signal" /\ Offer(Done(n))
        /\ doneSent' = IF HasRoom THEN <<n>> ELSE <<>>
        /\ UNCHANGED <<turn, asks, approval, doneCh, cancelled, parentNode, uiVars>>
    BY <1>5 DEF AgentSendsDone
  <2>2. events' = IF HasRoom THEN Append(events, Done(n)) ELSE events
    BY <2>1 DEF Offer
  <2>. QED  BY <1>0, <2>1, <2>2, EventKinds
<1>6. CASE SubStarts
  BY <1>1, <1>6, EventKinds DEF SubStarts
<1>7. CASE SubReports
  BY <1>1, <1>7, EventKinds DEF SubReports, agentVars, EndIsLast
<1>8. CASE SubEnds
  <2>1. /\ UNCHANGED <<turn, agent, asks, approval, doneCh, cancelled, parentNode, doneSent, uiVars>>
        /\ events' = events \/ Offer(SubDone)
    BY <1>8 DEF SubEnds
  <2>2. agent # "none"
    BY <1>8 DEF SubEnds, EndIsLast
  <2>. QED  BY <1>1, <2>1, <2>2, EventKinds
<1>9. CASE \E n \in {<<>>, NewNode} : AgentSendsDone(n)
  BY <1>5, <1>9, EventKinds
<1>. QED  BY <1>2, <1>3, <1>4, <1>6, <1>7, <1>8, <1>9 DEF Offers

\* What the drain makes of an event.
LEMMA TakesWhat ==
  ASSUME running \in BOOLEAN, Takes
  PROVE  /\ events # <<>> /\ events' = Tail(events) /\ draining > 0 /\ draining' = draining - 1
         /\ UNCHANGED <<agentVars, hint, escHint, quit, cleared>>
         /\ \/ /\ Head(events).tag \in {"text", "subactive", "subdone"}
               /\ UNCHANGED <<running, awaiting, node>>
            \/ /\ Head(events).tag = "approval" /\ awaiting' = <<Head(events).req>>
               /\ UNCHANGED <<running, node>>
            \/ /\ Head(events).tag = "compacted" /\ node' = Head(events).node
               /\ UNCHANGED <<running, awaiting>>
            \/ /\ Head(events).tag = "done" /\ awaiting' = awaiting /\ running' = FALSE
               /\ node' = IF running /\ Head(events).node # <<>> THEN Head(events).node ELSE node
<1>1. CASE OnText
  BY <1>1 DEF OnText, TakeEvent
<1>2. CASE OnApprovalReq
  BY <1>2 DEF OnApprovalReq, TakeEvent
<1>3. CASE OnCompacted
  BY <1>3 DEF OnCompacted, TakeEvent
<1>4. CASE OnDone
  <2>1. TakeEvent("done") /\ Finalize(Head(events).node) /\ awaiting' = awaiting
    BY <1>4 DEF OnDone
  <2>2. /\ running' = FALSE
        /\ node' = IF running /\ Head(events).node # <<>> THEN Head(events).node ELSE node
    BY <2>1 DEF Finalize
  <2>. QED  BY <2>1, <2>2 DEF TakeEvent
<1>5. CASE OnSubActive
  BY <1>5 DEF OnSubActive, TakeEvent
<1>6. CASE OnSubDone
  BY <1>6 DEF OnSubDone, TakeEvent
<1>. QED  BY <1>1, <1>2, <1>3, <1>4, <1>5, <1>6 DEF Takes

-----------------------------------------------------------------------------
(* Types *)

Booleans ==
  /\ doneCh \in BOOLEAN /\ cancelled \in BOOLEAN /\ running \in BOOLEAN /\ cancelSent \in BOOLEAN
  /\ hint \in BOOLEAN /\ escHint \in BOOLEAN /\ text \in BOOLEAN /\ active \in BOOLEAN
  /\ quit \in BOOLEAN /\ cleared \in BOOLEAN
Phases ==
  /\ turn \in 0..MaxTurns /\ asks \in 0..MaxAsks /\ agent \in Stands
  /\ sub \in {"none", "live", "over"} /\ draining \in 0..MaxDrain

LEMMA TypeParts ==
  /\ TypeOK => Booleans /\ Phases /\ parentNode \in Node /\ node \in Node
  /\ Booleans /\ Phases /\ Len(events) <= EventCap /\ Len(approval) <= 1 /\ Len(awaiting) <= 1
       /\ parentNode \in Node /\ node \in Node /\ Len(doneSent) <= 1 => TypeOK
<1>1. TypeOK => Booleans
  BY DEF TypeOK, Booleans
<1>2. Booleans => {doneCh, cancelled, running, cancelSent, hint, escHint, text, active, quit, cleared}
                    \subseteq BOOLEAN
  BY DEF Booleans
<1>. QED  BY <1>1, <1>2 DEF TypeOK, Phases, Stands, Ended

LEMMA BooleansKept ==
  ASSUME Booleans, Next  PROVE Booleans'
<1>1. CASE Aside
  <2>1. CASE StartDrain \/ SelectClosed
    BY <2>1 DEF StartDrain, SelectClosed, Booleans, agentVars
  <2>2. CASE CtrlCAtWork
    <3>1. /\ hint' = TRUE /\ quit' = cancelSent /\ UNCHANGED <<doneCh, running, escHint, text, active, cleared>>
          /\ cancelled' = (agent # "none") \/ cancelled' = cancelled
          /\ cancelSent' = TRUE \/ cancelSent' = cancelSent
      BY <2>2 DEF CtrlCAtWork, RequestCancel, KeyFrame
    <3>. QED  BY <3>1 DEF Booleans
  <2>3. CASE CtrlCWhenIdle \/ CtrlD
    BY <2>3 DEF CtrlCWhenIdle, CtrlD, KeyFrame, Booleans
  <2>4. CASE HintExpires
    BY <2>4 DEF HintExpires, Booleans, agentVars
  <2>. QED  BY <1>1, <2>1, <2>2, <2>3, <2>4 DEF Aside
<1>2. CASE Moves
  <2>1. UNCHANGED <<cancelled, uiVars>> /\ (doneCh' = doneCh \/ doneCh' = TRUE)
    <3>1. CASE AgentGetsAnswer
      BY <3>1 DEF AgentGetsAnswer
    <3>2. CASE AgentFinishes
      BY <3>2, Zenon DEF AgentFinishes
    <3>3. CASE AgentSignals
      BY <3>3 DEF AgentSignals
    <3>4. CASE AgentCloses
      BY <3>4 DEF AgentCloses
    <3>. QED  BY <1>2, <3>1, <3>2, <3>3, <3>4 DEF Moves
  <2>. QED  BY <2>1 DEF uiVars, Booleans
<1>3. CASE Offers
  BY <1>3 DEF Offers, AgentStreams, AgentCompacts, AgentAsks, AgentSendsDone, SubStarts, SubReports,
              SubEnds, agentVars, uiVars, Booleans
<1>4. CASE Takes
  <2>1. UNCHANGED <<agentVars, hint, escHint, quit, cleared>>
    BY <1>4, TakesWhat DEF Booleans
  <2>2. running' \in BOOLEAN /\ cancelSent' \in BOOLEAN /\ text' \in BOOLEAN /\ active' \in BOOLEAN
    <3>1. CASE OnText
      BY <3>1 DEF OnText, Booleans
    <3>2. CASE OnApprovalReq \/ OnCompacted \/ OnSubActive
      BY <3>2 DEF OnApprovalReq, OnCompacted, OnSubActive, Booleans
    <3>3. CASE OnDone
      BY <3>3 DEF OnDone, Finalize, Booleans
    <3>4. CASE OnSubDone
      BY <3>4 DEF OnSubDone, Booleans
    <3>. QED  BY <1>4, <3>1, <3>2, <3>3, <3>4 DEF Takes
  <2>. QED  BY <2>1, <2>2 DEF Booleans, agentVars
<1>5. CASE DrainEmpty
  BY <1>5 DEF DrainEmpty, Finalize, Booleans, agentVars
<1>6. CASE DrainClosed
  BY <1>6 DEF DrainClosed, Booleans, agentVars
<1>7. CASE Submit
  BY <1>7 DEF Submit, Booleans
<1>8. CASE Answers
  BY <1>8 DEF Answers, AnswerApproval, Escape, RequestCancel, KeyFrame, Booleans
<1>9. CASE Clear
  BY <1>9 DEF Clear, RequestCancel, Booleans
<1>. QED  BY <1>1, <1>2, <1>3, <1>4, <1>5, <1>6, <1>7, <1>8, <1>9, NextKinds

LEMMA PhasesKept ==
  ASSUME TypeOK, NodesOfTurn, EndIsLast, Next  PROVE Phases' /\ parentNode' \in Node
<1>0. Phases /\ MaxDrain \in Nat \ {0} /\ MaxTurns \in Nat /\ parentNode \in Node /\ node \in Node
      /\ running \in BOOLEAN
  BY UIAssumption, TypeParts DEF Booleans
<1>1. CASE Aside
  <2>1. UNCHANGED <<turn, asks, agent, sub, parentNode>> /\ (draining' = draining \/ draining' = MaxDrain)
    BY <1>1 DEF Aside, StartDrain, SelectClosed, CtrlCAtWork, CtrlCWhenIdle, CtrlD, HintExpires,
                KeyFrame, agentVars
  <2>. QED  BY <1>0, <2>1 DEF Phases
<1>2. CASE Moves
  BY <1>0, <1>2 DEF Moves, AgentGetsAnswer, AgentFinishes, AgentSignals, AgentCloses, uiVars, Phases,
                    Stands, Ended
<1>3. CASE Offers
  <2>1. UNCHANGED <<turn, parentNode, draining>>
    BY <1>3, OffersWhat DEF uiVars
  <2>2. asks' \in 0..MaxAsks /\ agent' \in Stands
    <3>1. asks' = asks \/ (asks < MaxAsks /\ asks' = asks + 1)
      BY <1>3, OffersWhat
    <3>2. agent' = agent \/ agent' \in {"asking", "signal"}
      BY <1>3, OffersWhat
    <3>. QED  BY <1>0, <3>1, <3>2, UIAssumption DEF Phases, Stands, Ended
  <2>3. sub' \in {"none", "live", "over"}
    BY <1>0, <1>3 DEF Offers, AgentStreams, AgentCompacts, AgentAsks, AgentSendsDone, SubStarts,
                      SubReports, SubEnds, agentVars, Phases
  <2>. QED  BY <1>0, <2>1, <2>2, <2>3 DEF Phases
<1>4. CASE Takes
  BY <1>0, <1>4, TakesWhat DEF agentVars, Phases
<1>5. CASE DrainEmpty
  BY <1>0, <1>5 DEF DrainEmpty, agentVars, Phases
<1>6. CASE DrainClosed
  BY <1>0, <1>6 DEF DrainClosed, agentVars, Phases
<1>7. CASE Submit
  BY <1>0, <1>7, UIAssumption DEF Submit, Phases, Stands
<1>8. CASE Answers
  BY <1>0, <1>8 DEF Answers, AnswerApproval, Escape, KeyFrame, Phases
<1>9. CASE Clear
  BY <1>0, <1>9 DEF Clear, Phases
<1>. QED  BY <1>1, <1>2, <1>3, <1>4, <1>5, <1>6, <1>7, <1>8, <1>9, NextKinds

-----------------------------------------------------------------------------
(* The nodes *)

\* Steps that leave what this part of the invariant speaks of alone, the agent's
\* state but for its first one.
LEMMA NodesStay ==
  ASSUME NodesOfTurn, UNCHANGED <<turn, parentNode, node, events>>, agent' # "none" => agent # "none"
  PROVE  NodesOfTurn'
BY DEF NodesOfTurn, NewNode

LEMMA NodesKept ==
  ASSUME TypeOK, NodesOfTurn, EndIsLast, Next  PROVE NodesOfTurn'
<1>0. /\ events \in Seq(EventType) /\ node \in {<<>>, parentNode, NewNode} /\ running \in BOOLEAN
      /\ agent # "none" => turn \in 1..MaxTurns
  BY TypeParts DEF NodesOfTurn, Booleans
<1>1. CASE Aside
  BY <1>1, NodesStay DEF Aside, StartDrain, SelectClosed, CtrlCAtWork, CtrlCWhenIdle, CtrlD, HintExpires,
                    KeyFrame, agentVars
<1>2. CASE Moves
  BY <1>2, NodesStay DEF Moves, AgentGetsAnswer, AgentFinishes, AgentSignals, AgentCloses, uiVars
<1>3. CASE Offers
  <2>1. /\ UNCHANGED <<turn, parentNode, node>> /\ agent # "none"
    BY <1>3, OffersWhat DEF uiVars
  <2>2. PICK e \in EventType :
          /\ events' = events \/ events' = Append(events, e)
          /\ e.tag = "compacted" => e.node = NewNode
          /\ e.tag = "done" => e.node \in {<<>>, NewNode}
    BY <1>3, OffersWhat
  <2>3. CASE events' = events
    BY <2>1, <2>3, NodesStay
  <2>4. CASE events' = Append(events, e)
    <3>1. /\ events' \in Seq(EventType) /\ Len(events) \in Nat /\ Len(events') = Len(events) + 1
          /\ DOMAIN events = 1..Len(events) /\ DOMAIN events' = 1..Len(events')
          /\ \A i \in DOMAIN events : events'[i] = events[i]
          /\ events'[Len(events) + 1] = e
      BY <1>0, <2>4, AppendsLast
    <3>2. \A i \in DOMAIN events' : i \in DOMAIN events \/ events'[i] = e
      BY <3>1
    <3>3. ASSUME NEW i \in DOMAIN events'
          PROVE  /\ events'[i].tag = "compacted" => events'[i].node = NewNode
                 /\ events'[i].tag = "done" => events'[i].node \in {<<>>, NewNode}
      BY <2>2, <3>1, <3>2 DEF NodesOfTurn
    <3>4. NewNode' = NewNode
      BY <2>1 DEF NewNode
    <3>. QED  BY <1>0, <2>1, <3>1, <3>3, <3>4 DEF NodesOfTurn
  <2>. QED  BY <2>2, <2>3, <2>4
<1>4. CASE Takes
  <2>1. /\ events # <<>> /\ events' = Tail(events) /\ UNCHANGED <<turn, agent, parentNode>>
        /\ \/ node' = node
           \/ Head(events).tag \in {"compacted", "done"} /\ node' = Head(events).node
    BY <1>0, <1>4, TakesWhat DEF agentVars
  <2>2. /\ events' \in Seq(EventType)
        /\ \A i \in DOMAIN events' : events'[i] = events[i + 1] /\ i + 1 \in DOMAIN events
        /\ Head(events) = events[1] /\ 1 \in DOMAIN events
    BY <1>0, <2>1, TakesFirst
  <2>3. NewNode' = NewNode
    BY <2>1 DEF NewNode
  <2>4. node' \in {<<>>, parentNode, NewNode}
    BY <1>0, <2>1, <2>2 DEF NodesOfTurn
  <2>5. ASSUME NEW i \in DOMAIN events'
        PROVE  /\ events'[i].tag = "compacted" => events'[i].node = NewNode
               /\ events'[i].tag = "done" => events'[i].node \in {<<>>, NewNode}
    BY <2>2 DEF NodesOfTurn
  <2>. QED  BY <1>0, <2>1, <2>2, <2>3, <2>4, <2>5 DEF NodesOfTurn
<1>5. CASE DrainEmpty
  BY <1>5, NodesStay DEF DrainEmpty, Finalize, agentVars
<1>6. CASE DrainClosed
  BY <1>6, NodesStay DEF DrainClosed, agentVars
<1>7. CASE Submit
  <2>1. /\ turn < MaxTurns /\ turn' = turn + 1 /\ events' = <<>> /\ parentNode' = node /\ node' = node
    BY <1>7 DEF Submit
  <2>2. turn' \in 1..MaxTurns
    BY <2>1, UIAssumption DEF TypeOK
  <2>. QED  BY <2>1, <2>2 DEF NodesOfTurn
<1>8. CASE Answers
  BY <1>8, NodesStay DEF Answers, AnswerApproval, Escape, KeyFrame
<1>9. CASE Clear
  <2>1. UNCHANGED <<turn, agent, parentNode, events>> /\ node' = <<>>
    BY <1>9 DEF Clear
  <2>2. NewNode' = NewNode
    BY <2>1 DEF NewNode
  <2>. QED  BY <2>1, <2>2 DEF NodesOfTurn
<1>. QED  BY <1>1, <1>2, <1>3, <1>4, <1>5, <1>6, <1>7, <1>8, <1>9, NextKinds

-----------------------------------------------------------------------------
(* The end of a turn *)

LEMMA EndStays ==
  ASSUME EndIsLast, UNCHANGED <<events, running, doneSent, sub>>, agent' = "none" <=> agent = "none",
         agent \in Ended => agent' \in Ended, agent' \in Ended \/ running \/ agent' = agent,
         doneCh' => agent' \in {"draining", "closed"}
  PROVE  EndIsLast'
<1>1. agent' \notin {"none"} \cup Ended => running
  BY DEF EndIsLast
<1>. QED  BY <1>1 DEF EndIsLast

LEMMA EndKept ==
  ASSUME TypeOK, NodesOfTurn, EndIsLast, Next  PROVE EndIsLast'
<1>0. /\ events \in Seq(EventType) /\ running \in BOOLEAN /\ EndIsLast /\ doneCh \in BOOLEAN
  BY TypeParts DEF NodesOfTurn, Booleans
<1>1. CASE Aside
  <2>1. UNCHANGED <<events, running, doneSent, agent, doneCh, sub>>
    BY <1>1 DEF Aside, StartDrain, SelectClosed, CtrlCAtWork, CtrlCWhenIdle, CtrlD, HintExpires,
                    KeyFrame, agentVars
  <2>. QED  BY <1>0, <2>1, EndStays DEF EndIsLast
<1>2. CASE Moves
  <2>1. UNCHANGED <<events, running, doneSent, sub>>
    BY <1>2 DEF Moves, AgentGetsAnswer, AgentFinishes, AgentSignals, AgentCloses, uiVars
  <2>2. CASE AgentGetsAnswer \/ AgentFinishes
    <3>1. /\ agent \in {"working", "asking"} /\ agent' \in {"working", "done"} /\ doneCh' = doneCh
      BY <2>2 DEF AgentGetsAnswer, AgentFinishes
    <3>2. running /\ ~doneCh
      BY <1>0, <3>1 DEF EndIsLast, Ended
    <3>. QED  BY <2>1, <3>1, <3>2, EndStays DEF Ended
  <2>3. CASE AgentSignals \/ AgentCloses
    <3>1. agent \in Ended /\ agent' \in {"draining", "closed"}
      BY <2>3 DEF AgentSignals, AgentCloses, Ended
    <3>. QED  BY <2>1, <3>1, EndStays DEF Ended
  <2>. QED  BY <1>2, <2>2, <2>3 DEF Moves
<1>3. CASE Offers
  <2>1. UNCHANGED <<doneCh, running>> /\ agent # "none" /\ agent' # "none"
    BY <1>3, OffersWhat DEF uiVars
  <2>2. PICK e \in EventType :
          /\ events' = events \/ events' = Append(events, e)
          /\ \/ /\ e.tag \in {"text", "subactive", "subdone", "approval", "compacted"}
                /\ agent' = agent \/ (agent = "working" /\ agent' = "asking")
                /\ e.tag = "compacted" => agent = "working"
                /\ doneSent' = doneSent
             \/ /\ e.tag = "done" /\ agent = "done" /\ agent' = "signal"
                /\ \/ events' = events /\ doneSent' = <<>>
                   \/ events' = Append(events, e) /\ doneSent' = <<e.node>>
    BY <1>3, OffersWhat
  <2>3. doneCh => agent' \in {"draining", "closed"}
    BY <2>2 DEF EndIsLast
  <2>4. agent' \notin {"none"} \cup Ended => running
    BY <2>1, <2>2 DEF EndIsLast, Ended
  <2>5. agent \in {"working", "done"} => running /\ doneSent = <<>>
    BY DEF EndIsLast, Ended
  <2>6. doneSent' # <<>> => agent' \in Ended /\ doneSent' = <<Head(doneSent')>>
    <3>1. CASE doneSent' = doneSent
      BY <2>2, <2>5, <3>1 DEF EndIsLast, Ended
    <3>2. CASE e.tag = "done" /\ agent' = "signal" /\ doneSent' = <<e.node>>
      BY <3>2 DEF Ended
    <3>. QED  BY <2>2, <3>1, <3>2
  <2>7. CASE events' = events
    <3>1. agent = "done" => \A i \in DOMAIN events : events[i].tag # "done"
      BY <2>5 DEF EndIsLast
    <3>2. doneSent' = doneSent \/ (agent = "done" /\ doneSent' = <<>>)
      <4>1. CASE e.tag # "done"
        BY <2>2, <4>1
      <4>2. CASE e.tag = "done"
        <5>1. events' # Append(events, e)
          BY <1>0, <2>7, AppendsLast
        <5>. QED  BY <2>2, <4>2, <5>1
      <4>. QED  BY <4>1, <4>2
    <3>. QED  BY <2>1, <2>3, <2>4, <2>6, <2>7, <3>1, <3>2 DEF EndIsLast
  <2>8. CASE events' = Append(events, e)
    <3>1. /\ events' \in Seq(EventType) /\ Len(events) \in Nat /\ Len(events') = Len(events) + 1
          /\ DOMAIN events = 1..Len(events) /\ DOMAIN events' = 1..Len(events')
          /\ \A i \in DOMAIN events : events'[i] = events[i]
          /\ events'[Len(events) + 1] = e
      BY <1>0, <2>8, AppendsLast
    <3>2. \A i \in DOMAIN events' : i \in DOMAIN events \/ (i = Len(events) + 1 /\ events'[i] = e)
      BY <3>1
    <3>a. Len(events) + 1 \in DOMAIN events' /\ \A i \in DOMAIN events : i \in DOMAIN events'
      BY <3>1
    <3>3. ~running => \A i \in DOMAIN events' : events'[i].tag # "compacted"
      BY <2>2, <2>5, <3>1, <3>2 DEF EndIsLast
    <3>4. CASE e.tag = "done"
      <4>1. /\ agent = "done" /\ doneSent' = <<e.node>> /\ running /\ doneSent = <<>>
        <5>1. events' # events
          BY <3>1
        <5>. QED  BY <2>2, <2>5, <3>4, <5>1
      <4>2. \A i \in DOMAIN events : events[i].tag # "done"
        BY <4>1 DEF EndIsLast
      <4>3. \A i \in DOMAIN events' : events'[i].tag = "done" => i = Len(events) + 1 /\ events'[i] = e
        BY <3>1, <3>2, <4>2
      <4>4. \A j \in DOMAIN events' : ~(Len(events) + 1 < j)
        BY <3>1
      <4>5. ASSUME NEW i \in DOMAIN events', events'[i].tag = "done"
            PROVE  /\ running /\ doneSent' = <<events'[i].node>>
                   /\ \A j \in DOMAIN events' : i < j => events'[j].tag \notin {"compacted", "done"}
        BY <4>1, <4>3, <4>4, <4>5
      <4>6. \E i \in DOMAIN events' : events'[i].tag = "done"
        BY <3>1, <3>a, <3>4
      <4>. QED  BY <2>1, <2>3, <2>4, <2>6, <3>3, <4>5, <4>6 DEF EndIsLast
    <3>5. CASE e.tag # "done"
      <4>1. doneSent' = doneSent /\ (e.tag = "compacted" => agent = "working")
        BY <2>2, <3>5
      <4>2. ASSUME NEW i \in DOMAIN events', events'[i].tag = "done"
            PROVE  /\ running /\ doneSent = <<events'[i].node>>
                   /\ \A j \in DOMAIN events' : i < j => events'[j].tag \notin {"compacted", "done"}
        <5>1. i \in DOMAIN events /\ events'[i] = events[i]
          BY <3>1, <3>2, <3>5, <4>2
        <5>2. /\ running /\ doneSent = <<events[i].node>>
              /\ \A j \in DOMAIN events : i < j => events[j].tag \notin {"compacted", "done"}
          BY <4>2, <5>1 DEF EndIsLast
        <5>3. e.tag # "compacted"
          BY <2>5, <4>1, <5>2
        <5>4. ASSUME NEW j \in DOMAIN events', i < j  PROVE events'[j].tag \notin {"compacted", "done"}
          BY <3>1, <3>2, <3>5, <5>2, <5>3, <5>4
        <5>. QED  BY <5>1, <5>2, <5>4
      <4>3. running /\ doneSent # <<>> => \E i \in DOMAIN events' : events'[i].tag = "done"
        BY <3>1, <3>a DEF EndIsLast
      <4>. QED  BY <2>1, <2>3, <2>4, <2>6, <3>3, <4>1, <4>2, <4>3 DEF EndIsLast
    <3>. QED  BY <3>4, <3>5
  <2>. QED  BY <2>2, <2>7, <2>8
<1>4. CASE Takes
  <2>1. /\ events # <<>> /\ events' = Tail(events) /\ UNCHANGED <<agent, doneCh, doneSent, sub>>
        /\ \/ Head(events).tag # "done" /\ running' = running
           \/ Head(events).tag = "done" /\ running' = FALSE
    BY <1>0, <1>4, TakesWhat DEF agentVars
  <2>2. /\ Len(events) \in Nat \ {0} /\ Len(events') = Len(events) - 1
        /\ DOMAIN events = 1..Len(events) /\ DOMAIN events' = 1..Len(events')
        /\ \A i \in DOMAIN events' : events'[i] = events[i + 1] /\ i + 1 \in DOMAIN events
        /\ Head(events) = events[1] /\ 1 \in DOMAIN events
    BY <1>0, <2>1, TakesFirst
  <2>3. agent # "none"
    BY <2>1 DEF EndIsLast
  <2>4. CASE events[1].tag = "done"
    <3>1. running /\ doneSent = <<events[1].node>> /\ agent \in Ended
      BY <2>2, <2>4 DEF EndIsLast
    <3>2. \A j \in DOMAIN events : 1 < j => events[j].tag \notin {"compacted", "done"}
      BY <2>2, <2>4 DEF EndIsLast
    <3>3. \A i \in DOMAIN events' : events'[i].tag \notin {"compacted", "done"}
      <4>1. \A i \in DOMAIN events' : 1 < i + 1
        BY <2>2
      <4>. QED  BY <2>2, <3>2, <4>1
    <3>4. running' = FALSE
      BY <2>1, <2>2, <2>4
    <3>. QED  BY <2>1, <2>3, <3>1, <3>3, <3>4 DEF EndIsLast
  <2>5. CASE events[1].tag # "done"
    <3>1. running' = running
      BY <2>1, <2>2, <2>5
    <3>2. ASSUME NEW i \in DOMAIN events', events'[i].tag = "done"
          PROVE  /\ running /\ doneSent = <<events'[i].node>>
                 /\ \A j \in DOMAIN events' : i < j => events'[j].tag \notin {"compacted", "done"}
      <4>1. i + 1 \in DOMAIN events /\ events[i + 1] = events'[i]
        BY <2>2
      <4>2. /\ running /\ doneSent = <<events[i + 1].node>>
            /\ \A j \in DOMAIN events : i + 1 < j => events[j].tag \notin {"compacted", "done"}
        BY <3>2, <4>1 DEF EndIsLast
      <4>3. ASSUME NEW j \in DOMAIN events', i < j  PROVE events'[j].tag \notin {"compacted", "done"}
        <5>1. i + 1 < j + 1 /\ j + 1 \in DOMAIN events /\ events'[j] = events[j + 1]
          BY <2>2, <4>3
        <5>. QED  BY <4>2, <5>1
      <4>. QED  BY <4>1, <4>2, <4>3
    <3>3. ASSUME running, doneSent # <<>>  PROVE \E i \in DOMAIN events' : events'[i].tag = "done"
      <4>1. PICK i \in DOMAIN events : events[i].tag = "done"
        BY <3>3 DEF EndIsLast
      <4>2. i # 1 /\ i - 1 \in DOMAIN events' /\ events'[i - 1] = events[i]
        BY <2>2, <2>5, <4>1
      <4>. QED  BY <4>1, <4>2
    <3>4. ~running => \A i \in DOMAIN events' : events'[i].tag # "compacted"
      BY <2>2 DEF EndIsLast
    <3>. QED  BY <2>1, <2>3, <3>1, <3>2, <3>3, <3>4 DEF EndIsLast
  <2>. QED  BY <2>4, <2>5
<1>5. CASE DrainEmpty \/ DrainClosed
  <2>1. /\ events = <<>> /\ UNCHANGED <<events, agent, doneCh, doneSent, sub>>
        /\ running' = running \/ (running' = FALSE /\ (doneCh \/ agent = "closed"))
    BY <1>0, <1>5 DEF DrainEmpty, DrainClosed, Finalize, agentVars
  <2>2. DOMAIN events = {}
    BY <2>1
  <2>. QED  BY <1>0, <2>1, <2>2 DEF EndIsLast, Ended
<1>6. CASE Submit
  <2>1. agent' = "working" /\ events' = <<>> /\ doneCh' = FALSE /\ doneSent' = <<>> /\ running' = TRUE
    BY <1>6 DEF Submit
  <2>2. DOMAIN events' = {}
    BY <2>1
  <2>. QED  BY <2>1, <2>2 DEF EndIsLast, Ended
<1>7. CASE Answers \/ Clear
  <2>1. UNCHANGED <<events, running, doneSent, agent, doneCh, sub>>
    BY <1>7 DEF Answers, AnswerApproval, Escape, Clear, KeyFrame
  <2>. QED  BY <1>0, <2>1, EndStays DEF EndIsLast
<1>. QED  BY <1>1, <1>2, <1>3, <1>4, <1>5, <1>6, <1>7, NextKinds

-----------------------------------------------------------------------------
(* The request *)

LEMMA RequestStays ==
  ASSUME OneRequest, UNCHANGED <<turn, asks, events, awaiting, approval>>,
         agent' \in {"none", "working"} => agent \in {"none", "working"}
  PROVE  OneRequest'
<1>1. Asked' = Asked /\ Request' = Request
  BY DEF Asked, Request
<1>. QED  BY <1>1 DEF OneRequest

LEMMA RequestKept ==
  ASSUME TypeOK, NodesOfTurn, EndIsLast, OneRequest, Next  PROVE OneRequest'
<1>0. events \in Seq(EventType) /\ OneRequest /\ running \in BOOLEAN
  BY TypeParts DEF NodesOfTurn, Booleans
<1>1. CASE Aside
  BY <1>1, RequestStays DEF Aside, StartDrain, SelectClosed, CtrlCAtWork, CtrlCWhenIdle, CtrlD,
                            HintExpires, KeyFrame, agentVars
<1>2. CASE Moves
  <2>1. CASE AgentGetsAnswer
    <3>1. /\ approval # <<>> /\ approval' = <<>> /\ UNCHANGED <<turn, asks, events, awaiting>>
      BY <2>1 DEF AgentGetsAnswer, uiVars
    <3>2. Asked = {} /\ awaiting = <<>> /\ Asked' = Asked
      BY <3>1 DEF OneRequest, Asked
    <3>. QED  BY <3>1, <3>2 DEF OneRequest
  <2>2. CASE AgentFinishes \/ AgentSignals \/ AgentCloses
    BY <2>2, RequestStays DEF AgentFinishes, AgentSignals, AgentCloses, uiVars
  <2>. QED  BY <1>2, <2>1, <2>2 DEF Moves
<1>3. CASE Offers
  <2>1. UNCHANGED <<turn, approval, awaiting>> /\ agent' # "none"
    BY <1>3, OffersWhat DEF uiVars
  <2>2. PICK e \in EventType :
          /\ events' = events \/ events' = Append(events, e)
          /\ \/ e.tag # "approval" /\ asks' = asks /\ (agent' = "working" => agent = "working")
             \/ /\ e.tag = "approval" /\ e.req = <<turn, asks + 1>>
                /\ agent = "working" /\ agent' = "asking" /\ asks' = asks + 1
    BY <1>3, OffersWhat
  <2>3. agent = "working" => Asked = {} /\ awaiting = <<>> /\ approval = <<>>
    BY DEF OneRequest
  <2>4. CASE events' = events
    <3>1. CASE e.tag # "approval"
      BY <2>1, <2>2, <2>4, <3>1, RequestStays
    <3>2. CASE e.tag = "approval"
      <4>1. Asked' = {} /\ awaiting' = <<>> /\ approval' = <<>>
        BY <2>1, <2>2, <2>3, <2>4, <3>2 DEF Asked
      <4>. QED  BY <4>1 DEF OneRequest
    <3>. QED  BY <3>1, <3>2
  <2>5. CASE events' = Append(events, e)
    <3>1. /\ events' \in Seq(EventType) /\ Len(events) \in Nat /\ Len(events') = Len(events) + 1
          /\ DOMAIN events = 1..Len(events) /\ DOMAIN events' = 1..Len(events')
          /\ \A i \in DOMAIN events : events'[i] = events[i]
          /\ events'[Len(events) + 1] = e
      BY <1>0, <2>5, AppendsLast
    <3>2. \A i : i \in DOMAIN events' <=> (i \in DOMAIN events \/ i = Len(events) + 1)
      BY <3>1
    <3>3. CASE e.tag # "approval"
      <4>1. Asked' = Asked /\ \A i \in Asked : events'[i] = events[i]
        BY <3>1, <3>2, <3>3 DEF Asked
      <4>2. asks' = asks /\ (agent' \in {"none", "working"} => agent \in {"none", "working"})
        BY <2>1, <2>2, <3>3
      <4>3. Request' = Request
        BY <2>1, <4>2 DEF Request
      <4>. QED  BY <2>1, <4>1, <4>2, <4>3 DEF OneRequest
    <3>4. CASE e.tag = "approval"
      <4>1. /\ e.req = <<turn, asks + 1>> /\ agent' = "asking" /\ asks' = asks + 1
            /\ Asked = {} /\ awaiting' = <<>> /\ approval' = <<>>
        BY <2>1, <2>2, <2>3, <3>4
      <4>2. Asked' = {Len(events) + 1} /\ events'[Len(events) + 1].req = Request'
        <5>1. \A i \in DOMAIN events : events'[i].tag # "approval"
          BY <3>1, <4>1 DEF Asked
        <5>2. events'[Len(events) + 1].req = Request'
          BY <2>1, <3>1, <4>1 DEF Request
        <5>. QED  BY <3>1, <3>2, <3>4, <5>1, <5>2 DEF Asked
      <4>. QED  BY <4>1, <4>2 DEF OneRequest
    <3>. QED  BY <3>3, <3>4
  <2>. QED  BY <2>2, <2>4, <2>5
<1>4. CASE Takes
  <2>1. /\ events # <<>> /\ events' = Tail(events) /\ UNCHANGED <<turn, asks, agent, approval>>
        /\ \/ Head(events).tag # "approval" /\ awaiting' = awaiting
           \/ Head(events).tag = "approval" /\ awaiting' = <<Head(events).req>>
    BY <1>0, <1>4, TakesWhat DEF agentVars
  <2>2. /\ Len(events) \in Nat \ {0} /\ Len(events') = Len(events) - 1
        /\ DOMAIN events = 1..Len(events) /\ DOMAIN events' = 1..Len(events')
        /\ \A i \in DOMAIN events' : events'[i] = events[i + 1] /\ i + 1 \in DOMAIN events
        /\ Head(events) = events[1] /\ 1 \in DOMAIN events
    BY <1>0, <2>1, TakesFirst
  <2>3. Request' = Request
    BY <2>1 DEF Request
  <2>4. \A i \in Asked' : i \in Nat \ {0} /\ i + 1 \in Asked /\ events'[i] = events[i + 1]
    BY <2>2 DEF Asked
  <2>5. CASE events[1].tag = "approval"
    <3>1. 1 \in Asked
      BY <2>2, <2>5 DEF Asked
    <3>2. /\ events[1].req = Request /\ agent \notin {"none", "working"} /\ approval = <<>>
          /\ \A i \in Asked : i = 1
      BY <3>1 DEF OneRequest
    <3>3. Asked' = {}
      BY <2>4, <3>2
    <3>. QED  BY <2>1, <2>2, <2>3, <2>5, <3>2, <3>3 DEF OneRequest
  <2>6. CASE events[1].tag # "approval"
    <3>1. awaiting' = awaiting
      BY <2>1, <2>2, <2>6
    <3>2. Asked' # {} => Asked # {}
      BY <2>4
    <3>3. \A i \in Asked' : events'[i].req = Request
      BY <2>4 DEF OneRequest
    <3>4. \A i, j \in Asked' : i = j
      <4>1. \A i, j \in Asked' : i + 1 = j + 1
        BY <2>4 DEF OneRequest
      <4>. QED  BY <2>4, <4>1
    <3>. QED  BY <2>1, <2>3, <3>1, <3>2, <3>3, <3>4 DEF OneRequest
  <2>. QED  BY <2>5, <2>6
<1>5. CASE DrainEmpty \/ DrainClosed \/ Clear
  BY <1>5, RequestStays DEF DrainEmpty, DrainClosed, Clear, agentVars
<1>6. CASE Submit
  <2>1. events' = <<>> /\ approval' = <<>> /\ awaiting' = <<>>
    BY <1>6 DEF Submit
  <2>2. Asked' = {}
    BY <2>1 DEF Asked
  <2>. QED  BY <2>1, <2>2 DEF OneRequest
<1>7. CASE Answers
  <2>1. /\ UNCHANGED <<turn, asks, agent, events>>
        /\ (awaiting # <<>> /\ Decide) \/ UNCHANGED <<awaiting, approval>>
    BY <1>7 DEF Answers, AnswerApproval, Escape, KeyFrame
  <2>2. CASE UNCHANGED <<awaiting, approval>>
    BY <2>1, <2>2, RequestStays
  <2>3. CASE awaiting # <<>> /\ Decide
    <3>1. awaiting = <<Request>> /\ approval = <<>> /\ agent \notin {"none", "working"} /\ Asked = {}
      BY <2>3 DEF OneRequest
    <3>2. awaiting' = <<>> /\ approval' = <<Request>>
      BY <2>3, <3>1 DEF Decide
    <3>3. Asked' = {} /\ Request' = Request
      BY <2>1, <3>1 DEF Asked, Request
    <3>. QED  BY <2>1, <3>1, <3>2, <3>3 DEF OneRequest
  <2>. QED  BY <2>1, <2>2, <2>3
<1>. QED  BY <1>1, <1>2, <1>3, <1>4, <1>5, <1>6, <1>7, NextKinds

-----------------------------------------------------------------------------
(* The node a turn ends on *)

LEMMA AdoptedKept ==
  ASSUME TypeOK, NodesOfTurn, EndIsLast, ReportedNodeAdopted, Next  PROVE ReportedNodeAdopted'
<1>0. events \in Seq(EventType) /\ running \in BOOLEAN /\ ReportedNodeAdopted
  BY TypeParts DEF NodesOfTurn, Booleans
<1>1. CASE Aside \/ Answers
  <2>1. UNCHANGED <<agent, running, cleared, doneSent, node>>
    BY <1>1 DEF Aside, StartDrain, SelectClosed, CtrlCAtWork, CtrlCWhenIdle, CtrlD, HintExpires,
                Answers, AnswerApproval, Escape, KeyFrame, agentVars
  <2>. QED  BY <1>0, <2>1 DEF ReportedNodeAdopted
<1>2. CASE Moves
  <2>1. UNCHANGED <<running, cleared, doneSent, node>> /\ agent # "none"
    BY <1>2 DEF Moves, AgentGetsAnswer, AgentFinishes, AgentSignals, AgentCloses, uiVars
  <2>. QED  BY <1>0, <2>1 DEF ReportedNodeAdopted
<1>3. CASE Offers
  <2>1. UNCHANGED <<running, cleared, node>> /\ agent # "none"
    BY <1>3, OffersWhat DEF uiVars
  <2>2. doneSent' = doneSent \/ agent = "done"
    BY <1>3, OffersWhat
  <2>3. agent = "done" => running
    BY DEF EndIsLast, Ended
  <2>. QED  BY <1>0, <2>1, <2>2, <2>3 DEF ReportedNodeAdopted
<1>4. CASE Takes
  <2>1. /\ events # <<>> /\ events' = Tail(events) /\ UNCHANGED <<agent, cleared, doneSent>>
        /\ \/ Head(events).tag \in {"text", "subactive", "subdone", "approval"} /\ UNCHANGED <<running, node>>
           \/ Head(events).tag = "compacted" /\ running' = running
           \/ /\ Head(events).tag = "done"
              /\ node' = IF running /\ Head(events).node # <<>> THEN Head(events).node ELSE node
    BY <1>0, <1>4, TakesWhat DEF agentVars
  <2>2. Head(events) = events[1] /\ 1 \in DOMAIN events
    BY <1>0, <2>1, TakesFirst
  <2>3. CASE events[1].tag = "done"
    <3>1. running /\ doneSent = <<events[1].node>>
      BY <2>2, <2>3 DEF EndIsLast
    <3>2. events[1].node # <<>> => node' = events[1].node
      BY <2>1, <2>2, <2>3, <3>1
    <3>3. Head(doneSent') = events[1].node
      BY <2>1, <3>1
    <3>. QED  BY <3>2, <3>3 DEF ReportedNodeAdopted
  <2>4. CASE events[1].tag = "compacted"
    BY <2>1, <2>2, <2>4 DEF EndIsLast, ReportedNodeAdopted
  <2>5. CASE events[1].tag \notin {"compacted", "done"}
    BY <1>0, <2>1, <2>2, <2>5 DEF ReportedNodeAdopted
  <2>. QED  BY <2>3, <2>4, <2>5
<1>5. CASE DrainEmpty \/ DrainClosed
  <2>1. /\ events = <<>> /\ UNCHANGED <<agent, doneSent, node, cleared>>
        /\ running' = running \/ running
    BY <1>0, <1>5 DEF DrainEmpty, DrainClosed, Finalize, agentVars
  <2>2. running => doneSent = <<>>
    BY <2>1 DEF EndIsLast
  <2>. QED  BY <1>0, <2>1, <2>2 DEF ReportedNodeAdopted
<1>6. CASE Submit
  BY <1>6 DEF Submit, ReportedNodeAdopted
<1>7. CASE Clear
  BY <1>7 DEF Clear, ReportedNodeAdopted
<1>. QED  BY <1>1, <1>2, <1>3, <1>4, <1>5, <1>6, <1>7, NextKinds

-----------------------------------------------------------------------------
(* The invariant *)

LEMMA ChannelFits ==
  ASSUME TypeOK, NodesOfTurn, EndIsLast, Next  PROVE Len(events') <= EventCap
<1>0. /\ events \in Seq(EventType) /\ Len(events) <= EventCap /\ running \in BOOLEAN
      /\ EventCap \in Nat
  BY UIAssumption, TypeParts DEF NodesOfTurn, TypeOK, Booleans
<1>1. CASE Offers
  <2>1. PICK e \in EventType : events' = events \/ (HasRoom /\ events' = Append(events, e))
    BY <1>1, OffersWhat
  <2>2. CASE HasRoom /\ events' = Append(events, e)
    BY <1>0, <2>2, AppendsLast DEF HasRoom
  <2>. QED  BY <1>0, <2>1, <2>2
<1>2. CASE Takes
  <2>1. events # <<>> /\ events' = Tail(events)
    BY <1>0, <1>2, TakesWhat
  <2>2. Len(events') = Len(events) - 1 /\ Len(events) \in Nat
    BY <1>0, <2>1, TakesFirst
  <2>. QED  BY <1>0, <2>2
<1>3. CASE Submit
  <2>1. Len(events') = 0
    BY <1>3 DEF Submit
  <2>. QED  BY <1>0, <2>1
<1>4. CASE Aside \/ Moves \/ DrainEmpty \/ DrainClosed \/ Answers \/ Clear
  <2>1. events' = events
    BY <1>4 DEF Aside, StartDrain, SelectClosed, CtrlCAtWork, CtrlCWhenIdle, CtrlD, HintExpires,
                Moves, AgentGetsAnswer, AgentFinishes, AgentSignals, AgentCloses, DrainEmpty, DrainClosed,
                Answers, AnswerApproval, Escape, Clear, KeyFrame
  <2>. QED  BY <1>0, <2>1
<1>. QED  BY <1>1, <1>2, <1>3, <1>4, NextKinds

LEMMA NoneKeepsNode ==
  ASSUME EndIsLast, running \in BOOLEAN, agent' = "none", Next
  PROVE  agent = "none" /\ (node' = node \/ node' = <<>>)
<1>1. CASE Aside \/ Answers \/ DrainEmpty \/ DrainClosed \/ Clear
  BY <1>1 DEF Aside, StartDrain, SelectClosed, CtrlCAtWork, CtrlCWhenIdle, CtrlD, HintExpires,
              Answers, AnswerApproval, Escape, KeyFrame, agentVars, DrainEmpty, DrainClosed, Clear,
              EndIsLast, Finalize
<1>2. CASE Moves
  BY <1>2 DEF Moves, AgentGetsAnswer, AgentFinishes, AgentSignals, AgentCloses
<1>3. CASE Offers
  BY <1>3 DEF Offers, AgentStreams, AgentCompacts, AgentAsks, AgentSendsDone, SubStarts, SubReports,
              SubEnds, agentVars, uiVars
<1>4. CASE Takes
  BY <1>4, TakesWhat DEF agentVars, EndIsLast
<1>5. CASE Submit
  BY <1>5 DEF Submit
<1>. QED  BY <1>1, <1>2, <1>3, <1>4, <1>5, NextKinds

LEMMA NextKeepsUI == ASSUME UIIndInv, Next  PROVE UIIndInv'
<1>0. TypeOK /\ NodesOfTurn /\ EndIsLast /\ OneRequest /\ ReportedNodeAdopted
  BY DEF UIIndInv
<1>1. NodesOfTurn'
  BY <1>0, NodesKept
<1>2. EndIsLast'
  BY <1>0, EndKept
<1>3. OneRequest'
  BY <1>0, RequestKept
<1>4. ReportedNodeAdopted'
  BY <1>0, AdoptedKept
<1>5. TypeOK'
  <2>1. Booleans' /\ Phases' /\ parentNode' \in Node
    BY <1>0, BooleansKept, PhasesKept, TypeParts
  <2>2. Len(events') <= EventCap
    BY <1>0, ChannelFits
  <2>3. node' \in Node
    <3>1. <<>> \in Node /\ (agent' # "none" => turn' \in 1..MaxTurns)
      BY <1>1 DEF Node, NodesOfTurn
    <3>2. CASE agent' # "none"
      <4>1. NewNode' \in Node
        BY <2>1, <3>1, <3>2 DEF NewNode, Node
      <4>. QED  BY <1>1, <2>1, <3>1, <4>1 DEF NodesOfTurn
    <3>3. CASE agent' = "none"
      <4>1. node' = node \/ node' = <<>>
        BY <1>0, <3>3, NoneKeepsNode, TypeParts DEF Booleans
      <4>. QED  BY <1>0, <3>1, <4>1 DEF TypeOK
    <3>. QED  BY <3>2, <3>3
  <2>4. Len(approval') <= 1 /\ Len(awaiting') <= 1 /\ Len(doneSent') <= 1
    <3>1. (approval' = <<>> \/ approval' = <<Request'>>) /\ (awaiting' = <<>> \/ awaiting' = <<Request'>>)
      BY <1>3 DEF OneRequest
    <3>2. doneSent' = <<>> \/ doneSent' = <<Head(doneSent')>>
      BY <1>2 DEF EndIsLast
    <3>3. Len(<<>>) = 0 /\ \A x : Len(<<x>>) = 1
      OBVIOUS
    <3>4. (Len(approval') = 0 \/ Len(approval') = 1) /\ (Len(awaiting') = 0 \/ Len(awaiting') = 1)
      BY <3>1, <3>3, Zenon
    <3>5. Len(doneSent') = 0 \/ Len(doneSent') = 1
      BY <3>2, <3>3, Zenon
    <3>. QED  BY <3>4, <3>5
  <2>5. (Booleans /\ Phases /\ Len(events) <= EventCap /\ Len(approval) <= 1 /\ Len(awaiting) <= 1
           /\ parentNode \in Node /\ node \in Node /\ Len(doneSent) <= 1 => TypeOK)'
    BY TypeParts, PTL
  <2>. QED  BY <2>1, <2>2, <2>3, <2>4, <2>5
<1>. QED  BY <1>1, <1>2, <1>3, <1>4, <1>5 DEF UIIndInv

LEMMA StutterKeepsUI == ASSUME UIIndInv, UNCHANGED vars  PROVE UIIndInv'
<1>1. /\ UNCHANGED <<turn, agent, asks, approval, doneCh, cancelled, sub, parentNode, doneSent, events>>
      /\ UNCHANGED <<running, draining, awaiting, cancelSent, hint, escHint, node, text, active, quit,
                     cleared>>
  BY DEF vars, agentVars, uiVars
<1>2. TypeOK'
  BY <1>1 DEF UIIndInv, TypeOK
<1>3. NodesOfTurn'
  BY <1>1, NodesStay DEF UIIndInv
<1>4. EndIsLast'
  BY <1>1 DEF UIIndInv, EndIsLast
<1>5. OneRequest'
  BY <1>1, RequestStays DEF UIIndInv
<1>6. ReportedNodeAdopted'
  BY <1>1 DEF UIIndInv, ReportedNodeAdopted
<1>. QED  BY <1>2, <1>3, <1>4, <1>5, <1>6 DEF UIIndInv

LEMMA UIStep == UIIndInv /\ [Next]_vars => UIIndInv'
BY NextKeepsUI, StutterKeepsUI

LEMMA UIInit == Init => UIIndInv
<1>. SUFFICES ASSUME Init  PROVE UIIndInv
  OBVIOUS
<1>1. /\ turn = 0 /\ agent = "none" /\ asks = 0 /\ events = <<>> /\ approval = <<>>
      /\ doneCh = FALSE /\ cancelled = FALSE /\ sub = "none"
      /\ parentNode = <<>> /\ node = <<>> /\ doneSent = <<>>
  BY DEF Init
<1>2. /\ running = FALSE /\ draining = 0 /\ awaiting = <<>> /\ cancelSent = FALSE /\ hint = FALSE
      /\ escHint = FALSE /\ text = FALSE /\ active = FALSE /\ quit = FALSE /\ cleared = FALSE
  BY DEF Init
<1>3. Booleans
  BY <1>1, <1>2 DEF Booleans
<1>4. Phases
  BY <1>1, <1>2, UIAssumption DEF Phases, Stands
<1>5. TypeOK
  <2>1. /\ Len(events) = 0 /\ Len(approval) = 0 /\ Len(awaiting) = 0 /\ Len(doneSent) = 0
        /\ <<>> \in Node /\ EventCap \in Nat
    BY <1>1, <1>2, UIAssumption DEF Node
  <2>. QED  BY <1>1, <1>3, <1>4, <2>1, TypeParts
<1>6. NodesOfTurn
  BY <1>1 DEF NodesOfTurn
<1>7. EndIsLast
  BY <1>1, <1>2 DEF EndIsLast
<1>8. OneRequest
  BY <1>1, <1>2 DEF OneRequest, Asked
<1>9. ReportedNodeAdopted
  BY <1>1 DEF ReportedNodeAdopted
<1>. QED  BY <1>5, <1>6, <1>7, <1>8, <1>9 DEF UIIndInv

LEMMA UIKept == Spec => []UIIndInv
BY UIInit, UIStep, PTL DEF Spec

-----------------------------------------------------------------------------
(* What it shows *)

\* Every state of the application's event loop and of the agent it watches (main.go Run)
\* has its type: no channel holds more than its capacity, no drain handles more than its
\* share, and every node is a sequence of the turns there are.
THEOREM UITypeCorrect == Spec => []TypeOK
<1>1. UIIndInv => TypeOK
  BY DEF UIIndInv
<1>. QED  BY <1>1, UIKept, PTL

\* applyApprovalDecision answers what is on display: the agent that waits on its approval
\* channel gets the answer that was given for this very request, whatever was cancelled,
\* cleared or started before.
THEOREM AnswersFit == Spec => []AnswerFitsRequest
<1>1. UIIndInv => AnswerFitsRequest
  <2>. SUFFICES ASSUME UIIndInv, approval # <<>>  PROVE Head(approval) = Request
    BY DEF AnswerFitsRequest
  <2>1. approval = <<Request>>
    BY DEF UIIndInv, OneRequest
  <2>. QED  BY <2>1
<1>. QED  BY <1>1, UIKept, PTL

\* The three ways in which drainAgentEvents learns of a turn's end agree: whichever is
\* first, a turn that was not cleared ends on the node of the EventDone that was sent.
THEOREM DoneIsAdopted == Spec => []ReportedNodeAdopted
<1>1. UIIndInv => ReportedNodeAdopted
  BY DEF UIIndInv
<1>. QED  BY <1>1, UIKept, PTL

LEMMA OnlyGrows ==
  ASSUME UIIndInv, Next, node' # node  PROVE Clear \/ IsStrictPrefix(node, node')
<1>0. /\ TypeOK /\ NodesOfTurn /\ EndIsLast /\ events \in Seq(EventType) /\ running \in BOOLEAN
  BY TypeParts DEF UIIndInv, NodesOfTurn, Booleans
<1>1. CASE Takes
  <2>1. /\ events # <<>> /\ events' = Tail(events)
        /\ \/ node' = node
           \/ Head(events).tag = "compacted" /\ node' = Head(events).node
           \/ Head(events).tag = "done" /\ Head(events).node # <<>> /\ node' = Head(events).node
    BY <1>0, <1>1, TakesWhat
  <2>2. Head(events) = events[1] /\ 1 \in DOMAIN events
    BY <1>0, <2>1, TakesFirst
  <2>3. node' = NewNode
    BY <1>0, <2>1, <2>2 DEF NodesOfTurn
  <2>4. agent # "none"
    BY <1>0, <2>1 DEF EndIsLast
  <2>5. IsStrictPrefix(parentNode, NewNode) /\ IsStrictPrefix(<<>>, NewNode)
    BY <1>0, <2>4, NodesGrow DEF NodesOfTurn
  <2>6. node \in {<<>>, parentNode}
    BY <1>0, <2>3 DEF NodesOfTurn
  <2>. QED  BY <2>3, <2>5, <2>6
<1>2. CASE Aside \/ Moves \/ DrainClosed \/ Answers \/ Submit
  BY <1>2 DEF Aside, StartDrain, SelectClosed, CtrlCAtWork, CtrlCWhenIdle, CtrlD, HintExpires,
              Moves, AgentGetsAnswer, AgentFinishes, AgentSignals, AgentCloses, DrainClosed, Submit,
              Answers, AnswerApproval, Escape, KeyFrame, uiVars
<1>3. CASE DrainEmpty
  BY <1>3 DEF DrainEmpty, Finalize
<1>4. CASE Offers
  BY <1>0, <1>4, OffersWhat DEF uiVars
<1>. QED  BY <1>1, <1>2, <1>3, <1>4, NextKinds

\* agentNodeID moves only to a node that continues the conversation it stands on: no
\* late, lost or repeated end of a turn drops an earlier turn; only /clear does.
THEOREM NoTurnLost == Spec => ConversationKept
<1>1. UIIndInv /\ [Next]_vars => [node' # node => Clear \/ IsStrictPrefix(node, node')]_vars
  BY OnlyGrows
<1>. QED  BY <1>1, UIKept, PTL DEF Spec, ConversationKept
=============================================================================
