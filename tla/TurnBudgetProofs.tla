--------------------------- MODULE TurnBudgetProofs ---------------------------
(***************************************************************************)
(* Proofs about TurnBudget, for every budget, buffer, number of calls in a *)
(* reply and capacity of the channel: turns that are counted from events   *)
(* which may be dropped are never more than the rounds that were started,  *)
(* and what follows the drain knows the run's end.                         *)
(***************************************************************************)
EXTENDS TurnBudget, TLAPS

Over == {"signal", "closing", "closed"}
EventType == [tag : {"text", "call"}] \cup [tag : {"usage", "done"}, node : Nat]

\* How the replies, the iterations and the rounds of the run go together.
RunCounts ==
  /\ node \in {0, replies}
  /\ pc \in {"llm", "calls"} => replies = rounds
  /\ pc \in {"usage", "head", "final"} => replies = rounds + 1
  /\ pc \notin {"done"} \cup Over => node = replies
  /\ replies <= rounds + 2
  /\ pc \in {"llm", "usage"} => iteration = IF rounds = 0 THEN 0 ELSE rounds - 1
  /\ pc = "head" => iteration = rounds
  /\ pc = "calls" => rounds # 0 /\ left # 0 /\ iteration = rounds - 1

\* A reply's usage names it; the end of the run is its last event.
ChannelInOrder ==
  /\ events \in Seq(EventType)
  /\ \A i \in DOMAIN events :
       /\ events[i].tag = "usage" => events[i].node \in 1..replies
       /\ events[i].tag = "done" =>
            i = Len(events) /\ pc \in Over /\ events[i].node \in {0, replies}
  /\ doneCh => pc \in {"closing", "closed"}
  /\ stage = "fallback" => doneCh
  /\ ~Draining => events = <<>> /\ pc \in Over
  /\ Draining /\ ~lossy /\ pc \in Over => \E i \in DOMAIN events : events[i].tag = "done"

\* A synthesis is asked for as soon as the budget is exceeded, before the error is.
SynthInTime == (turns > MaxTurns => synth) /\ (exceeded => synth)

\* The turns as labels of the calls in the channel: 0 stands for the last call that
\* was counted, and not counted for a usage that follows it.
Calls == {i \in 0..Len(events) : i = 0 \/ events[i].tag = "call"}
Usages == {i \in DOMAIN events : events[i].tag = "usage"}
Parted(usages, last, i, j) == (i = 0 /\ ~last) \/ (\E k \in usages : i < k /\ k < j)
Parts(i, j) == Parted(Usages, counted, i, j)
End == Len(events) + 1

\* No call is counted for a round that was not started, and calls that a usage parts
\* belong to different rounds.
Fits(turn) ==
  /\ turn[0] = turns
  /\ \A i, j \in Calls : i < j => turn[i] <= turn[j] /\ (Parts(i, j) => turn[i] < turn[j])
  /\ pc = "calls" => \A i \in Calls : Parts(i, End) => turn[i] < rounds

\* While no event is lost, calls of different rounds are parted by a usage and every
\* round started so far has a call.
Exact(turn) ==
  /\ \A i, j \in Calls : i < j /\ turn[i] < turn[j] => Parts(i, j)
  /\ \A n \in 0..rounds : turns <= n /\ (pc = "calls" => n < rounds) => \E i \in Calls : turn[i] = n
  /\ pc = "calls" => \A i \in Calls : turn[i] < rounds => Parts(i, End)
  /\ pc = "head" => \A i \in Calls : Parts(i, End)

TurnsFit ==
  \E turn \in [0..Len(events) -> 0..rounds] : Fits(turn) /\ (~lossy => Exact(turn))

\* The last reply the drain will know of once it has read what is in the channel.
TellsNode(e) == e.tag = "usage" \/ (e.tag = "done" /\ e.node # 0)
WillKnow(n) ==
  /\ \A i \in DOMAIN events :
       TellsNode(events[i]) /\ (\A j \in DOMAIN events : i < j => ~TellsNode(events[j])) =>
         events[i].node = n
  /\ (\A i \in DOMAIN events : ~TellsNode(events[i])) => lastNode = n

RepliesTold ==
  ~lossy =>
    /\ pc = "usage" => WillKnow(replies - 1)
    /\ pc = "done" => WillKnow(replies) \/ node # 0
    /\ pc \notin {"usage", "done"} => WillKnow(replies)

\* The inductive invariant.
BudgetIndInv ==
  /\ TypeOK /\ RunCounts /\ ChannelInOrder /\ SynthInTime /\ TurnsFit /\ RepliesTold

-----------------------------------------------------------------------------
(* The channel *)

LEMMA OfferOrDrop ==
  ASSUME events \in Seq(EventType), lossy \in BOOLEAN, NEW e \in EventType, Offer(e)
  PROVE  /\ lossy' \in BOOLEAN /\ (lossy => lossy')
         /\ \/ HasRoom /\ events' = Append(events, e) /\ lossy' = lossy
            \/ ~HasRoom /\ events' = events /\ lossy'
<1>1. CASE HasRoom
  <2>1. events' = Append(events, e)
    BY <1>1 DEF Offer
  <2>2. lossy' = lossy
    BY <1>1 DEF Offer
  <2>. QED  BY <1>1, <2>1, <2>2
<1>2. CASE ~HasRoom
  <2>1. events' = events
    BY <1>2 DEF Offer
  <2>2. lossy' = TRUE
    BY <1>2 DEF Offer
  <2>. QED  BY <1>2, <2>1, <2>2
<1>. QED  BY <1>1, <1>2

LEMMA AppendsLast ==
  ASSUME events \in Seq(EventType), NEW e \in EventType, events' = Append(events, e)
  PROVE  /\ events' \in Seq(EventType) /\ Len(events) \in Nat /\ Len(events') = Len(events) + 1
         /\ DOMAIN events = 1..Len(events) /\ DOMAIN events' = 1..Len(events')
         /\ \A i \in DOMAIN events : events'[i] = events[i]
         /\ events'[Len(events) + 1] = e
<1>. HIDE DEF EventType
<1>. QED  OBVIOUS

LEMMA TakesFirst ==
  ASSUME events \in Seq(EventType), events # <<>>, events' = Tail(events)
  PROVE  /\ events' \in Seq(EventType) /\ Len(events) \in Nat \ {0} /\ Len(events') = Len(events) - 1
         /\ DOMAIN events = 1..Len(events) /\ DOMAIN events' = 1..Len(events')
         /\ \A i \in DOMAIN events' : events'[i] = events[i + 1]
         /\ Head(events) = events[1] /\ events[1] \in EventType
<1>. HIDE DEF EventType
<1>. QED  OBVIOUS

LEMMA EventKinds ==
  /\ Text \in EventType /\ Call \in EventType
  /\ \A n \in Nat : Usage(n) \in EventType /\ Done(n) \in EventType
  /\ Text.tag = "text" /\ Call.tag = "call"
  /\ \A n : Usage(n).tag = "usage" /\ Usage(n).node = n /\ Done(n).tag = "done" /\ Done(n).node = n
BY DEF Text, Call, Usage, Done, EventType

-----------------------------------------------------------------------------
(* Three kinds of steps *)

\* Steps that leave the channel alone.
SilentRun ==
  \/ (\E k \in 0..MaxCalls : ModelReplies(k)) \/ ModelFails \/ EntersRound \/ LoopEnds \/ Exhausted
  \/ (\E ok \in BOOLEAN : FinalCall(ok)) \/ CloseDoneCh \/ CloseEvents
SilentDrain ==
  \/ CallerCancels \/ SeeDoneCh \/ FallbackEmpty \/ SeeClosed
  \/ (\E ok \in BOOLEAN : Synthesize(ok)) \/ NoSynthesis \/ Returns
\* Steps of the run that send, steps of the drain that take.
Sends ==
  \/ Streams \/ (\E read \in BOOLEAN : EmitUsage(read)) \/ StartsCall \/ ToolPanics \/ EmitDone
Takes == OnText \/ OnUsage \/ OnCall \/ OnDone

LEMMA NextKinds == Next => SilentRun \/ SilentDrain \/ Sends \/ Takes
BY DEF Next, RunStep, DrainStep, SilentRun, SilentDrain, Sends, Takes

-----------------------------------------------------------------------------
(* The run's own counts *)

LEMMA RunFrame ==
  ASSUME TypeOK, RunCounts, UNCHANGED runVars
  PROVE  RunCounts' /\ pc' = pc /\ replies' = replies /\ rounds' = rounds
BY DEF RunCounts, runVars, Over

LEMMA RunKeepsCounts ==
  ASSUME TypeOK, RunCounts, SilentRun \/ Sends
  PROVE  /\ RunCounts' /\ UNCHANGED drainVars
         /\ pc' \in {"llm", "usage", "head", "calls", "final", "done", "signal", "closing", "closed"}
         /\ replies' \in 0..(MaxIter + 2) /\ node' \in 0..replies' /\ replies <= replies'
         /\ left' \in 0..MaxCalls /\ iteration' \in 0..MaxIter /\ rounds' \in 0..MaxIter
         /\ cancelled' = cancelled /\ doneCh' \in BOOLEAN
<1>0. /\ TypeOK /\ RunCounts /\ MaxIter \in Nat /\ MaxCalls \in Nat
      /\ doneCh \in BOOLEAN
  BY BudgetAssumption DEF TypeOK, MaxIter
<1>1. ASSUME NEW k \in 0..MaxCalls, ModelReplies(k)
      PROVE  /\ RunCounts' /\ pc' = "usage" /\ replies' \in 0..(MaxIter + 2) /\ node' \in 0..replies'
             /\ replies <= replies' /\ left' \in 0..MaxCalls
             /\ UNCHANGED <<iteration, rounds, doneCh, cancelled, drainVars>>
  BY <1>0, <1>1 DEF TypeOK, RunCounts, ModelReplies, Goto, Over
<1>2. ASSUME ModelFails \/ LoopEnds \/ Exhausted \/ CloseDoneCh \/ CloseEvents
      PROVE  /\ RunCounts' /\ node' \in 0..replies /\ doneCh' \in BOOLEAN
             /\ pc' \in {"done", "final", "closing", "closed"}
             /\ UNCHANGED <<replies, left, iteration, rounds, cancelled, drainVars>>
  <2>1. /\ UNCHANGED <<replies, left, iteration, rounds, cancelled, drainVars>>
        /\ \/ pc = "llm" /\ node' = 0 /\ pc' = "done"
           \/ pc = "head" /\ node' = node /\ pc' = "done"
           \/ pc = "head" /\ node' = node /\ pc' = "final"
           \/ pc \in Over /\ node' = node /\ pc' \in {"closing", "closed"}
    BY <1>2 DEF ModelFails, LoopEnds, Exhausted, CloseDoneCh, CloseEvents, Goto, Over
  <2>2. doneCh' = doneCh \/ doneCh' = TRUE
    BY <1>2 DEF ModelFails, LoopEnds, Exhausted, CloseDoneCh, CloseEvents
  <2>3. RunCounts' /\ node' \in 0..replies
    BY <1>0, <2>1 DEF TypeOK, RunCounts, Over
  <2>. QED  BY <1>0, <2>1, <2>2, <2>3
<1>3. ASSUME EntersRound
      PROVE  /\ RunCounts' /\ pc' = "calls" /\ rounds' \in 0..MaxIter
             /\ UNCHANGED <<node, replies, left, iteration, doneCh, cancelled, drainVars>>
  BY <1>0, <1>3 DEF TypeOK, RunCounts, EntersRound, Goto, Over
<1>4. ASSUME NEW ok \in BOOLEAN, FinalCall(ok)
      PROVE  /\ RunCounts' /\ pc' = "done" /\ replies' \in 0..(MaxIter + 2) /\ node' \in 0..replies'
             /\ replies <= replies'
             /\ UNCHANGED <<left, iteration, rounds, doneCh, cancelled, drainVars>>
  BY <1>0, <1>4 DEF TypeOK, RunCounts, FinalCall, Goto, Over
<1>5. ASSUME Streams
      PROVE  RunCounts' /\ UNCHANGED <<pc, node, replies, left, iteration, rounds, doneCh, cancelled, drainVars>>
  BY <1>0, <1>5, RunFrame DEF Streams, runVars
<1>6. ASSUME NEW read \in BOOLEAN, EmitUsage(read)
      PROVE  /\ RunCounts' /\ pc' = "head" /\ iteration' \in 0..MaxIter
             /\ UNCHANGED <<node, replies, left, rounds, doneCh, cancelled, drainVars>>
  <2>1. /\ pc = "usage" /\ pc' = "head" /\ UNCHANGED <<node, replies, left, rounds, doneCh, cancelled, drainVars>>
        /\ iteration' = IF replies = 1 THEN 0 ELSE iteration + 1
    BY <1>6 DEF EmitUsage, Goto
  <2>2. iteration' = rounds
    BY <1>0, <2>1 DEF TypeOK, RunCounts
  <2>. QED  BY <1>0, <2>1, <2>2 DEF TypeOK, RunCounts, Over
<1>7. ASSUME StartsCall \/ ToolPanics
      PROVE  /\ RunCounts' /\ pc' \in {"llm", "calls", "done"} /\ node' \in 0..replies /\ left' \in 0..MaxCalls
             /\ UNCHANGED <<replies, iteration, rounds, doneCh, cancelled, drainVars>>
  BY <1>0, <1>7 DEF TypeOK, RunCounts, StartsCall, ToolPanics, Goto, Over
<1>8. ASSUME EmitDone
      PROVE  RunCounts' /\ pc' = "signal"
             /\ UNCHANGED <<node, replies, left, iteration, rounds, doneCh, cancelled, drainVars>>
  BY <1>0, <1>8 DEF TypeOK, RunCounts, EmitDone, Goto, Over
<1>. QED
  BY <1>0, <1>1, <1>2, <1>3, <1>4, <1>5, <1>6, <1>7, <1>8 DEF SilentRun, Sends, TypeOK
-----------------------------------------------------------------------------
(* What the drain keeps of it *)

Stages == {"drain", "fallback", "post", "report", "returned"}

LEMMA DrainKeepsCounts ==
  ASSUME TypeOK, RunCounts, events \in Seq(EventType),
         \A i \in DOMAIN events : TellsNode(events[i]) => events[i].node \in 1..replies,
         SilentDrain \/ Takes
  PROVE  /\ UNCHANGED <<runVars, lossy>> /\ stage' \in Stages /\ turns' \in Nat /\ lastNode' \in 0..replies
         /\ cancelled' \in BOOLEAN /\ counted' \in BOOLEAN /\ synth' \in BOOLEAN
         /\ exceeded' \in BOOLEAN /\ saved' \in BOOLEAN /\ used' \in BOOLEAN
<1>0. /\ TypeOK /\ stage \in Stages /\ turns \in Nat /\ lastNode \in 0..replies
      /\ cancelled \in BOOLEAN /\ counted \in BOOLEAN /\ synth \in BOOLEAN
      /\ exceeded \in BOOLEAN /\ saved \in BOOLEAN /\ used \in BOOLEAN
  BY DEF TypeOK, Stages
<1>1. UNCHANGED <<runVars, lossy>>
  BY DEF SilentDrain, CallerCancels, SeeDoneCh, FallbackEmpty, SeeClosed, Synthesize, NoSynthesis, Returns,
         Leaves, Takes, OnText, OnUsage, OnCall, OnDone, Take
<1>2. CASE SilentDrain
  <2>1. /\ UNCHANGED <<turns, counted, synth, exceeded, lastNode, saved>>
        /\ stage' = stage \/ stage' \in {"fallback", "post", "report", "returned"}
    BY <1>2 DEF SilentDrain, CallerCancels, SeeDoneCh, FallbackEmpty, SeeClosed, Synthesize, NoSynthesis,
                Returns, Leaves, drainVars
  <2>2. cancelled' = cancelled \/ cancelled' = TRUE
    BY <1>2 DEF SilentDrain, CallerCancels, SeeDoneCh, FallbackEmpty, SeeClosed, Synthesize, NoSynthesis,
                Returns, Leaves
  <2>3. used' \in BOOLEAN
    <3>1. ASSUME NEW ok \in BOOLEAN, Synthesize(ok)  PROVE used' \in BOOLEAN
      <4>1. used' = (ok /\ lastNode # 0)
        BY <3>1 DEF Synthesize
      <4>. QED  BY <4>1, Zenon
    <3>2. CASE used' = used
      BY <1>0, <3>2
    <3>. QED
      BY <1>2, <3>1, <3>2 DEF SilentDrain, CallerCancels, SeeDoneCh, FallbackEmpty, SeeClosed, NoSynthesis,
                              Returns, Leaves, drainVars
  <2>4. stage' \in Stages
    BY <1>0, <2>1 DEF Stages
  <2>. QED  BY <1>0, <1>1, <2>1, <2>2, <2>3, <2>4
<1>3. CASE Takes
  <2>0. /\ events # <<>> /\ Head(events) = events[1] /\ 1 \in DOMAIN events
    <3>1. events # <<>>
      BY <1>3 DEF Takes, OnText, OnUsage, OnCall, OnDone, Take
    <3>. QED  BY <3>1
  <2>1. stage' \in Stages /\ turns' \in Nat /\ used' = used
    BY <1>0, <1>3 DEF Takes, OnText, OnUsage, OnCall, OnDone, drainVars, Stages
  <2>2. lastNode' \in 0..replies
    BY <1>0, <1>3, <2>0 DEF Takes, OnText, OnUsage, OnCall, OnDone, Take, TellsNode, drainVars
  <2>3. counted' = counted \/ counted' = TRUE \/ counted' = FALSE
    BY <1>3 DEF Takes, OnText, OnUsage, OnCall, OnDone, drainVars
  <2>4. saved' \in BOOLEAN
    <3>1. CASE OnDone
      <4>1. saved' = (saved \/ Head(events).node # 0)
        BY <3>1 DEF OnDone
      <4>. QED  BY <4>1, Zenon
    <3>2. CASE ~OnDone
      BY <1>0, <1>3, <3>2 DEF Takes, OnText, OnUsage, OnCall, drainVars
    <3>. QED  BY <3>1, <3>2
  <2>5. cancelled' \in BOOLEAN /\ synth' \in BOOLEAN /\ exceeded' \in BOOLEAN
    <3>1. CASE OnCall
      <4>1. exceeded' = (exceeded \/ (turns' > MaxTurns + 1 /\ stage = "drain"))
        BY <3>1 DEF OnCall
      <4>2. synth' = (synth \/ (turns' > MaxTurns /\ ~(turns' > MaxTurns + 1 /\ stage = "drain")))
        BY <3>1 DEF OnCall
      <4>3. cancelled' = (cancelled \/ (turns' > MaxTurns + 1 /\ stage = "drain")
                                    \/ (stage = "drain" /\ turns' > MaxTurns /\ ~synth))
        BY <3>1 DEF OnCall
      <4>a. exceeded' \in BOOLEAN
        BY <4>1, Zenon
      <4>b. synth' \in BOOLEAN
        BY <4>2, Zenon
      <4>c. cancelled' \in BOOLEAN
        BY <4>3, Zenon
      <4>. QED  BY <4>a, <4>b, <4>c
    <3>2. CASE ~OnCall
      BY <1>0, <1>3, <3>2 DEF Takes, OnText, OnUsage, OnDone, drainVars
    <3>. QED  BY <3>1, <3>2
  <2>. QED  BY <1>0, <1>1, <2>1, <2>2, <2>3, <2>4, <2>5
<1>. QED  BY <1>2, <1>3

LEMMA SynthKept ==
  ASSUME TypeOK, SynthInTime, SilentDrain \/ Takes  PROVE SynthInTime'
<1>0. TypeOK /\ SynthInTime /\ turns \in Nat /\ MaxTurns \in Nat
  BY BudgetAssumption DEF TypeOK
<1>1. CASE OnCall
  <2>. DEFINE twice == turns' > MaxTurns + 1 /\ stage = "drain"
  <2>1. /\ turns' = turns \/ turns' = turns + 1
        /\ synth' <=> synth \/ (turns' > MaxTurns /\ ~twice)
        /\ exceeded' <=> exceeded \/ twice
    BY <1>1 DEF OnCall
  <2>2. twice => turns > MaxTurns
    BY <1>0, <2>1
  <2>. QED  BY <1>0, <2>1, <2>2 DEF SynthInTime
<1>2. CASE ~OnCall
  <2>1. UNCHANGED <<turns, synth, exceeded>>
    BY <1>2 DEF SilentDrain, CallerCancels, SeeDoneCh, FallbackEmpty, SeeClosed, Synthesize, NoSynthesis,
                Returns, Leaves, Takes, OnText, OnUsage, OnDone, drainVars
  <2>. QED  BY <1>0, <2>1 DEF SynthInTime
<1>. QED  BY <1>1, <1>2

-----------------------------------------------------------------------------
(* The channel's order *)

LEMMA SilentKeepsOrder ==
  ASSUME TypeOK, RunCounts, ChannelInOrder, SilentRun \/ SilentDrain
  PROVE  ChannelInOrder'
<1>0. TypeOK /\ RunCounts /\ ChannelInOrder
  OBVIOUS
<1>1. UNCHANGED <<events, lossy>>
  BY DEF SilentRun, ModelReplies, ModelFails, EntersRound, LoopEnds, Exhausted, FinalCall, CloseDoneCh,
         CloseEvents, SilentDrain, CallerCancels, SeeDoneCh, FallbackEmpty, SeeClosed, Synthesize, NoSynthesis,
         Returns, Leaves
<1>2. CASE SilentRun
  <2>1. /\ UNCHANGED drainVars
        /\ pc \in Over => replies' = replies /\ node' = node /\ pc' \in Over
        /\ replies \in Nat /\ replies' \in Nat /\ replies <= replies'
    BY <1>0, <1>2, RunKeepsCounts DEF SilentRun, ModelReplies, ModelFails, EntersRound, LoopEnds, Exhausted,
       FinalCall, CloseDoneCh, CloseEvents, Goto, Over, TypeOK
  <2>2. pc' \in Over => pc \in Over
    BY <1>2 DEF SilentRun, ModelReplies, ModelFails, EntersRound, LoopEnds, Exhausted, FinalCall, CloseDoneCh,
                CloseEvents, Goto, Over
  <2>3. doneCh' => pc' \in {"closing", "closed"}
    BY <1>0, <1>2 DEF SilentRun, ModelReplies, ModelFails, EntersRound, LoopEnds, Exhausted, FinalCall,
                      CloseDoneCh, CloseEvents, Goto, ChannelInOrder
  <2>4. doneCh => doneCh'
    BY <1>2 DEF SilentRun, ModelReplies, ModelFails, EntersRound, LoopEnds, Exhausted, FinalCall, CloseDoneCh,
                CloseEvents
  <2>5. \A i \in DOMAIN events : events[i].tag = "usage" => events[i].node \in 1..replies'
    BY <1>0, <2>1 DEF ChannelInOrder
  <2>6. (Draining' <=> Draining) /\ stage' = stage /\ (pc' \in Over <=> pc \in Over)
    BY <2>1, <2>2 DEF Draining, drainVars
  <2>7. \A i \in DOMAIN events :
          events[i].tag = "done" => i = Len(events) /\ pc' \in Over /\ events[i].node \in {0, replies'}
    BY <1>0, <2>1 DEF ChannelInOrder
  <2>8. /\ events' \in Seq(EventType) /\ (stage' = "fallback" => doneCh')
        /\ ~Draining' => events' = <<>> /\ pc' \in Over
    BY <1>0, <1>1, <2>4, <2>6 DEF ChannelInOrder
  <2>9. Draining' /\ ~lossy' /\ pc' \in Over => \E i \in DOMAIN events' : events'[i].tag = "done"
    BY <1>0, <1>1, <2>6 DEF ChannelInOrder
  <2>. QED
    BY <1>1, <2>3, <2>5, <2>7, <2>8, <2>9 DEF ChannelInOrder
<1>3. CASE SilentDrain
  <2>1. UNCHANGED <<pc, replies, node, doneCh>>
    BY <1>0, <1>3 DEF SilentDrain, CallerCancels, SeeDoneCh, FallbackEmpty, SeeClosed, Synthesize, NoSynthesis,
                      Returns, Leaves, runVars
  <2>2. /\ Draining' => Draining /\ (stage' = "fallback" => doneCh)
        /\ ~Draining' => events = <<>> /\ pc \in Over
    <3>1. CASE CallerCancels
      BY <1>0, <3>1 DEF CallerCancels, drainVars, Draining, ChannelInOrder
    <3>2. CASE SeeDoneCh
      BY <1>0, <3>2 DEF SeeDoneCh, Leaves, Draining
    <3>3. CASE FallbackEmpty \/ SeeClosed
      BY <1>0, <3>3 DEF FallbackEmpty, SeeClosed, Leaves, Draining, ChannelInOrder, Over
    <3>4. CASE (\E ok \in BOOLEAN : Synthesize(ok)) \/ NoSynthesis \/ Returns
      BY <1>0, <3>4 DEF Synthesize, NoSynthesis, Returns, Leaves, Draining, ChannelInOrder
    <3>. QED  BY <1>3, <3>1, <3>2, <3>3, <3>4 DEF SilentDrain
  <2>. QED  BY <1>0, <1>1, <2>1, <2>2 DEF ChannelInOrder, Draining
<1>. QED  BY <1>2, <1>3
\* What is sent, and from where to where.
LEMMA SendsKinds ==
  ASSUME TypeOK, RunCounts, ChannelInOrder, Sends
  PROVE  /\ UNCHANGED <<replies, drainVars, doneCh>> /\ replies \in Nat
         /\ \/ /\ lossy' = TRUE /\ events' = events
               /\ \/ pc = "usage" /\ pc' = "head" /\ node' = node
                  \/ pc = "done" /\ pc' = "signal" /\ node' = node
                  \/ pc = "calls" /\ pc' \in {"llm", "calls", "done"}
            \/ /\ lossy' = lossy
               /\ \/ /\ pc = "usage" /\ pc' = "head" /\ node' = node /\ node = replies /\ replies # 0
                     /\ events' = Append(events, Usage(node))
                  \/ /\ pc = "done" /\ pc' = "signal" /\ node' = node
                     /\ events' = Append(events, Done(node))
                  \/ /\ pc = "calls" /\ pc' \in {"llm", "calls", "done"} /\ node' \in {0, node}
                     /\ events' = Append(events, Call)
                  \/ /\ pc \in {"llm", "calls", "final"} /\ pc' = pc /\ node' = node
                     /\ events' = Append(events, Text)
<1>0. /\ RunCounts /\ events \in Seq(EventType) /\ lossy \in BOOLEAN /\ replies \in Nat /\ rounds \in Nat
      /\ node \in Nat /\ MaxIter \in Nat
  BY BudgetAssumption DEF TypeOK, ChannelInOrder, MaxIter
<1>1. UNCHANGED <<replies, drainVars, doneCh>>
  BY DEF Sends, Streams, EmitUsage, StartsCall, ToolPanics, EmitDone, runVars
<1>2. CASE Streams
  BY <1>0, <1>1, <1>2, OfferOrDrop, EventKinds DEF Streams, runVars
<1>3. ASSUME NEW read \in BOOLEAN, EmitUsage(read)
      PROVE  /\ pc = "usage" /\ pc' = "head" /\ node' = node /\ node = replies /\ replies # 0
             /\ \/ lossy' = TRUE /\ events' = events
                \/ lossy' = lossy /\ events' = Append(events, Usage(node))
  <2>1. pc = "usage" /\ pc' = "head" /\ node' = node /\ node = replies /\ replies # 0
    BY <1>0, <1>3 DEF EmitUsage, Goto, RunCounts, Over
  <2>2. CASE read
    <3>1. Offer(Usage(node))
      BY <1>3, <2>2 DEF EmitUsage
    <3>2. Usage(node) \in EventType
      BY <1>0, EventKinds
    <3>. QED  BY <1>0, <2>1, <3>1, <3>2, OfferOrDrop
  <2>3. CASE ~read
    BY <1>3, <2>1, <2>3 DEF EmitUsage
  <2>. QED  BY <2>1, <2>2, <2>3
<1>4. CASE StartsCall \/ ToolPanics
  <2>1. /\ pc = "calls" /\ pc' \in {"llm", "calls", "done"} /\ node' \in {0, node} /\ Offer(Call)
    BY <1>4 DEF StartsCall, ToolPanics, Goto
  <2>. QED  BY <1>0, <1>1, <2>1, OfferOrDrop, EventKinds
<1>5. CASE EmitDone
  <2>1. /\ pc = "done" /\ pc' = "signal" /\ node' = node /\ Offer(Done(node))
    BY <1>5 DEF EmitDone, Goto
  <2>. QED  BY <1>0, <1>1, <2>1, OfferOrDrop, EventKinds
<1>. QED  BY <1>0, <1>1, <1>2, <1>3, <1>4, <1>5 DEF Sends

LEMMA SendsKeepsOrder ==
  ASSUME TypeOK, RunCounts, ChannelInOrder, Sends  PROVE ChannelInOrder'
<1>0. /\ RunCounts /\ ChannelInOrder /\ events \in Seq(EventType) /\ replies \in Nat /\ node \in {0, replies}
      /\ UNCHANGED <<replies, drainVars, doneCh>>
  BY SendsKinds DEF RunCounts, ChannelInOrder
<1>1. pc \notin Over /\ (pc' \in Over => pc = "done" /\ pc' = "signal") /\ ~doneCh
  BY <1>0, SendsKinds DEF Over, ChannelInOrder
<1>2. Draining /\ Draining' /\ ~doneCh' /\ stage' # "fallback"
  BY <1>0, <1>1 DEF ChannelInOrder, Draining, drainVars
<1>3. \A i \in DOMAIN events : events[i].tag # "done"
  BY <1>0, <1>1 DEF ChannelInOrder
<1>4. CASE lossy' = TRUE /\ events' = events
  BY <1>0, <1>1, <1>2, <1>3, <1>4 DEF ChannelInOrder
<1>5. CASE lossy' = lossy /\ \E e \in EventType : events' = Append(events, e)
                         /\ (e.tag = "usage" => e.node \in 1..replies)
                         /\ (e.tag = "done" <=> pc' = "signal") /\ (e.tag = "done" => e.node = node')
                         /\ (pc' = "signal" => node' = node)
  <2>1. PICK e \in EventType : /\ events' = Append(events, e)
                               /\ e.tag = "usage" => e.node \in 1..replies
                               /\ e.tag = "done" <=> pc' = "signal"
                               /\ e.tag = "done" => e.node = node'
                               /\ pc' = "signal" => node' = node
    BY <1>5
  <2>2. /\ events' \in Seq(EventType) /\ Len(events) \in Nat /\ Len(events') = Len(events) + 1
        /\ DOMAIN events = 1..Len(events) /\ DOMAIN events' = 1..Len(events')
        /\ \A i \in DOMAIN events : events'[i] = events[i]
        /\ events'[Len(events) + 1] = e
    BY <1>0, <2>1, AppendsLast
  <2>3. \A i \in DOMAIN events' : i \in DOMAIN events \/ i = Len(events')
    BY <2>2
  <2>4. ASSUME NEW i \in DOMAIN events'
        PROVE  /\ events'[i].tag = "usage" => events'[i].node \in 1..replies'
               /\ events'[i].tag = "done" =>
                    i = Len(events') /\ pc' \in Over /\ events'[i].node \in {0, replies'}
    BY <1>0, <1>3, <2>1, <2>2, <2>3 DEF ChannelInOrder, Over
  <2>5. pc' \in Over => events'[Len(events')].tag = "done" /\ Len(events') \in DOMAIN events'
    BY <1>1, <2>1, <2>2
  <2>. QED  BY <1>2, <2>2, <2>4, <2>5 DEF ChannelInOrder
<1>. QED
  <2>1. \/ lossy' = TRUE /\ events' = events
        \/ /\ lossy' = lossy
           /\ \/ pc' = "head" /\ node = replies /\ replies # 0 /\ events' = Append(events, Usage(node))
              \/ pc' = "signal" /\ node' = node /\ events' = Append(events, Done(node))
              \/ pc' # "signal" /\ events' = Append(events, Call)
              \/ pc' # "signal" /\ events' = Append(events, Text)
    BY SendsKinds
  <2>2. replies # 0 => replies \in 1..replies
    BY <1>0
  <2>3. CASE /\ lossy' = lossy /\ pc' = "head" /\ node = replies /\ replies # 0
             /\ events' = Append(events, Usage(node))
    BY <1>0, <1>5, <2>2, <2>3, EventKinds
  <2>4. CASE lossy' = lossy /\ pc' = "signal" /\ node' = node /\ events' = Append(events, Done(node))
    <3>1. Done(node) \in EventType /\ Done(node).tag = "done" /\ Done(node).node = node
      BY <1>0, EventKinds
    <3>. QED  BY <1>5, <2>4, <3>1
  <2>5. CASE lossy' = lossy /\ pc' # "signal" /\ events' \in {Append(events, Call), Append(events, Text)}
    BY <1>5, <2>5, EventKinds
  <2>. QED  BY <1>4, <2>1, <2>3, <2>4, <2>5

LEMMA TakesKeepsOrder ==
  ASSUME TypeOK, RunCounts, ChannelInOrder, Takes  PROVE ChannelInOrder'
<1>0. ChannelInOrder /\ events \in Seq(EventType) /\ Draining
  BY DEF ChannelInOrder, Takes, OnText, OnUsage, OnCall, OnDone, Take
<1>1. /\ events # <<>> /\ events' = Tail(events) /\ UNCHANGED <<runVars, lossy>>
      /\ stage' = stage \/ (stage' = "post" /\ Head(events).tag = "done")
      /\ Head(events).tag = "done" => stage' = "post"
  BY DEF Takes, OnText, OnUsage, OnCall, OnDone, Take, drainVars
<1>2. /\ events' \in Seq(EventType) /\ Len(events) \in Nat \ {0} /\ Len(events') = Len(events) - 1
      /\ DOMAIN events = 1..Len(events) /\ DOMAIN events' = 1..Len(events')
      /\ \A i \in DOMAIN events' : events'[i] = events[i + 1]
      /\ Head(events) = events[1]
  BY <1>0, <1>1, TakesFirst
<1>3. UNCHANGED <<pc, node, replies, doneCh>>
  BY <1>1 DEF runVars
<1>4. \A i \in DOMAIN events' : i + 1 \in DOMAIN events
  BY <1>2
<1>5. ASSUME NEW i \in DOMAIN events'
      PROVE  /\ events'[i].tag = "usage" => events'[i].node \in 1..replies'
             /\ events'[i].tag = "done" =>
                  i = Len(events') /\ pc' \in Over /\ events'[i].node \in {0, replies'}
  <2>1. events'[i] = events[i + 1] /\ i + 1 \in DOMAIN events /\ i \in Nat
    BY <1>2, <1>4
  <2>2. i + 1 = Len(events) => i = Len(events')
    BY <1>2, <2>1
  <2>. QED  BY <1>0, <1>3, <2>1, <2>2 DEF ChannelInOrder
<1>6. CASE Head(events).tag = "done"
  <2>1. Len(events) = 1 /\ pc \in Over
    BY <1>0, <1>2, <1>6 DEF ChannelInOrder
  <2>2. events' = <<>>
    BY <1>2, <2>1
  <2>3. stage' = "post" /\ ~Draining'
    BY <1>1, <1>6 DEF Draining
  <2>. QED  BY <1>0, <1>2, <1>3, <1>5, <2>1, <2>2, <2>3 DEF ChannelInOrder
<1>7. CASE Head(events).tag # "done"
  <2>1. stage' = stage /\ lossy' = lossy
    BY <1>1, <1>7
  <2>2. ASSUME NEW i \in DOMAIN events, events[i].tag = "done"
        PROVE  \E j \in DOMAIN events' : events'[j].tag = "done"
    <3>1. i - 1 \in DOMAIN events' /\ events'[i - 1] = events[i]
      BY <1>2, <1>7, <2>2
    <3>. QED  BY <2>2, <3>1
  <2>. QED  BY <1>0, <1>2, <1>3, <1>5, <2>1, <2>2 DEF ChannelInOrder, Draining
<1>. QED  BY <1>6, <1>7
-----------------------------------------------------------------------------
(* What the drain will know *)

LEMMA SilentKeepsTold ==
  ASSUME TypeOK, RunCounts, ChannelInOrder, RepliesTold, SilentRun \/ SilentDrain
  PROVE  RepliesTold'
<1>0. /\ TypeOK /\ RunCounts /\ RepliesTold /\ replies \in Nat
  BY DEF TypeOK
<1>1. UNCHANGED <<events, lossy, lastNode>>
  BY DEF SilentRun, ModelReplies, ModelFails, EntersRound, LoopEnds, Exhausted, FinalCall, CloseDoneCh,
         CloseEvents, SilentDrain, CallerCancels, SeeDoneCh, FallbackEmpty, SeeClosed, Synthesize, NoSynthesis,
         Returns, Leaves, drainVars
<1>2. \A n : WillKnow(n)' <=> WillKnow(n)
  BY <1>1 DEF WillKnow
<1>3. CASE SilentDrain
  <2>1. UNCHANGED <<pc, replies, node>>
    BY <1>3 DEF SilentDrain, CallerCancels, SeeDoneCh, FallbackEmpty, SeeClosed, Synthesize, NoSynthesis,
                Returns, Leaves, runVars
  <2>. QED  BY <1>0, <1>1, <1>2, <2>1 DEF RepliesTold
<1>4. ASSUME NEW k \in 0..MaxCalls, ModelReplies(k)  PROVE RepliesTold'
  <2>1. pc = "llm" /\ pc' = "usage" /\ replies' - 1 = replies
    BY <1>0, <1>4 DEF ModelReplies, Goto
  <2>. QED  BY <1>0, <1>1, <1>2, <2>1 DEF RepliesTold
<1>5. ASSUME NEW ok \in BOOLEAN, FinalCall(ok)  PROVE RepliesTold'
  <2>1. pc = "final" /\ pc' = "done" /\ (node' # 0)
    BY <1>0, <1>5 DEF FinalCall, Goto, RunCounts, TypeOK, Over
  <2>. QED  BY <2>1 DEF RepliesTold
<1>6. CASE ModelFails \/ EntersRound \/ LoopEnds \/ Exhausted \/ CloseDoneCh \/ CloseEvents
  <2>1. /\ pc \notin {"usage", "done"} /\ pc' # "usage" /\ replies' = replies
    BY <1>6 DEF ModelFails, EntersRound, LoopEnds, Exhausted, CloseDoneCh, CloseEvents, Goto
  <2>. QED  BY <1>0, <1>1, <1>2, <2>1 DEF RepliesTold
<1>. QED  BY <1>3, <1>4, <1>5, <1>6 DEF SilentRun

\* An event that names a reply is the one the drain will know last; any other changes
\* nothing.
LEMMA AppendTells ==
  ASSUME events \in Seq(EventType), NEW e \in EventType, events' = Append(events, e),
         lastNode' = lastNode, NEW n
  PROVE  /\ TellsNode(e) => WillKnow(e.node)'
         /\ ~TellsNode(e) /\ WillKnow(n) => WillKnow(n)'
<1>1. /\ Len(events) \in Nat /\ Len(events') = Len(events) + 1
      /\ DOMAIN events = 1..Len(events) /\ DOMAIN events' = 1..Len(events')
      /\ \A i \in DOMAIN events : events'[i] = events[i]
      /\ events'[Len(events) + 1] = e
  BY AppendsLast
<1>2. /\ Len(events') \in DOMAIN events' /\ events'[Len(events')] = e
      /\ \A i \in DOMAIN events' : i = Len(events') \/ (i < Len(events') /\ i \in DOMAIN events)
      /\ \A i \in DOMAIN events : i \in DOMAIN events'
  BY <1>1
<1>3. ASSUME TellsNode(e)  PROVE WillKnow(e.node)'
  <2>1. ASSUME NEW i \in DOMAIN events', TellsNode(events'[i]),
               \A j \in DOMAIN events' : i < j => ~TellsNode(events'[j])
        PROVE  events'[i].node = e.node
    BY <1>2, <1>3, <2>1
  <2>. QED  BY <1>2, <1>3, <2>1 DEF WillKnow
<1>4. ASSUME ~TellsNode(e), WillKnow(n)  PROVE WillKnow(n)'
  <2>1. ASSUME NEW i \in DOMAIN events', TellsNode(events'[i]),
               \A j \in DOMAIN events' : i < j => ~TellsNode(events'[j])
        PROVE  events'[i].node = n
    <3>1. i \in DOMAIN events /\ events'[i] = events[i]
      BY <1>1, <1>2, <1>4, <2>1
    <3>2. \A j \in DOMAIN events : i < j => ~TellsNode(events[j])
      BY <1>1, <1>2, <2>1
    <3>. QED  BY <1>4, <2>1, <3>1, <3>2 DEF WillKnow
  <2>2. (\A i \in DOMAIN events' : ~TellsNode(events'[i])) => lastNode' = n
    <3>1. (\A i \in DOMAIN events' : ~TellsNode(events'[i])) => \A i \in DOMAIN events : ~TellsNode(events[i])
      BY <1>1, <1>2
    <3>. QED  BY <1>4, <3>1 DEF WillKnow
  <2>. QED  BY <2>1, <2>2 DEF WillKnow
<1>. QED  BY <1>3, <1>4

LEMMA SendsKeepsTold ==
  ASSUME TypeOK, RunCounts, ChannelInOrder, RepliesTold, Sends  PROVE RepliesTold'
<1>0. /\ RepliesTold /\ events \in Seq(EventType) /\ node \in {0, replies} /\ replies \in Nat /\ node \in Nat
      /\ UNCHANGED <<replies, lastNode>>
  <2>1. node \in Nat
    BY DEF TypeOK
  <2>2. UNCHANGED <<replies, lastNode>> /\ replies \in Nat
    BY SendsKinds DEF drainVars
  <2>. QED  BY <2>1, <2>2 DEF RunCounts, ChannelInOrder
<1>1. CASE lossy'
  BY <1>1 DEF RepliesTold
<1>2. CASE ~lossy'
  <2>1. /\ lossy' = lossy
        /\ \/ /\ pc = "usage" /\ pc' = "head" /\ node = replies
              /\ events' = Append(events, Usage(node))
           \/ /\ pc = "done" /\ pc' = "signal"
              /\ events' = Append(events, Done(node))
           \/ /\ pc = "calls" /\ pc' \in {"llm", "calls", "done"}
              /\ events' = Append(events, Call)
           \/ /\ pc \in {"llm", "calls", "final"} /\ pc' = pc
              /\ events' = Append(events, Text)
    BY <1>2, SendsKinds
  <2>2. CASE pc = "usage" /\ pc' = "head" /\ node = replies /\ events' = Append(events, Usage(node))
    <3>1. Usage(node) \in EventType /\ TellsNode(Usage(node)) /\ Usage(node).node = replies
      BY <1>0, <2>2, EventKinds DEF TellsNode
    <3>2. WillKnow(replies)'
      BY <1>0, <2>2, <3>1, AppendTells
    <3>. QED  BY <2>2, <3>2 DEF RepliesTold
  <2>3. CASE pc = "done" /\ pc' = "signal" /\ events' = Append(events, Done(node))
    <3>1. /\ Done(node) \in EventType /\ Done(node).node = node
          /\ TellsNode(Done(node)) <=> node # 0
      BY <1>0, EventKinds DEF TellsNode
    <3>2. WillKnow(replies) \/ node # 0
      BY <1>0, <1>2, <2>1, <2>3 DEF RepliesTold
    <3>3. WillKnow(replies)'
      BY <1>0, <2>3, <3>1, <3>2, AppendTells
    <3>. QED  BY <2>3, <3>3 DEF RepliesTold
  <2>4. CASE pc \in {"llm", "calls", "final"} /\ pc' # "usage" /\ events' \in {Append(events, Call), Append(events, Text)}
    <3>1. WillKnow(replies)
      BY <1>0, <1>2, <2>1, <2>4 DEF RepliesTold
    <3>2. WillKnow(replies)'
      BY <1>0, <2>4, <3>1, AppendTells, EventKinds DEF TellsNode
    <3>. QED  BY <2>4, <3>2 DEF RepliesTold
  <2>. QED  BY <2>1, <2>2, <2>3, <2>4
<1>. QED  BY <1>1, <1>2

LEMMA TakesKeepsTold ==
  ASSUME TypeOK, RunCounts, ChannelInOrder, RepliesTold, Takes  PROVE RepliesTold'
<1>0. RepliesTold /\ ChannelInOrder /\ events \in Seq(EventType) /\ replies \in Nat
  BY DEF ChannelInOrder, TypeOK
<1>1. /\ events # <<>> /\ events' = Tail(events) /\ UNCHANGED <<runVars, lossy>>
  BY DEF Takes, OnText, OnUsage, OnCall, OnDone, Take
<1>2. /\ Len(events) \in Nat \ {0} /\ Len(events') = Len(events) - 1
      /\ DOMAIN events = 1..Len(events) /\ DOMAIN events' = 1..Len(events')
      /\ \A i \in DOMAIN events' : events'[i] = events[i + 1]
      /\ Head(events) = events[1]
  BY <1>0, <1>1, TakesFirst
<1>3. lastNode' = IF TellsNode(events[1]) THEN events[1].node ELSE lastNode
  BY <1>2 DEF Takes, OnText, OnUsage, OnCall, OnDone, Take, TellsNode, drainVars
<1>4. /\ \A i \in DOMAIN events' : i + 1 \in DOMAIN events /\ i \in Nat
      /\ \A i \in DOMAIN events : i = 1 \/ (i - 1 \in DOMAIN events' /\ events'[i - 1] = events[i])
      /\ 1 \in DOMAIN events /\ \A i \in DOMAIN events : i \in Nat
  BY <1>2
<1>5. ASSUME NEW n, WillKnow(n)  PROVE WillKnow(n)'
  <2>1. ASSUME NEW i \in DOMAIN events', TellsNode(events'[i]),
               \A j \in DOMAIN events' : i < j => ~TellsNode(events'[j])
        PROVE  events'[i].node = n
    <3>1. \A j \in DOMAIN events : i + 1 < j => ~TellsNode(events[j])
      <4>1. ASSUME NEW j \in DOMAIN events, i + 1 < j  PROVE ~TellsNode(events[j])
        <5>1. j # 1 /\ j - 1 \in DOMAIN events' /\ i < j - 1 /\ events'[j - 1] = events[j]
          BY <1>4, <4>1
        <5>. QED  BY <2>1, <5>1
      <4>. QED  BY <4>1
    <3>2. i + 1 \in DOMAIN events /\ events'[i] = events[i + 1]
      BY <1>2, <1>4
    <3>. QED  BY <1>5, <2>1, <3>1, <3>2 DEF WillKnow
  <2>2. ASSUME \A i \in DOMAIN events' : ~TellsNode(events'[i])  PROVE lastNode' = n
    <3>1. \A i \in DOMAIN events : i # 1 => ~TellsNode(events[i])
      BY <1>4, <2>2
    <3>2. \A j \in DOMAIN events : 1 < j => ~TellsNode(events[j])
      BY <1>4, <3>1
    <3>3. CASE TellsNode(events[1])
      BY <1>3, <1>4, <1>5, <3>2, <3>3 DEF WillKnow
    <3>4. CASE ~TellsNode(events[1])
      BY <1>3, <1>5, <3>1, <3>4 DEF WillKnow
    <3>. QED  BY <3>3, <3>4
  <2>. QED  BY <2>1, <2>2 DEF WillKnow
<1>6. UNCHANGED <<pc, replies, node, lossy>>
  BY <1>1 DEF runVars
<1>. QED  BY <1>0, <1>5, <1>6 DEF RepliesTold
-----------------------------------------------------------------------------
(* The labels: steps that leave the channel and the count alone *)

LEMMA LabelsStay ==
  ASSUME TurnsFit, UNCHANGED <<events, turns, counted, rounds>>, lossy => lossy',
         pc' = "calls" => pc = "calls",
         lossy' \/ pc' = pc \/ (pc # "calls" /\ pc' \notin {"calls", "head"})
  PROVE  TurnsFit'
<1>1. PICK turn \in [0..Len(events) -> 0..rounds] : Fits(turn) /\ (~lossy => Exact(turn))
  BY DEF TurnsFit
<1>2. /\ Calls' = Calls /\ End' = End /\ \A i, j : Parts(i, j)' <=> Parts(i, j)
  BY DEF Calls, End, Parts, Parted, Usages
<1>3. Fits(turn)'
  BY <1>1, <1>2 DEF Fits
<1>4. ~lossy' => Exact(turn)'
  BY <1>1, <1>2 DEF Exact
<1>. QED  BY <1>1, <1>3, <1>4 DEF TurnsFit

\* A new round is above the labels there are; its calls are parted from the older ones
\* by the usage that was sent before it.
LEMMA LabelsEnterRound ==
  ASSUME TypeOK, TurnsFit, EntersRound  PROVE TurnsFit'
<1>0. /\ UNCHANGED <<events, turns, counted, lossy>> /\ pc = "head" /\ pc' = "calls"
      /\ rounds \in Nat /\ rounds' = rounds + 1
  BY DEF EntersRound, drainVars, Goto, TypeOK
<1>1. PICK turn \in [0..Len(events) -> 0..rounds] : Fits(turn) /\ (~lossy => Exact(turn))
  BY DEF TurnsFit
<1>2. /\ Calls' = Calls /\ End' = End /\ \A i, j : Parts(i, j)' <=> Parts(i, j)
  BY <1>0 DEF Calls, End, Parts, Parted, Usages
<1>3. turn \in [0..Len(events) -> 0..rounds'] /\ \A i \in Calls : turn[i] \in Nat /\ turn[i] < rounds'
  BY <1>0, <1>1 DEF Calls
<1>4. Fits(turn)'
  BY <1>0, <1>1, <1>2, <1>3 DEF Fits
<1>5. ASSUME ~lossy'  PROVE Exact(turn)'
  <2>1. Exact(turn)
    BY <1>0, <1>1, <1>5
  <2>2. \A n \in 0..rounds' : turns <= n /\ n < rounds' => \E i \in Calls : turn[i] = n
    BY <1>0, <2>1 DEF Exact
  <2>3. \A i \in Calls : Parts(i, End)
    BY <1>0, <2>1 DEF Exact
  <2>4. \A i, j \in Calls : i < j /\ turn[i] < turn[j] => Parts(i, j)
    BY <2>1 DEF Exact
  <2>. QED  BY <1>0, <1>2, <2>2, <2>3, <2>4 DEF Exact
<1>. QED  BY <1>0, <1>1, <1>3, <1>4, <1>5 DEF TurnsFit

-----------------------------------------------------------------------------
(* The labels: a new event *)

PartsNext(i, j) == Parted(Usages', counted', i, j)

LEMMA AppendParts ==
  ASSUME events \in Seq(EventType), NEW e \in EventType, events' = Append(events, e), counted' = counted
  PROVE  /\ Len(events) \in Nat /\ End = Len(events) + 1 /\ End' = End + 1 /\ Len(events') = End
         /\ Calls \subseteq 0..Len(events) /\ Calls' = IF e.tag = "call" THEN Calls \cup {End} ELSE Calls
         /\ \A i, j \in 0..End : PartsNext(i, j) <=> Parts(i, j)
         /\ \A i \in 0..Len(events) : PartsNext(i, End') <=> Parts(i, End) \/ e.tag = "usage"
         /\ ~PartsNext(End, End')
<1>1. /\ Len(events) \in Nat /\ Len(events') = Len(events) + 1
      /\ DOMAIN events = 1..Len(events) /\ DOMAIN events' = 1..Len(events')
      /\ \A i \in DOMAIN events : events'[i] = events[i]
      /\ events'[Len(events) + 1] = e
  BY AppendsLast
<1>2. End = Len(events) + 1 /\ End' = End + 1 /\ Calls \subseteq 0..Len(events)
  BY <1>1 DEF End, Calls
<1>3. Calls' = IF e.tag = "call" THEN Calls \cup {End} ELSE Calls
  <2>1. \A i \in 0..Len(events) : i \in Calls' <=> i \in Calls
    BY <1>1 DEF Calls
  <2>2. End \in Calls' <=> e.tag = "call"
    BY <1>1, <1>2 DEF Calls
  <2>3. Calls' \subseteq 0..End
    BY <1>1, <1>2 DEF Calls
  <2>4. \A i : i \in 0..End <=> (i \in 0..Len(events) \/ i = End)
    BY <1>1, <1>2
  <2>5. \A i : i \in Calls' <=> (i \in Calls \/ (i = End /\ e.tag = "call"))
    BY <1>1, <1>2, <2>1, <2>2, <2>3, <2>4
  <2>6. CASE e.tag = "call"
    BY <2>5, <2>6
  <2>7. CASE e.tag # "call"
    BY <2>5, <2>7
  <2>. QED  BY <2>6, <2>7
<1>4. /\ Usages \subseteq 1..Len(events) /\ Usages' \subseteq 1..End
      /\ \A k \in 1..Len(events) : k \in Usages' <=> k \in Usages
      /\ End \in Usages' <=> e.tag = "usage"
  BY <1>1, <1>2 DEF Usages
<1>5. \A i, j \in 0..End : PartsNext(i, j) <=> Parts(i, j)
  <2>1. ASSUME NEW i \in 0..End, NEW j \in 0..End
        PROVE  (\E k \in Usages' : i < k /\ k < j) <=> (\E k \in Usages : i < k /\ k < j)
    BY <1>1, <1>2, <1>4
  <2>. QED  BY <2>1 DEF Parts, PartsNext, Parted
<1>6. ASSUME NEW i \in 0..Len(events)  PROVE PartsNext(i, End') <=> Parts(i, End) \/ e.tag = "usage"
  <2>1. (\E k \in Usages' : i < k /\ k < End') <=> ((\E k \in Usages : i < k /\ k < End) \/ e.tag = "usage")
    BY <1>1, <1>2, <1>4
  <2>. QED  BY <2>1 DEF Parts, PartsNext, Parted
<1>7. ~PartsNext(End, End')
  BY <1>1, <1>2, <1>4 DEF PartsNext, Parted
<1>. QED  BY <1>1, <1>2, <1>3, <1>5, <1>6, <1>7

\* The label of what is sent is the round under way.
LEMMA LabelsAppend ==
  ASSUME TypeOK, TurnsFit, NEW e \in EventType, events \in Seq(EventType), events' = Append(events, e),
         UNCHANGED <<turns, counted, rounds, lossy>>,
         \/ e.tag \in {"text", "done"} /\ (pc' = pc \/ (pc # "calls" /\ pc' \notin {"calls", "head"}))
         \/ e.tag = "usage" /\ pc # "calls" /\ pc' = "head"
         \/ e.tag = "call" /\ pc = "calls" /\ pc' # "head"
  PROVE  TurnsFit'
<1>0. rounds \in Nat /\ rounds' = rounds /\ turns \in Nat
  BY DEF TypeOK
<1>1. PICK turn \in [0..Len(events) -> 0..rounds] : Fits(turn) /\ (~lossy => Exact(turn))
  BY DEF TurnsFit
<1>2. /\ Len(events) \in Nat /\ End = Len(events) + 1 /\ End' = End + 1 /\ Len(events') = End
      /\ Calls \subseteq 0..Len(events) /\ Calls' = IF e.tag = "call" THEN Calls \cup {End} ELSE Calls
      /\ \A i, j \in 0..End : PartsNext(i, j) <=> Parts(i, j)
      /\ \A i \in 0..Len(events) : PartsNext(i, End') <=> Parts(i, End) \/ e.tag = "usage"
      /\ ~PartsNext(End, End')
  BY AppendParts
<1>3. PICK next : next = [i \in 0..End |-> IF i = End THEN rounds ELSE turn[i]]
  OBVIOUS
<1>4. /\ next \in [0..Len(events') -> 0..rounds'] /\ next[End] = rounds
      /\ \A i \in 0..Len(events) : next[i] = turn[i] /\ turn[i] \in 0..rounds
  <2>1. \A i \in 0..Len(events) : turn[i] \in 0..rounds /\ i \in 0..End /\ i # End
    BY <1>1, <1>2
  <2>2. End \in 0..End /\ \A i \in 0..End : i = End \/ i \in 0..Len(events)
    BY <1>2
  <2>3. rounds \in 0..rounds
    BY <1>0
  <2>4. \A i \in 0..End : (IF i = End THEN rounds ELSE turn[i]) \in 0..rounds
    BY <2>1, <2>2, <2>3
  <2>. QED  BY <1>0, <1>2, <1>3, <2>1, <2>2, <2>4
<1>5. /\ next[0] = turns'
      /\ \A i, j \in Calls : i < j => next[i] <= next[j] /\ (PartsNext(i, j) => next[i] < next[j])
  BY <1>1, <1>2, <1>4 DEF Fits
<1>6. \A i \in Calls : i < End /\ next[i] <= rounds /\ i \in 0..Len(events)
  BY <1>0, <1>2, <1>4
<1>7. CASE e.tag = "call"
  <2>1. Calls' = Calls \cup {End}
    BY <1>2, <1>7
  <2>2. \A i \in Calls : (PartsNext(i, End) => next[i] < rounds) /\ (PartsNext(i, End') <=> Parts(i, End))
    BY <1>1, <1>2, <1>4, <1>6, <1>7 DEF Fits
  <2>3. Fits(next)'
    <3>1. ASSUME NEW i \in Calls', NEW j \in Calls', i < j
          PROVE  next[i] <= next[j] /\ (PartsNext(i, j) => next[i] < next[j])
      <4>1. CASE j = End
        <5>1. i \in Calls
          BY <1>2, <2>1, <3>1, <4>1
        <5>. QED  BY <1>4, <1>6, <2>2, <4>1, <5>1
      <4>2. CASE j # End
        <5>1. i \in Calls /\ j \in Calls
          BY <1>2, <1>6, <2>1, <3>1, <4>2
        <5>. QED  BY <1>5, <3>1, <5>1
      <4>. QED  BY <4>1, <4>2
    <3>2. ASSUME NEW i \in Calls', PartsNext(i, End')  PROVE next[i] < rounds'
      BY <1>0, <1>1, <1>2, <1>4, <1>7, <2>1, <2>2, <3>2 DEF Fits
    <3>. QED  BY <1>5, <3>1, <3>2 DEF Fits, Parts, PartsNext
  <2>4. ASSUME ~lossy'  PROVE Exact(next)'
    <3>1. /\ \A i, j \in Calls : i < j /\ turn[i] < turn[j] => Parts(i, j)
          /\ \A n \in 0..rounds : turns <= n /\ n < rounds => \E i \in Calls : turn[i] = n
          /\ \A i \in Calls : turn[i] < rounds => Parts(i, End)
      BY <1>1, <1>7, <2>4 DEF Exact
    <3>2. ASSUME NEW i \in Calls', NEW j \in Calls', i < j, next[i] < next[j]  PROVE PartsNext(i, j)
      <4>1. i \in Calls /\ (j \in Calls \/ j = End)
        BY <1>2, <1>6, <2>1, <3>2
      <4>. QED  BY <1>2, <1>4, <1>6, <3>1, <3>2, <4>1
    <3>3. ASSUME NEW n \in 0..rounds, turns <= n  PROVE \E i \in Calls' : next[i] = n
      <4>1. CASE n = rounds
        BY <1>4, <2>1, <4>1
      <4>2. CASE n # rounds
        BY <1>0, <1>4, <1>6, <2>1, <3>1, <3>3, <4>2
      <4>. QED  BY <4>1, <4>2
    <3>4. ASSUME NEW i \in Calls', next[i] < rounds  PROVE PartsNext(i, End')
      <4>1. i \in Calls
        BY <1>0, <1>4, <2>1, <3>4
      <4>. QED  BY <1>4, <1>6, <2>2, <3>1, <3>4, <4>1
    <3>. QED  BY <1>0, <1>7, <3>2, <3>3, <3>4 DEF Exact, Parts, PartsNext
  <2>. QED  BY <1>4, <2>3, <2>4 DEF TurnsFit
<1>8. CASE e.tag # "call"
  <2>1. Calls' = Calls
    BY <1>2, <1>8
  <2>2. Fits(next)'
    <3>1. pc' = "calls" => \A i \in Calls : PartsNext(i, End') => next[i] < rounds
      BY <1>1, <1>2, <1>4, <1>6, <1>8 DEF Fits
    <3>. QED  BY <1>0, <1>5, <2>1, <3>1 DEF Fits, Parts, PartsNext
  <2>3. ASSUME ~lossy'  PROVE Exact(next)'
    <3>1. Exact(turn)
      BY <1>1, <2>3
    <3>2. \A i, j \in Calls : i < j /\ next[i] < next[j] => PartsNext(i, j)
      BY <1>2, <1>4, <1>6, <3>1 DEF Exact
    <3>3. \A n \in 0..rounds : turns <= n /\ (pc' = "calls" => n < rounds) => \E i \in Calls : next[i] = n
      BY <1>4, <1>6, <1>8, <3>1 DEF Exact
    <3>4. pc' = "calls" => \A i \in Calls : next[i] < rounds => PartsNext(i, End')
      BY <1>2, <1>4, <1>6, <1>8, <3>1 DEF Exact
    <3>5. pc' = "head" => \A i \in Calls : PartsNext(i, End')
      BY <1>2, <1>6, <1>8, <3>1 DEF Exact
    <3>. QED  BY <1>0, <2>1, <3>2, <3>3, <3>4, <3>5 DEF Exact, Parts, PartsNext
  <2>. QED  BY <1>4, <2>2, <2>3 DEF TurnsFit
<1>. QED  BY <1>7, <1>8
-----------------------------------------------------------------------------
(* The labels: an event is taken *)

LEMMA TailParts ==
  ASSUME events \in Seq(EventType), events # <<>>, events' = Tail(events)
  PROVE  /\ Len(events) \in Nat \ {0} /\ Len(events') = Len(events) - 1
         /\ End = Len(events) + 1 /\ End = End' + 1 /\ End' \in Nat \ {0}
         /\ Calls \subseteq 0..Len(events) /\ Calls' \subseteq 0..Len(events')
         /\ 0 \in Calls /\ 0 \in Calls' /\ (1 \in Calls <=> events[1].tag = "call")
         /\ \A i \in Calls' : i # 0 => i + 1 \in Calls
         /\ \A i \in Calls : i > 1 => i - 1 \in Calls'
         /\ \A i \in Nat \ {0}, j \in Nat : PartsNext(i, j) <=> Parts(i + 1, j + 1)
         /\ counted' => \A j \in Nat : PartsNext(0, j) <=> Parts(1, j + 1)
         /\ ~counted' => \A j \in Nat : PartsNext(0, j)
<1>1. /\ Len(events) \in Nat \ {0} /\ Len(events') = Len(events) - 1
      /\ DOMAIN events = 1..Len(events) /\ DOMAIN events' = 1..Len(events')
      /\ \A i \in DOMAIN events' : events'[i] = events[i + 1]
  BY TakesFirst
<1>2. End = Len(events) + 1 /\ End = End' + 1 /\ End' \in Nat \ {0}
  BY <1>1 DEF End
<1>3. /\ Calls \subseteq 0..Len(events) /\ Calls' \subseteq 0..Len(events')
      /\ 0 \in Calls /\ 0 \in Calls' /\ (1 \in Calls <=> events[1].tag = "call")
  BY <1>1 DEF Calls
<1>4. /\ \A i \in Calls' : i # 0 => i + 1 \in Calls
      /\ \A i \in Calls : i > 1 => i - 1 \in Calls'
  BY <1>1 DEF Calls
<1>5. /\ \A k \in Usages' : k \in Nat \ {0} /\ k + 1 \in Usages
      /\ \A k \in Usages : k \in Nat \ {0} /\ (k > 1 => k - 1 \in Usages')
  BY <1>1 DEF Usages
<1>6. ASSUME NEW i \in Nat, NEW j \in Nat
      PROVE  (\E k \in Usages' : i < k /\ k < j) <=> (\E k \in Usages : i + 1 < k /\ k < j + 1)
  <2>1. ASSUME NEW k \in Usages', i < k, k < j  PROVE \E m \in Usages : i + 1 < m /\ m < j + 1
    <3>1. k + 1 \in Usages /\ i + 1 < k + 1 /\ k + 1 < j + 1
      BY <1>5, <2>1
    <3>. QED  BY <3>1
  <2>2. ASSUME NEW k \in Usages, i + 1 < k, k < j + 1  PROVE \E m \in Usages' : i < m /\ m < j
    <3>1. k - 1 \in Usages' /\ i < k - 1 /\ k - 1 < j
      BY <1>5, <2>2
    <3>. QED  BY <3>1
  <2>. QED  BY <2>1, <2>2
<1>7. ASSUME NEW i \in Nat \ {0}, NEW j \in Nat  PROVE PartsNext(i, j) <=> Parts(i + 1, j + 1)
  <2>1. i # 0 /\ i + 1 # 0
    OBVIOUS
  <2>. QED  BY <1>6, <2>1 DEF Parts, PartsNext, Parted
<1>8. ASSUME counted', NEW j \in Nat  PROVE PartsNext(0, j) <=> Parts(1, j + 1)
  <2>1. (\E k \in Usages' : 0 < k /\ k < j) <=> (\E k \in Usages : 0 + 1 < k /\ k < j + 1)
    BY <1>6
  <2>. QED  BY <1>8, <2>1 DEF Parts, PartsNext, Parted
<1>9. ~counted' => \A j \in Nat : PartsNext(0, j)
  BY DEF PartsNext, Parted
<1>. QED  BY <1>1, <1>2, <1>3, <1>4, <1>7, <1>8, <1>9

\* Taking an event moves the labels down; the first of them is the count.
LEMMA LabelsTail ==
  ASSUME NEW turn \in [0..Len(events) -> 0..rounds], NEW n \in 0..rounds, Len(events) \in Nat \ {0}
  PROVE  \E next \in [0..(Len(events) - 1) -> 0..rounds] :
           next[0] = n /\ \A i \in 1..(Len(events) - 1) : next[i] = turn[i + 1]
<1>. DEFINE next == [i \in 0..(Len(events) - 1) |-> IF i = 0 THEN n ELSE turn[i + 1]]
<1>1. \A i \in 0..(Len(events) - 1) : turn[i + 1] \in 0..rounds
  OBVIOUS
<1>2. next \in [0..(Len(events) - 1) -> 0..rounds]
  BY <1>1
<1>3. next[0] = n /\ \A i \in 1..(Len(events) - 1) : next[i] = turn[i + 1]
  OBVIOUS
<1>. HIDE DEF next
<1>. QED  BY <1>2, <1>3

\* The place a call had in the channel before an event that is no call was taken.
Was(i) == IF i = 0 THEN 0 ELSE i + 1

LEMMA TakesNoCall ==
  ASSUME TypeOK, TurnsFit, events \in Seq(EventType), events # <<>>, events' = Tail(events),
         UNCHANGED <<pc, rounds, lossy, turns>>, events[1].tag # "call",
         \/ events[1].tag # "usage" /\ counted' = counted
         \/ events[1].tag = "usage" /\ counted' = FALSE
  PROVE  TurnsFit'
<1>0. rounds \in Nat /\ turns \in Nat /\ counted \in BOOLEAN
  BY DEF TypeOK
<1>1. PICK turn \in [0..Len(events) -> 0..rounds] : Fits(turn) /\ (~lossy => Exact(turn))
  BY DEF TurnsFit
<1>2. /\ Len(events) \in Nat \ {0} /\ Len(events') = Len(events) - 1
      /\ End = Len(events) + 1 /\ End = End' + 1 /\ End' \in Nat \ {0}
      /\ Calls \subseteq 0..Len(events) /\ Calls' \subseteq 0..Len(events')
      /\ 0 \in Calls /\ 0 \in Calls' /\ 1 \notin Calls
      /\ \A i \in Calls' : i # 0 => i + 1 \in Calls
      /\ \A i \in Calls : i > 1 => i - 1 \in Calls'
      /\ \A i \in Nat \ {0}, j \in Nat : PartsNext(i, j) <=> Parts(i + 1, j + 1)
      /\ counted' => \A j \in Nat : PartsNext(0, j) <=> Parts(1, j + 1)
      /\ ~counted' => \A j \in Nat : PartsNext(0, j)
  BY TailParts
<1>3. \A j \in Nat \ {0} : PartsNext(0, j) <=> Parts(0, j + 1)
  <2>1. Usages \subseteq Nat \ {0} /\ (1 \in Usages <=> events[1].tag = "usage")
    BY DEF Usages
  <2>2. CASE counted'
    <3>1. counted /\ 1 \notin Usages
      <4>1. events[1].tag # "usage" /\ counted' = counted
        BY <2>2, Zenon
      <4>. QED  BY <2>1, <2>2, <4>1
    <3>2. ASSUME NEW j \in Nat \ {0}  PROVE Parts(0, j + 1) <=> Parts(1, j + 1)
      <4>1. (\E k \in Usages : 0 < k /\ k < j + 1) <=> (\E k \in Usages : 1 < k /\ k < j + 1)
        BY <2>1, <3>1
      <4>. QED  BY <3>1, <4>1 DEF Parts, Parted
    <3>. QED  BY <1>2, <2>2, <3>2
  <2>3. CASE ~counted'
    <3>1. ~counted \/ 1 \in Usages
      BY <2>1, <2>3
    <3>2. \A j \in Nat \ {0} : 0 < 1 /\ 1 < j + 1
      OBVIOUS
    <3>. QED  BY <1>2, <2>3, <3>1, <3>2 DEF Parts, Parted
  <2>. QED  BY <2>2, <2>3
<1>4. turn[0] = turns /\ turns \in 0..rounds
  BY <1>1, <1>2 DEF Fits
<1>5. PICK next \in [0..(Len(events) - 1) -> 0..rounds] :
        next[0] = turns /\ \A i \in 1..(Len(events) - 1) : next[i] = turn[i + 1]
  BY <1>1, <1>2, <1>4, LabelsTail
<1>6. next \in [0..Len(events') -> 0..rounds'] /\ next[0] = turns'
  BY <1>2, <1>5
<1>7. ASSUME NEW i \in Calls'
      PROVE  /\ i \in Nat /\ i < End'
             /\ Was(i) \in Calls /\ Was(i) \in Nat /\ Was(i) < End
             /\ next[i] = turn[Was(i)]
             /\ \A j \in Nat : i < j => (PartsNext(i, j) <=> Parts(Was(i), j + 1))
  <2>1. i \in 0..(Len(events) - 1) /\ i \in Nat /\ i < End'
    BY <1>2
  <2>2. CASE i = 0
    <3>1. Was(i) = 0
      BY <2>2 DEF Was
    <3>2. 0 \in Nat /\ 0 < End
      BY <1>2
    <3>3. next[i] = turn[0]
      BY <1>4, <1>5, <2>2
    <3>4. \A j \in Nat : i < j => (PartsNext(i, j) <=> Parts(0, j + 1))
      <4>1. \A j \in Nat : 0 < j => j \in Nat \ {0}
        OBVIOUS
      <4>. QED  BY <1>3, <2>2, <4>1
    <3>. QED  BY <1>2, <2>1, <3>1, <3>2, <3>3, <3>4
  <2>3. CASE i # 0
    <3>1. Was(i) = i + 1
      BY <2>3 DEF Was
    <3>2. i + 1 \in Calls /\ i + 1 \in Nat /\ i + 1 < End
      BY <1>2, <2>1, <2>3
    <3>3. next[i] = turn[i + 1]
      BY <1>2, <1>5, <2>1, <2>3
    <3>4. \A j \in Nat : PartsNext(i, j) <=> Parts(i + 1, j + 1)
      BY <1>2, <2>1, <2>3
    <3>. QED  BY <2>1, <3>1, <3>2, <3>3, <3>4
  <2>. QED  BY <2>2, <2>3
<1>8. ASSUME NEW i \in Calls', NEW j \in Calls', i < j
      PROVE  Was(i) < Was(j) /\ (PartsNext(i, j) <=> Parts(Was(i), Was(j)))
  <2>1. i \in Nat /\ j \in Nat /\ j # 0
    BY <1>7, <1>8
  <2>2. Was(j) = j + 1 /\ Was(i) < j + 1
    BY <1>8, <2>1 DEF Was
  <2>. QED  BY <1>7, <1>8, <2>1, <2>2
<1>9. ASSUME NEW i \in Calls'  PROVE PartsNext(i, End') <=> Parts(Was(i), End)
  BY <1>2, <1>7
<1>10. ASSUME NEW i \in Calls  PROVE \E j \in Calls' : Was(j) = i
  <2>1. CASE i = 0
    BY <1>2, <2>1 DEF Was
  <2>2. CASE i # 0
    <3>1. i \in Nat /\ i > 1
      <4>1. i # 1 /\ i \in 0..Len(events)
        BY <1>2
      <4>. QED  BY <1>2, <2>2, <4>1
    <3>2. i - 1 \in Calls' /\ i - 1 # 0 /\ (i - 1) + 1 = i
      BY <1>2, <3>1
    <3>3. Was(i - 1) = i
      BY <3>2 DEF Was
    <3>. QED  BY <3>2, <3>3
  <2>. QED  BY <2>1, <2>2
<1>11. Fits(next)'
  <2>1. ASSUME NEW i \in Calls', NEW j \in Calls', i < j
        PROVE  next[i] <= next[j] /\ (PartsNext(i, j) => next[i] < next[j])
    BY <1>1, <1>7, <1>8, <2>1 DEF Fits
  <2>2. ASSUME pc = "calls", NEW i \in Calls', PartsNext(i, End')  PROVE next[i] < rounds
    BY <1>1, <1>7, <1>9, <2>2 DEF Fits
  <2>. QED  BY <1>6, <2>1, <2>2 DEF Fits, Parts, PartsNext
<1>12. ASSUME ~lossy'  PROVE Exact(next)'
  <2>0. Exact(turn)
    BY <1>1, <1>12
  <2>1. ASSUME NEW i \in Calls', NEW j \in Calls', i < j, next[i] < next[j]  PROVE PartsNext(i, j)
    BY <1>7, <1>8, <2>0, <2>1 DEF Exact
  <2>2. ASSUME NEW n \in 0..rounds, turns <= n, pc = "calls" => n < rounds  PROVE \E i \in Calls' : next[i] = n
    <3>1. PICK i \in Calls : turn[i] = n
      BY <2>0, <2>2 DEF Exact
    <3>. QED  BY <1>7, <1>10, <3>1
  <2>3. ASSUME pc = "calls", NEW i \in Calls', next[i] < rounds  PROVE PartsNext(i, End')
    BY <1>7, <1>9, <2>0, <2>3 DEF Exact
  <2>4. ASSUME pc = "head", NEW i \in Calls'  PROVE PartsNext(i, End')
    BY <1>7, <1>9, <2>0, <2>4 DEF Exact
  <2>. QED  BY <2>1, <2>2, <2>3, <2>4 DEF Exact, Parts, PartsNext
<1>. QED  BY <1>6, <1>11, <1>12 DEF TurnsFit

\* Only the first call after a usage is a turn; it belongs to a round of its own.
LEMMA TakesCall ==
  ASSUME TypeOK, TurnsFit, events \in Seq(EventType), events # <<>>, events' = Tail(events),
         UNCHANGED <<pc, rounds, lossy>>, events[1].tag = "call", counted' = TRUE,
         turns' = IF counted THEN turns ELSE turns + 1
  PROVE  TurnsFit'
<1>0. rounds \in Nat /\ turns \in Nat
  BY DEF TypeOK
<1>1. PICK turn \in [0..Len(events) -> 0..rounds] : Fits(turn) /\ (~lossy => Exact(turn))
  BY DEF TurnsFit
<1>2. /\ Len(events) \in Nat \ {0} /\ Len(events') = Len(events) - 1
      /\ End = Len(events) + 1 /\ End = End' + 1 /\ End' \in Nat \ {0}
      /\ Calls \subseteq 0..Len(events) /\ Calls' \subseteq 0..Len(events')
      /\ 0 \in Calls /\ 0 \in Calls' /\ 1 \in Calls
      /\ \A i \in Calls' : i # 0 => i + 1 \in Calls
      /\ \A i \in Calls : i > 1 => i - 1 \in Calls'
      /\ \A i \in Nat \ {0}, j \in Nat : PartsNext(i, j) <=> Parts(i + 1, j + 1)
      /\ \A j \in Nat : PartsNext(0, j) <=> Parts(1, j + 1)
  BY TailParts
<1>3. /\ turn[0] = turns /\ turn[0] <= turn[1] /\ (Parts(0, 1) => turn[0] < turn[1])
      /\ turn[1] \in 0..rounds /\ turns' \in Nat
  <2>1. turn[1] \in 0..rounds
    BY <1>1, <1>2
  <2>2. 0 < 1
    OBVIOUS
  <2>. QED  BY <1>0, <1>1, <1>2, <2>1, <2>2 DEF Fits
<1>4. ~counted <=> Parts(0, 1)
  <2>1. \A k \in Usages : ~(0 < k /\ k < 1)
    <3>1. Usages \subseteq Nat
      BY DEF Usages
    <3>. QED  BY <3>1
  <2>. QED  BY <2>1 DEF Parts, Parted
<1>5. turns <= turns' /\ turns' <= turn[1] /\ turns' \in 0..rounds
  BY <1>0, <1>3, <1>4
<1>6. ~lossy => turns' = turn[1]
  <2>1. SUFFICES ASSUME Exact(turn)  PROVE turns' = turn[1]
    BY <1>1
  <2>2. CASE counted
    <3>1. ~Parts(0, 1) /\ 0 < 1
      BY <1>4, <2>2
    <3>2. ~(turn[0] < turn[1])
      BY <1>2, <2>1, <3>1 DEF Exact
    <3>. QED  BY <1>0, <1>3, <2>2, <3>2
  <2>3. CASE ~counted
    <3>1. turns' = turns + 1
      BY <2>3
    <3>2. ASSUME turns + 1 < turn[1]  PROVE FALSE
      <4>1. turns + 1 \in 0..rounds /\ turns <= turns + 1 /\ turns + 1 < rounds
        BY <1>0, <1>3, <3>2
      <4>2. PICK i \in Calls : turn[i] = turns + 1
        BY <2>1, <4>1 DEF Exact
      <4>3. i # 0 /\ i \in Nat /\ (i = 1 \/ 1 < i)
        <5>1. i \in Nat
          BY <1>2
        <5>2. i # 0
          BY <1>0, <1>3, <4>2
        <5>. QED  BY <5>1, <5>2
      <4>4. turn[1] <= turn[i]
        BY <1>1, <1>2, <1>3, <4>3 DEF Fits
      <4>. QED  BY <1>0, <1>3, <3>2, <4>2, <4>4
    <3>. QED  BY <1>0, <1>5, <1>3, <3>1, <3>2
  <2>. QED  BY <2>2, <2>3
<1>7. PICK next \in [0..(Len(events) - 1) -> 0..rounds] :
        next[0] = turns' /\ \A i \in 1..(Len(events) - 1) : next[i] = turn[i + 1]
  BY <1>1, <1>2, <1>5, LabelsTail
<1>8. next \in [0..Len(events') -> 0..rounds'] /\ next[0] = turns'
  BY <1>2, <1>7
<1>9. ASSUME NEW i \in Calls'
      PROVE  /\ i \in Nat /\ i < End' /\ i + 1 \in Calls /\ i + 1 < End
             /\ next[i] \in Nat /\ turn[i + 1] \in Nat /\ next[i] <= turn[i + 1]
             /\ (i # 0 \/ ~lossy) => next[i] = turn[i + 1]
             /\ \A j \in Nat : PartsNext(i, j) <=> Parts(i + 1, j + 1)
  <2>1. i \in 0..(Len(events) - 1) /\ i + 1 \in 0..Len(events) /\ i \in Nat /\ i < End' /\ i + 1 < End
    <3>1. i \in 0..(Len(events) - 1)
      BY <1>2
    <3>2. Len(events) \in Nat \ {0} /\ End = Len(events) + 1 /\ End' = Len(events)
      BY TakesFirst DEF End
    <3>. QED  BY <3>1, <3>2
  <2>2. next[i] \in Nat /\ turn[i + 1] \in Nat
    <3>1. next[i] \in 0..rounds
      BY <1>7, <2>1
    <3>2. turn[i + 1] \in 0..rounds
      BY <1>1, <2>1
    <3>. QED  BY <1>0, <3>1, <3>2
  <2>3. CASE i = 0
    <3>1. next[i] = turns' /\ turn[i + 1] = turn[1]
      BY <1>7, <2>3
    <3>2. i + 1 \in Calls
      BY <1>2, <2>3
    <3>3. \A j \in Nat : PartsNext(i, j) <=> Parts(i + 1, j + 1)
      BY <1>2, <2>3
    <3>4. next[i] <= turn[i + 1] /\ (~lossy => next[i] = turn[i + 1])
      BY <1>5, <1>6, <3>1
    <3>. QED  BY <2>1, <2>2, <2>3, <3>2, <3>3, <3>4
  <2>4. CASE i # 0
    <3>1. next[i] = turn[i + 1] /\ next[i] <= turn[i + 1]
      BY <1>2, <1>7, <2>1, <2>2, <2>4
    <3>2. i + 1 \in Calls
      BY <1>2, <2>4
    <3>3. \A j \in Nat : PartsNext(i, j) <=> Parts(i + 1, j + 1)
      BY <1>2, <2>1, <2>4
    <3>. QED  BY <2>1, <2>2, <3>1, <3>2, <3>3
  <2>. QED  BY <2>3, <2>4
<1>10. Fits(next)'
  <2>1. ASSUME NEW i \in Calls', NEW j \in Calls', i < j
        PROVE  next[i] <= next[j] /\ (PartsNext(i, j) => next[i] < next[j])
    <3>1. i + 1 \in Calls /\ j + 1 \in Calls /\ i \in Nat /\ j \in Nat
      BY <1>9
    <3>a. i + 1 < j + 1 /\ j # 0
      BY <2>1, <3>1
    <3>b. PartsNext(i, j) <=> Parts(i + 1, j + 1)
      BY <1>9, <3>1
    <3>c. next[i] <= turn[i + 1] /\ next[j] = turn[j + 1] /\ next[i] \in Nat /\ turn[i + 1] \in Nat /\ next[j] \in Nat
      BY <1>9, <3>a
    <3>2. turn[i + 1] <= turn[j + 1] /\ (Parts(i + 1, j + 1) => turn[i + 1] < turn[j + 1])
      BY <1>1, <3>1, <3>a DEF Fits
    <3>. QED  BY <3>b, <3>c, <3>2
  <2>2. ASSUME pc = "calls", NEW i \in Calls', PartsNext(i, End')  PROVE next[i] < rounds
    <3>1. i + 1 \in Calls /\ Parts(i + 1, End)
      BY <1>2, <1>9, <2>2
    <3>2. turn[i + 1] < rounds
      BY <1>1, <2>2, <3>1 DEF Fits
    <3>. QED  BY <1>0, <1>9, <3>2
  <2>. QED  BY <1>8, <2>1, <2>2 DEF Fits, Parts, PartsNext
<1>11. ASSUME ~lossy'  PROVE Exact(next)'
  <2>0. Exact(turn) /\ ~lossy
    BY <1>1, <1>11
  <2>a. \A i \in Calls' : i + 1 \in Calls /\ next[i] = turn[i + 1]
    BY <1>9, <2>0
  <2>1. ASSUME NEW i \in Calls', NEW j \in Calls', i < j, next[i] < next[j]  PROVE PartsNext(i, j)
    <3>0. i \in Nat /\ j \in Nat
      BY <1>9
    <3>1. /\ i + 1 < j + 1 /\ turn[i + 1] < turn[j + 1]
          /\ PartsNext(i, j) <=> Parts(i + 1, j + 1)
      <4>1. i + 1 < j + 1 /\ turn[i + 1] < turn[j + 1]
        BY <2>a, <2>1, <3>0
      <4>2. PartsNext(i, j) <=> Parts(i + 1, j + 1)
        BY <1>9, <3>0
      <4>. QED  BY <4>1, <4>2
    <3>. QED  BY <2>0, <2>a, <3>1 DEF Exact
  <2>2. ASSUME NEW n \in 0..rounds, turns' <= n, pc = "calls" => n < rounds  PROVE \E i \in Calls' : next[i] = n
    <3>1. turns <= n
      BY <1>0, <1>3, <1>5, <2>2
    <3>2. PICK i \in Calls : turn[i] = n
      BY <2>0, <2>2, <3>1 DEF Exact
    <3>3. CASE i = 0
      BY <1>0, <1>2, <1>3, <1>5, <1>8, <2>2, <3>2, <3>3
    <3>4. CASE i = 1
      BY <1>2, <1>6, <1>8, <2>0, <3>2, <3>4
    <3>5. CASE i # 0 /\ i # 1
      <4>1. i - 1 \in Calls' /\ (i - 1) + 1 = i
        BY <1>2, <3>5
      <4>2. next[i - 1] = turn[(i - 1) + 1]
        BY <2>a, <4>1
      <4>. QED  BY <3>2, <4>1, <4>2
    <3>. QED  BY <3>3, <3>4, <3>5
  <2>3. ASSUME pc = "calls", NEW i \in Calls', next[i] < rounds  PROVE PartsNext(i, End')
    <3>1. turn[i + 1] < rounds /\ (PartsNext(i, End') <=> Parts(i + 1, End))
      BY <1>2, <1>9, <2>a, <2>3
    <3>. QED  BY <2>0, <2>a, <2>3, <3>1 DEF Exact
  <2>4. ASSUME pc = "head", NEW i \in Calls'  PROVE PartsNext(i, End')
    <3>1. PartsNext(i, End') <=> Parts(i + 1, End)
      BY <1>2, <1>9
    <3>. QED  BY <2>0, <2>a, <2>4, <3>1 DEF Exact
  <2>. QED  BY <2>1, <2>2, <2>3, <2>4 DEF Exact, Parts, PartsNext
<1>. QED  BY <1>8, <1>10, <1>11 DEF TurnsFit

-----------------------------------------------------------------------------
(* The labels: every step *)

LEMMA SilentKeepsLabels ==
  ASSUME TypeOK, TurnsFit, SilentRun \/ SilentDrain  PROVE TurnsFit'
<1>1. CASE EntersRound
  BY <1>1, LabelsEnterRound
<1>2. CASE SilentRun /\ ~EntersRound
  <2>1. /\ UNCHANGED <<events, turns, counted, rounds, lossy>>
        /\ pc # "calls" /\ pc' \notin {"calls", "head"}
    <3>1. CASE (\E k \in 0..MaxCalls : ModelReplies(k)) \/ ModelFails \/ LoopEnds
      BY <3>1 DEF ModelReplies, ModelFails, LoopEnds, Goto, drainVars
    <3>2. CASE Exhausted \/ (\E ok \in BOOLEAN : FinalCall(ok)) \/ CloseDoneCh \/ CloseEvents
      BY <3>2 DEF Exhausted, FinalCall, CloseDoneCh, CloseEvents, Goto, drainVars
    <3>. QED  BY <1>2, <3>1, <3>2 DEF SilentRun
  <2>. QED  BY <2>1, LabelsStay
<1>3. CASE SilentDrain
  <2>1. UNCHANGED <<events, turns, counted, rounds, lossy, pc>>
    <3>1. CASE CallerCancels \/ SeeDoneCh \/ FallbackEmpty \/ SeeClosed
      BY <3>1 DEF CallerCancels, SeeDoneCh, FallbackEmpty, SeeClosed, Leaves, runVars, drainVars
    <3>2. CASE (\E ok \in BOOLEAN : Synthesize(ok)) \/ NoSynthesis \/ Returns
      BY <3>2 DEF Synthesize, NoSynthesis, Returns, Leaves, runVars
    <3>. QED  BY <1>3, <3>1, <3>2 DEF SilentDrain
  <2>. QED  BY <2>1, LabelsStay
<1>. QED  BY <1>1, <1>2, <1>3

LEMMA SendsKeepsLabels ==
  ASSUME TypeOK, RunCounts, ChannelInOrder, TurnsFit, Sends  PROVE TurnsFit'
<1>1. rounds' = rounds
  BY DEF Sends, Streams, EmitUsage, StartsCall, ToolPanics, EmitDone, runVars
<1>2. UNCHANGED <<turns, counted>> /\ node \in Nat /\ events \in Seq(EventType)
  <2>1. UNCHANGED drainVars
    BY SendsKinds
  <2>2. node \in Nat /\ events \in Seq(EventType)
    BY DEF TypeOK, ChannelInOrder
  <2>. QED  BY <2>1, <2>2 DEF drainVars
<1>3. CASE lossy' = TRUE /\ events' = events
  <2>1. pc' = "calls" => pc = "calls"
    BY DEF Sends, Streams, EmitUsage, StartsCall, ToolPanics, EmitDone, Goto, runVars
  <2>. QED  BY <1>1, <1>2, <1>3, <2>1, LabelsStay
<1>4. CASE lossy' = lossy /\ pc = "usage" /\ pc' = "head" /\ events' = Append(events, Usage(node))
  BY <1>1, <1>2, <1>4, EventKinds, LabelsAppend
<1>5. CASE lossy' = lossy /\ pc = "done" /\ pc' = "signal" /\ events' = Append(events, Done(node))
  BY <1>1, <1>2, <1>5, EventKinds, LabelsAppend
<1>6. CASE lossy' = lossy /\ pc = "calls" /\ pc' \in {"llm", "calls", "done"} /\ events' = Append(events, Call)
  BY <1>1, <1>2, <1>6, EventKinds, LabelsAppend
<1>7. CASE lossy' = lossy /\ pc' = pc /\ events' = Append(events, Text)
  BY <1>1, <1>2, <1>7, EventKinds, LabelsAppend
<1>. QED  BY <1>3, <1>4, <1>5, <1>6, <1>7, SendsKinds

LEMMA TakesKeepsLabels ==
  ASSUME TypeOK, ChannelInOrder, TurnsFit, Takes  PROVE TurnsFit'
<1>1. PICK tag \in {"text", "call", "usage", "done"} : Take(tag)
  BY DEF Takes, OnText, OnUsage, OnCall, OnDone
<1>2. events \in Seq(EventType) /\ events # <<>> /\ events' = Tail(events) /\ UNCHANGED <<pc, rounds, lossy>>
  BY <1>1 DEF Take, runVars, ChannelInOrder
<1>3. Head(events) = events[1]
  BY <1>2, TakesFirst
<1>4. CASE OnText
  <2>1. Take("text") /\ UNCHANGED <<turns, counted>>
    BY <1>4 DEF OnText, drainVars
  <2>2. events[1].tag = "text"
    BY <1>3, <2>1 DEF Take
  <2>. QED  BY <1>2, <2>1, <2>2, TakesNoCall
<1>5. CASE OnUsage
  <2>1. Take("usage") /\ UNCHANGED turns /\ counted' = FALSE
    BY <1>5 DEF OnUsage
  <2>2. events[1].tag = "usage"
    BY <1>3, <2>1 DEF Take
  <2>. QED  BY <1>2, <2>1, <2>2, TakesNoCall
<1>6. CASE OnCall
  <2>1. Take("call") /\ turns' = (IF counted THEN turns ELSE turns + 1) /\ counted' = TRUE
    BY <1>6 DEF OnCall
  <2>2. events[1].tag = "call"
    BY <1>3, <2>1 DEF Take
  <2>. QED  BY <1>2, <2>1, <2>2, TakesCall
<1>7. CASE OnDone
  <2>1. Take("done") /\ UNCHANGED <<turns, counted>>
    BY <1>7 DEF OnDone
  <2>2. events[1].tag = "done"
    BY <1>3, <2>1 DEF Take
  <2>. QED  BY <1>2, <2>1, <2>2, TakesNoCall
<1>. QED  BY <1>4, <1>5, <1>6, <1>7 DEF Takes

-----------------------------------------------------------------------------
(* The capacity of the channel *)

LEMMA OfferFits ==
  ASSUME events \in Seq(EventType), Len(events) <= EventCap, lossy \in BOOLEAN, NEW e \in EventType, Offer(e)
  PROVE  Len(events') <= EventCap /\ lossy' \in BOOLEAN
<1>1. EventCap \in Nat
  BY BudgetAssumption
<1>2. CASE HasRoom /\ events' = Append(events, e)
  BY <1>1, <1>2, AppendsLast, OfferOrDrop DEF HasRoom
<1>3. CASE events' = events
  BY <1>3, OfferOrDrop
<1>. QED  BY <1>2, <1>3, OfferOrDrop

LEMMA ChannelFits ==
  ASSUME TypeOK, ChannelInOrder, Next  PROVE Len(events') <= EventCap /\ lossy' \in BOOLEAN
<1>1. /\ events \in Seq(EventType) /\ Len(events) <= EventCap /\ lossy \in BOOLEAN /\ node \in Nat
      /\ EventCap \in Nat
  BY BudgetAssumption DEF TypeOK, ChannelInOrder
<1>2. CASE SilentRun \/ SilentDrain
  <2>1. events' = events /\ lossy' = lossy
    <3>1. CASE (\E k \in 0..MaxCalls : ModelReplies(k)) \/ ModelFails \/ LoopEnds \/ EntersRound
      BY <3>1 DEF ModelReplies, ModelFails, LoopEnds, EntersRound
    <3>2. CASE Exhausted \/ (\E ok \in BOOLEAN : FinalCall(ok)) \/ CloseDoneCh \/ CloseEvents
      BY <3>2 DEF Exhausted, FinalCall, CloseDoneCh, CloseEvents
    <3>3. CASE CallerCancels \/ SeeDoneCh \/ FallbackEmpty \/ SeeClosed
      BY <3>3 DEF CallerCancels, SeeDoneCh, FallbackEmpty, SeeClosed, Leaves
    <3>4. CASE (\E ok \in BOOLEAN : Synthesize(ok)) \/ NoSynthesis \/ Returns
      BY <3>4 DEF Synthesize, NoSynthesis, Returns, Leaves
    <3>. QED  BY <1>2, <3>1, <3>2, <3>3, <3>4 DEF SilentRun, SilentDrain
  <2>. QED  BY <1>1, <2>1
<1>3. CASE Sends
  <2>1. CASE Streams \/ StartsCall \/ ToolPanics \/ EmitDone
    <3>1. PICK e \in EventType : Offer(e)
      BY <1>1, <2>1, EventKinds DEF Streams, StartsCall, ToolPanics, EmitDone
    <3>. QED  BY <1>1, <3>1, OfferFits
  <2>2. ASSUME NEW read \in BOOLEAN, EmitUsage(read)  PROVE Len(events') <= EventCap /\ lossy' \in BOOLEAN
    <3>1. CASE read
      <4>1. Offer(Usage(node)) /\ Usage(node) \in EventType
        BY <1>1, <2>2, <3>1, EventKinds DEF EmitUsage
      <4>. QED  BY <1>1, <4>1, OfferFits
    <3>2. CASE ~read
      <4>1. lossy' = TRUE /\ events' = events
        BY <2>2, <3>2 DEF EmitUsage
      <4>. QED  BY <1>1, <4>1
    <3>. QED  BY <3>1, <3>2
  <2>. QED  BY <1>3, <2>1, <2>2 DEF Sends
<1>4. CASE Takes
  <2>1. PICK tag \in {"text", "call", "usage", "done"} : Take(tag)
    BY <1>4 DEF Takes, OnText, OnUsage, OnCall, OnDone
  <2>2. events # <<>> /\ events' = Tail(events) /\ lossy' = lossy
    BY <2>1 DEF Take
  <2>3. Len(events') = Len(events) - 1 /\ Len(events) \in Nat
    BY <1>1, <2>2, TakesFirst
  <2>. QED  BY <1>1, <2>2, <2>3
<1>. QED  BY <1>2, <1>3, <1>4, NextKinds

-----------------------------------------------------------------------------
(* The invariant *)

LEMMA TypeKept ==
  ASSUME TypeOK, RunCounts, ChannelInOrder, Next  PROVE TypeOK'
<1>0. TypeOK /\ RunCounts /\ ChannelInOrder /\ events \in Seq(EventType) /\ replies \in Nat
  BY DEF TypeOK, ChannelInOrder
<1>1. Len(events') <= EventCap /\ lossy' \in BOOLEAN
  BY ChannelFits
<1>2. CASE SilentRun \/ Sends
  <2>1. /\ UNCHANGED drainVars
        /\ pc' \in {"llm", "usage", "head", "calls", "final", "done", "signal", "closing", "closed"}
        /\ replies' \in 0..(MaxIter + 2) /\ node' \in 0..replies' /\ replies <= replies'
        /\ left' \in 0..MaxCalls /\ iteration' \in 0..MaxIter /\ rounds' \in 0..MaxIter
        /\ cancelled' = cancelled /\ doneCh' \in BOOLEAN
    BY <1>2, RunKeepsCounts
  <2>2. /\ stage' \in {"drain", "fallback", "post", "report", "returned"} /\ turns' \in Nat
        /\ lastNode' \in 0..replies
        /\ {cancelled', counted', synth', exceeded', saved', used'} \subseteq BOOLEAN
    BY <1>0, <2>1 DEF TypeOK, drainVars
  <2>3. lastNode' \in 0..replies'
    BY <1>0, <2>1, <2>2
  <2>. QED  BY <1>1, <2>1, <2>2, <2>3 DEF TypeOK
<1>3. CASE SilentDrain \/ Takes
  <2>1. \A i \in DOMAIN events : TellsNode(events[i]) => events[i].node \in 1..replies
    <3>1. ASSUME NEW i \in DOMAIN events, TellsNode(events[i])  PROVE events[i].node \in 1..replies
      <4>1. CASE events[i].tag = "usage"
        BY <1>0, <4>1 DEF ChannelInOrder
      <4>2. CASE events[i].tag = "done" /\ events[i].node # 0
        <5>1. events[i].node \in {0, replies}
          BY <1>0, <4>2 DEF ChannelInOrder
        <5>. QED  BY <1>0, <4>2, <5>1
      <4>. QED  BY <3>1, <4>1, <4>2 DEF TellsNode
    <3>. QED  BY <3>1
  <2>2. /\ UNCHANGED <<runVars, lossy>> /\ stage' \in Stages /\ turns' \in Nat /\ lastNode' \in 0..replies
        /\ cancelled' \in BOOLEAN /\ counted' \in BOOLEAN /\ synth' \in BOOLEAN
        /\ exceeded' \in BOOLEAN /\ saved' \in BOOLEAN /\ used' \in BOOLEAN
    BY <1>0, <1>3, <2>1, DrainKeepsCounts
  <2>3. UNCHANGED <<pc, node, replies, left, iteration, rounds, doneCh>>
    BY <2>2 DEF runVars
  <2>4. /\ pc' \in {"llm", "usage", "head", "calls", "final", "done", "signal", "closing", "closed"}
        /\ replies' \in 0..(MaxIter + 2) /\ node' \in 0..replies'
        /\ left' \in 0..MaxCalls /\ iteration' \in 0..MaxIter /\ rounds' \in 0..MaxIter
        /\ doneCh' \in BOOLEAN
    BY <1>0, <2>3 DEF TypeOK
  <2>5. stage' \in {"drain", "fallback", "post", "report", "returned"} /\ lastNode' \in 0..replies'
    BY <2>2, <2>3 DEF Stages
  <2>. QED  BY <1>1, <2>2, <2>4, <2>5 DEF TypeOK
<1>. QED  BY <1>2, <1>3, NextKinds

LEMMA NextKeepsBudget ==
  ASSUME BudgetIndInv, Next  PROVE BudgetIndInv'
<1>0. TypeOK /\ RunCounts /\ ChannelInOrder /\ SynthInTime /\ TurnsFit /\ RepliesTold
  BY DEF BudgetIndInv
<1>1. TypeOK'
  BY <1>0, TypeKept
<1>2. CASE SilentRun
  <2>1. RunCounts' /\ UNCHANGED drainVars
    BY <1>0, <1>2, RunKeepsCounts
  <2>2. SynthInTime'
    BY <1>0, <2>1 DEF SynthInTime, drainVars
  <2>3. ChannelInOrder'
    BY <1>0, <1>2, SilentKeepsOrder
  <2>4. RepliesTold'
    BY <1>0, <1>2, SilentKeepsTold
  <2>5. TurnsFit'
    BY <1>0, <1>2, SilentKeepsLabels
  <2>. QED  BY <1>1, <2>1, <2>2, <2>3, <2>4, <2>5 DEF BudgetIndInv
<1>3. CASE Sends
  <2>1. RunCounts' /\ UNCHANGED drainVars
    BY <1>0, <1>3, RunKeepsCounts
  <2>2. SynthInTime'
    BY <1>0, <2>1 DEF SynthInTime, drainVars
  <2>3. ChannelInOrder'
    BY <1>0, <1>3, SendsKeepsOrder
  <2>4. RepliesTold'
    BY <1>0, <1>3, SendsKeepsTold
  <2>5. TurnsFit'
    BY <1>0, <1>3, SendsKeepsLabels
  <2>. QED  BY <1>1, <2>1, <2>2, <2>3, <2>4, <2>5 DEF BudgetIndInv
<1>4. CASE SilentDrain \/ Takes
  <2>1. UNCHANGED runVars
    <3>1. CASE CallerCancels \/ SeeDoneCh \/ FallbackEmpty \/ SeeClosed
      BY <3>1 DEF CallerCancels, SeeDoneCh, FallbackEmpty, SeeClosed, Leaves
    <3>2. CASE (\E ok \in BOOLEAN : Synthesize(ok)) \/ NoSynthesis \/ Returns
      BY <3>2 DEF Synthesize, NoSynthesis, Returns, Leaves
    <3>3. CASE Takes
      BY <3>3 DEF Takes, OnText, OnUsage, OnCall, OnDone, Take
    <3>. QED  BY <1>4, <3>1, <3>2, <3>3 DEF SilentDrain
  <2>2. RunCounts'
    BY <1>0, <2>1, RunFrame
  <2>3. SynthInTime'
    BY <1>0, <1>4, SynthKept
  <2>4. ChannelInOrder'
    BY <1>0, <1>4, SilentKeepsOrder, TakesKeepsOrder
  <2>5. RepliesTold'
    BY <1>0, <1>4, SilentKeepsTold, TakesKeepsTold
  <2>6. TurnsFit'
    BY <1>0, <1>4, SilentKeepsLabels, TakesKeepsLabels
  <2>. QED  BY <1>1, <2>2, <2>3, <2>4, <2>5, <2>6 DEF BudgetIndInv
<1>. QED  BY <1>2, <1>3, <1>4, NextKinds

LEMMA StutterKeepsBudget ==
  ASSUME BudgetIndInv, UNCHANGED vars  PROVE BudgetIndInv'
<1>1. /\ UNCHANGED <<pc, node, replies, left, iteration, rounds, doneCh, cancelled, events, lossy>>
      /\ UNCHANGED <<stage, turns, counted, synth, exceeded, lastNode, saved, used>>
  BY DEF vars, runVars, drainVars
<1>2. TypeOK'
  BY <1>1 DEF BudgetIndInv, TypeOK
<1>3. RunCounts' /\ SynthInTime'
  BY <1>1 DEF BudgetIndInv, RunCounts, SynthInTime, Over
<1>4. ChannelInOrder'
  BY <1>1 DEF BudgetIndInv, ChannelInOrder, Draining, Over
<1>5. TurnsFit'
  BY <1>1, LabelsStay DEF BudgetIndInv
<1>6. RepliesTold'
  <2>1. \A n : WillKnow(n)' <=> WillKnow(n)
    BY <1>1 DEF WillKnow
  <2>. QED  BY <1>1, <2>1 DEF BudgetIndInv, RepliesTold
<1>. QED  BY <1>2, <1>3, <1>4, <1>5, <1>6 DEF BudgetIndInv

LEMMA BudgetStep == BudgetIndInv /\ [Next]_vars => BudgetIndInv'
BY NextKeepsBudget, StutterKeepsBudget

LEMMA BudgetInit == Init => BudgetIndInv
<1>. SUFFICES ASSUME Init  PROVE BudgetIndInv
  OBVIOUS
<1>1. /\ pc = "llm" /\ node = 0 /\ replies = 0 /\ left = 0 /\ iteration = 0 /\ rounds = 0
      /\ cancelled = FALSE /\ doneCh = FALSE /\ events = <<>> /\ lossy = FALSE
  BY DEF Init
<1>2. /\ stage = "drain" /\ turns = 0 /\ counted = FALSE /\ synth = FALSE /\ exceeded = FALSE
      /\ lastNode = 0 /\ saved = FALSE /\ used = FALSE
  BY DEF Init
<1>3. MaxTurns \in Nat /\ MaxIter \in Nat /\ MaxCalls \in Nat /\ EventCap \in Nat
  BY BudgetAssumption DEF MaxIter
<1>4. Len(events) = 0 /\ DOMAIN events = {} /\ events \in Seq(EventType)
  BY <1>1
<1>5. TypeOK
  <2>1. /\ 0 \in 0..MaxCalls /\ 0 \in 0..MaxIter /\ 0 \in 0..(MaxIter + 2) /\ 0 \in 0..0 /\ 0 <= EventCap
        /\ 0 \in Nat
    BY <1>3
  <2>2. {cancelled, doneCh, lossy, counted, synth, exceeded, saved, used} \subseteq BOOLEAN
    BY <1>1, <1>2
  <2>. QED  BY <1>1, <1>2, <1>4, <2>1, <2>2 DEF TypeOK
<1>6. RunCounts
  BY <1>1 DEF RunCounts, Over
<1>7. ChannelInOrder
  BY <1>1, <1>2, <1>4 DEF ChannelInOrder, Draining, Over
<1>8. SynthInTime
  BY <1>2, <1>3 DEF SynthInTime
<1>9. RepliesTold
  BY <1>1, <1>2, <1>4 DEF RepliesTold, WillKnow
<1>10. TurnsFit
  <2>1. PICK turn : turn = [i \in 0..0 |-> 0]
    OBVIOUS
  <2>2. turn \in [0..Len(events) -> 0..rounds] /\ turn[0] = 0
    BY <1>1, <1>4, <2>1
  <2>3. Calls = {0}
    BY <1>4 DEF Calls
  <2>4. Fits(turn)
    BY <1>1, <1>2, <2>2, <2>3 DEF Fits
  <2>5. Exact(turn)
    BY <1>1, <1>2, <2>2, <2>3 DEF Exact
  <2>. QED  BY <2>2, <2>4, <2>5 DEF TurnsFit
<1>. QED  BY <1>5, <1>6, <1>7, <1>8, <1>9, <1>10 DEF BudgetIndInv

-----------------------------------------------------------------------------
(* What it shows *)

\* With nothing in the channel the only label is the count.
LEMMA LabelsBound ==
  ASSUME TypeOK, ChannelInOrder, TurnsFit
  PROVE  turns <= rounds /\ (~Draining /\ ~lossy => turns = rounds)
<1>0. rounds \in Nat /\ turns \in Nat /\ events \in Seq(EventType)
  BY DEF TypeOK, ChannelInOrder
<1>1. PICK turn \in [0..Len(events) -> 0..rounds] : Fits(turn) /\ (~lossy => Exact(turn))
  BY DEF TurnsFit
<1>2. turn[0] = turns /\ turn[0] \in 0..rounds
  <2>1. Len(events) \in Nat /\ 0 \in 0..Len(events)
    BY <1>0
  <2>. QED  BY <1>1, <2>1 DEF Fits
<1>3. ASSUME ~Draining, ~lossy  PROVE turns = rounds
  <2>1. events = <<>> /\ pc # "calls"
    BY <1>3 DEF ChannelInOrder, Over
  <2>2. Calls = {0}
    BY <2>1 DEF Calls
  <2>3. rounds \in 0..rounds /\ turns <= rounds
    BY <1>0, <1>2
  <2>4. \E i \in Calls : turn[i] = rounds
    BY <1>1, <1>3, <2>1, <2>3 DEF Exact
  <2>. QED  BY <1>2, <2>2, <2>4
<1>. QED  BY <1>0, <1>2, <1>3

LEMMA LabelsBoundNext ==
  ASSUME TypeOK', ChannelInOrder', TurnsFit'  PROVE turns' <= rounds'
<1>1. (TypeOK /\ ChannelInOrder /\ TurnsFit => turns <= rounds)'
  BY LabelsBound, PTL
<1>. QED  BY <1>1

\* The call of a sub-agent, for every budget and channel: the turns counted by
\* drainSubAgentEvents never exceed the rounds the sub-agent's loop has started and equal
\* them in the end when no event was lost, the loop stays within its own cap, the error
\* of a doubly exceeded budget follows a request for a synthesis, and the drain ends with
\* an empty channel and the run's last reply.
THEOREM BudgetKept == Spec => []BudgetInv
<1>1. BudgetIndInv => BudgetInv
  <2>. SUFFICES ASSUME BudgetIndInv  PROVE BudgetInv
    OBVIOUS
  <2>0. TypeOK /\ RunCounts /\ ChannelInOrder /\ SynthInTime /\ TurnsFit /\ RepliesTold
    BY DEF BudgetIndInv
  <2>1. TurnsCounted
    BY <2>0, LabelsBound DEF TurnsCounted
  <2>2. BackstopHolds
    <3>1. rounds \in 0..MaxIter /\ MaxIter \in Nat
      BY <2>0, BudgetAssumption DEF TypeOK, MaxIter
    <3>. QED  BY <2>0, <3>1 DEF BackstopHolds, SynthInTime
  <2>3. DrainedToTheEnd
    <3>1. ASSUME ~Draining  PROVE events = <<>> /\ pc \in Over
      BY <2>0, <3>1 DEF ChannelInOrder
    <3>2. ASSUME ~Draining, ~lossy  PROVE lastNode = replies
      <4>1. WillKnow(replies) /\ DOMAIN events = {}
        BY <2>0, <3>1, <3>2 DEF RepliesTold, Over
      <4>. QED  BY <4>1 DEF WillKnow
    <3>. QED  BY <3>1, <3>2 DEF DrainedToTheEnd
  <2>. QED  BY <2>0, <2>1, <2>2, <2>3 DEF BudgetInv
<1>. QED  BY <1>1, BudgetInit, BudgetStep, PTL DEF Spec

\* A step of the drain that cancels the sub-agent finds its count above the budget.
LEMMA OnlyOverBudget ==
  ASSUME BudgetIndInv, Next, ~cancelled, cancelled'  PROVE CallerCancels \/ rounds > MaxTurns
<1>0. TypeOK /\ RunCounts /\ ChannelInOrder /\ MaxTurns \in Nat
  BY BudgetAssumption DEF BudgetIndInv
<1>1. CASE SilentRun \/ Sends
  BY <1>0, <1>1, RunKeepsCounts
<1>2. CASE SilentDrain
  BY <1>2 DEF SilentDrain, SeeDoneCh, FallbackEmpty, SeeClosed, Synthesize, NoSynthesis, Returns, Leaves
<1>3. CASE OnText \/ OnUsage \/ OnDone
  BY <1>3 DEF OnText, OnUsage, OnDone
<1>4. CASE OnCall
  <2>1. turns' > MaxTurns
    <3>1. cancelled' = (cancelled \/ (turns' > MaxTurns + 1 /\ stage = "drain")
                                  \/ (stage = "drain" /\ turns' > MaxTurns /\ ~synth))
      BY <1>4, Zenon DEF OnCall
    <3>2. turns' > MaxTurns + 1 \/ turns' > MaxTurns
      BY <3>1, Zenon
    <3>3. turns' \in Nat
      BY NextKeepsBudget DEF BudgetIndInv, TypeOK
    <3>. QED  BY <1>0, <3>2, <3>3
  <2>2. turns' <= rounds'
    BY NextKeepsBudget, LabelsBoundNext DEF BudgetIndInv
  <2>3. rounds' = rounds /\ rounds \in Nat /\ turns' \in Nat
    BY <1>0, <1>4, NextKeepsBudget DEF OnCall, Take, runVars, TypeOK, BudgetIndInv
  <2>. QED  BY <1>0, <2>1, <2>2, <2>3
<1>. QED  BY <1>1, <1>2, <1>3, <1>4, NextKinds DEF Takes

\* drainSubAgentEvents cancels a sub-agent only when that has started the calls of more
\* replies than its mode has turns: no dropped, late or repeated event cuts it short.
THEOREM NobodyCutShort == Spec => NeverCutShort
<1>1. BudgetIndInv /\ [Next]_vars => [~cancelled /\ cancelled' => CallerCancels \/ rounds > MaxTurns]_vars
  BY OnlyOverBudget
<1>. QED  BY <1>1, BudgetInit, BudgetStep, PTL DEF Spec, NeverCutShort
=============================================================================
