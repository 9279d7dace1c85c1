------------------------------- MODULE Trace -------------------------------
(***************************************************************************)
(* The debug trace (trace.go): the collector that groups an agent's events *)
(* into responses, the application that feeds it (agentui.go               *)
(* handleAgentEvent), a sub-agent with a collector of its own              *)
(* (subagent_drain.go), and the file every response is flushed to.  Events *)
(* reach the application in the order they are emitted, or not at all when *)
(* the channel is full, so one is taken when it is emitted or is lost.     *)
(***************************************************************************)
EXTENDS Naturals, Sequences, FiniteSets, FiniteSetsExt, SequencesExt

CONSTANTS
  MaxText,     \* bound: pieces of streamed text
  MaxCalls,    \* bound: tool calls
  MaxAnswers,  \* bound: requests of the main agent, and answers to the sub-agent
  MaxTraces,   \* bound: collectors the application makes
  MaxLost      \* bound: events that are lost and flushes that fail

ASSUME TraceAssumption == {MaxText, MaxCalls, MaxAnswers, MaxTraces, MaxLost} \subseteq Nat

VARIABLES
  app,        \* App.traceCollector: <<>>, or <<collector>>
  own,        \* the sub-agent's collector, likewise
  traceUsageSeen,
  ownSeen,    \* usageSeen of the sub-agent's drain
  phase,      \* the main agent: "idle", "asked", "answered"
  sub,        \* the sub-agent: "none", "runs", "fallback" (its drain after doneCh), "done"
  running,    \* calls that have started and not ended, <<call, agent>>
  file,       \* what a reader of the trace file finds
  behind,     \* the last flush failed
  count,      \* [text, calls, asks, answers, traces] so far
  lost,       \* how many events and flushes were
  heard       \* history: what each collector was told, [text, asked, ended], of the app and of the sub

traceVars == <<app, own, traceUsageSeen, ownSeen, phase, sub, running, file, behind, count, lost, heard>>

Main == "main"
Sub == "sub"
Speakers == {Main, Sub}

-----------------------------------------------------------------------------
(* The collector                                                            *)

Turn(a) == [agent |-> a, text |-> <<>>, usages |-> 0, calls |-> {}]

NewTraceCollector ==
  [events |-> <<>>, currentTurn |-> [a \in Speakers |-> <<>>], pendingTools |-> {}, subs |-> <<>>]

EnsureTurn(tc, a) ==
  IF tc.currentTurn[a] # <<>> THEN tc ELSE [tc EXCEPT !.currentTurn[a] = <<Turn(a)>>]

Says(turn, piece) == [turn EXCEPT !.text = Append(@, piece)]
AddTextDelta(tc, a, piece) == [EnsureTurn(tc, a) EXCEPT !.currentTurn[a] = <<Says(@[1], piece)>>]

\* SetUsage overwrites the usage of the turn; usages counts how often.
Uses(turn) == [turn EXCEPT !.usages = @ + 1]
SetUsage(tc, a) == [EnsureTurn(tc, a) EXCEPT !.currentTurn[a] = <<Uses(@[1])>>]

StartToolCall(tc, a, c) == [EnsureTurn(tc, a) EXCEPT !.pendingTools = @ \cup {<<c, a>>}]

\* A call without a turn of its agent is in the totals and in no event.
EndToolCall(tc, c) ==
  LET mine == {p \in tc.pendingTools : p[1] = c}
      attached == [a \in Speakers |->
                     IF <<c, a>> \in mine /\ tc.currentTurn[a] # <<>>
                     THEN <<[tc.currentTurn[a][1] EXCEPT !.calls = @ \cup {c}]>>
                     ELSE tc.currentTurn[a]]
  IN [tc EXCEPT !.pendingTools = @ \ mine, !.currentTurn = attached]

\* Not the code: a turn without usage is taken for one that never came.
FinalizeAnswered(tc, a) ==
  [tc EXCEPT !.events = @ \o SelectSeq(tc.currentTurn[a], LAMBDA turn : turn.usages > 0),
             !.currentTurn[a] = <<>>]

FinalizeTurn(tc, a) == [tc EXCEPT !.events = @ \o tc.currentTurn[a], !.currentTurn[a] = <<>>]

Finalize(tc) == FinalizeTurn(FinalizeTurn(tc, Sub), Main)

\* Not the code: a snapshot of the events alone.
FinishedTurns(tc) == tc.events

\* buildTraceLocked, with the turns in progress.
BuildTrace(tc) == tc.events \o tc.currentTurn[Main] \o tc.currentTurn[Sub]

\* Not the code: what is in progress is left out.
BuildSubAgentEarly(tc) == tc.events

BuildSubAgentEvent(tc) == Finalize(tc).events

-----------------------------------------------------------------------------
(* The application                                                          *)

TraceTypeOK ==
  /\ Len(app) <= 1 /\ Len(own) <= 1
  /\ {traceUsageSeen, ownSeen, behind} \subseteq BOOLEAN
  /\ phase \in {"idle", "asked", "answered"} /\ sub \in {"none", "runs", "fallback", "done"}
  /\ running \subseteq (1..MaxCalls) \X Speakers
  /\ \A i \in DOMAIN app : \A a \in Speakers : Len(app[i].currentTurn[a]) <= 1

Nothing == [a \in Speakers |-> <<>>]
NothingHeard == [text |-> Nothing, ended |-> {}, asked |-> {}]

TraceInit ==
  /\ app \in {<<>>, <<NewTraceCollector>>} /\ own = <<>>
  /\ traceUsageSeen = FALSE /\ ownSeen = FALSE
  /\ phase = "idle" /\ sub = "none" /\ running = {}
  /\ file = <<>> /\ behind = FALSE
  /\ count = [text |-> 0, calls |-> 0, asks |-> 0, answers |-> 0, traces |-> 1]
  /\ lost = 0 /\ heard = [app |-> NothingHeard, own |-> NothingHeard]

\* FlushToFile replaces the file by renaming, or leaves it.
Flush(tc) ==
  \/ file' = BuildTrace(tc) /\ behind' = FALSE /\ UNCHANGED lost
  \/ behind' = TRUE /\ UNCHANGED file /\ lost < MaxLost /\ lost' = lost + 1

NoFlush == UNCHANGED <<file, behind, lost>>
\* The event is lost, or there is no trace.
Unheard ==
  /\ \/ app = <<>> /\ UNCHANGED lost
     \/ lost < MaxLost /\ lost' = lost + 1
  /\ UNCHANGED <<app, traceUsageSeen, file, behind, heard>>

\* What a collector is told.  Of a call whose start it has not heard the end means nothing to it.
TextHeard(told, a) == [told EXCEPT !.text[a] = Append(@, count'.text)]
CallHeard(told) == [told EXCEPT !.asked = @ \cup {count'.calls}]
EndHeard(told, c) == [told EXCEPT !.ended = @ \cup ({c} \cap told.asked)]

Counts(what, most) == count[what] < most /\ count' = [count EXCEPT ![what] = @ + 1]

\* EventLLMStart
LLMStart ==
  \/ /\ app # <<>> /\ app' = <<EnsureTurn(app[1], Main)>>
     /\ UNCHANGED <<traceUsageSeen, file, behind, lost, heard>>
  \/ Unheard

ModelAsked ==
  /\ phase \in {"idle", "answered"} /\ phase' = "asked" /\ Counts("asks", MaxAnswers)
  /\ \A p \in running : p[2] # Main
  /\ LLMStart
  /\ UNCHANGED <<own, ownSeen, sub, running>>

\* EventTextDelta.  EventStreamClear leaves the turn as it is, so a retried response goes on in it.
Text ==
  /\ phase = "asked" /\ Counts("text", MaxText)
  /\ \/ /\ app # <<>>
        /\ LET tc == IF traceUsageSeen THEN FinalizeTurn(app[1], Main) ELSE app[1]
           IN app' = <<AddTextDelta(tc, Main, count'.text)>>
        /\ heard' = [heard EXCEPT !.app = TextHeard(@, Main)]
        /\ traceUsageSeen' = FALSE /\ NoFlush
     \/ Unheard
  /\ UNCHANGED <<own, ownSeen, phase, sub, running>>

\* EventUsage, of the main agent or forwarded by a sub-agent's drain.
TakeUsage(a) ==
  \/ /\ app # <<>>
     /\ LET tc == IF traceUsageSeen THEN FinalizeTurn(app[1], a) ELSE app[1]
            told == SetUsage(tc, a)
        IN app' = <<told>> /\ Flush(told)
     /\ traceUsageSeen' = (a = Main) /\ UNCHANGED heard
  \/ /\ app = <<>> /\ traceUsageSeen' = (traceUsageSeen \/ a = Main)
     /\ UNCHANGED <<app, file, behind, lost, heard>>
  \/ Unheard

Answered ==
  /\ phase = "asked" /\ phase' = "answered"
  /\ TakeUsage(Main)
  /\ UNCHANGED <<own, ownSeen, sub, running, count>>

\* EventToolCallStart; calls of the agent tool run at the same time.
ToolStarts ==
  /\ phase = "answered" /\ Counts("calls", MaxCalls)
  /\ running' = running \cup {<<count'.calls, Main>>}
  /\ \/ /\ app # <<>> /\ app' = <<StartToolCall(app[1], Main, count'.calls)>>
        /\ UNCHANGED <<traceUsageSeen, file, behind, lost>>
        /\ heard' = [heard EXCEPT !.app = CallHeard(@)]
     \/ Unheard
  /\ UNCHANGED <<own, ownSeen, phase, sub>>

\* EventToolResult
ToolEnds ==
  \E p \in running :
    /\ p[2] = Main /\ running' = running \ {p}
    /\ \/ /\ app # <<>>
          /\ LET told == EndToolCall(app[1], p[1]) IN app' = <<told>> /\ Flush(told)
          /\ heard' = [heard EXCEPT !.app = EndHeard(@, p[1])]
          /\ UNCHANGED traceUsageSeen
       \/ Unheard
    /\ UNCHANGED <<own, ownSeen, phase, sub, count>>

\* finalizeAgentTurn.  A run that is cancelled while it waits for an approval leaves its call open.
TurnEnds ==
  /\ phase # "idle" /\ phase' = "idle"
  /\ running' = {p \in running : p[2] = Sub}
  /\ traceUsageSeen' = FALSE
  /\ \/ app # <<>> /\ app' = <<Finalize(app[1])>> /\ Flush(app'[1])
     \/ app = <<>> /\ UNCHANGED <<app, file, behind, lost>>
  /\ UNCHANGED <<own, ownSeen, sub, count, heard>>

\* initAppDebugLog: a collector and a file of its own.
NewTrace ==
  /\ Counts("traces", MaxTraces)
  /\ app' = <<NewTraceCollector>> /\ file' = <<>> /\ behind' = FALSE
  /\ heard' = [heard EXCEPT !.app = NothingHeard]

\* The finished trace is written and let go.
LetGo == app' = <<>> /\ file' = <<>> /\ behind' = FALSE /\ heard' = [heard EXCEPT !.app = NothingHeard]

\* /clear, in the middle of a turn too: the old trace is finished, and a new one begun when
\* its directory can be made.
Clear ==
  /\ app # <<>>
  /\ \/ NewTrace
     \/ LetGo /\ UNCHANGED count
  /\ UNCHANGED <<own, traceUsageSeen, ownSeen, phase, sub, running, lost>>

\* exitConfigMode with debug mode switched.
Toggle ==
  /\ \/ app = <<>> /\ NewTrace
     \/ app # <<>> /\ LetGo /\ UNCHANGED count
  /\ UNCHANGED <<own, traceUsageSeen, ownSeen, phase, sub, running, lost>>

-----------------------------------------------------------------------------
(* The sub-agent                                                            *)

SubUnseen == UNCHANGED <<app, traceUsageSeen, phase, file, behind, lost>>

SubStarts ==
  /\ sub = "none" /\ \E p \in running : p[2] = Main
  /\ sub' = "runs" /\ own' = <<NewTraceCollector>> /\ ownSeen' = FALSE
  /\ UNCHANGED <<running, count, heard>> /\ SubUnseen

\* Once doneCh is closed, usageSeen is neither read nor set.
SubText ==
  /\ sub \in {"runs", "fallback"} /\ Counts("text", MaxText)
  /\ LET ends == sub = "runs" /\ ownSeen
         tc == IF ends THEN FinalizeTurn(own[1], Sub) ELSE own[1]
     IN own' = <<AddTextDelta(tc, Sub, count'.text)>> /\ ownSeen' = (ownSeen /\ ~ends)
  /\ heard' = [heard EXCEPT !.own = TextHeard(@, Sub)]
  /\ UNCHANGED <<sub, running>> /\ SubUnseen

SubAnswered ==
  /\ sub \in {"runs", "fallback"} /\ Counts("answers", MaxAnswers)
  /\ own' = <<SetUsage(own[1], Sub)>> /\ ownSeen' = (ownSeen \/ sub = "runs")
  /\ TakeUsage(Sub)
  /\ UNCHANGED <<phase, sub, running>>

SubToolStarts ==
  /\ sub \in {"runs", "fallback"} /\ Counts("calls", MaxCalls)
  /\ own' = <<StartToolCall(own[1], Sub, count'.calls)>>
  /\ running' = running \cup {<<count'.calls, Sub>>}
  /\ heard' = [heard EXCEPT !.own = CallHeard(@)]
  /\ UNCHANGED <<ownSeen, sub>> /\ SubUnseen

SubToolEnds ==
  \E p \in running :
    /\ p[2] = Sub /\ running' = running \ {p}
    /\ own' = <<EndToolCall(own[1], p[1])>>
    /\ heard' = [heard EXCEPT !.own = EndHeard(@, p[1])]
    /\ UNCHANGED <<ownSeen, sub, count>> /\ SubUnseen

DoneChFires ==
  /\ sub = "runs" /\ sub' = "fallback"
  /\ UNCHANGED <<own, ownSeen, running, count, heard>> /\ SubUnseen

\* The drain ends, and its trace goes into the application's as one event.
SubEnds ==
  /\ sub \in {"runs", "fallback"} /\ sub' = "done"
  /\ running' = {p \in running : p[2] = Main}
  /\ \/ app # <<>> /\ app' = <<[app[1] EXCEPT !.subs = Append(@, BuildSubAgentEvent(own[1]))]>>
        /\ UNCHANGED lost
     \/ app = <<>> /\ UNCHANGED <<app, lost>>
     \/ lost < MaxLost /\ lost' = lost + 1 /\ UNCHANGED app
  /\ UNCHANGED <<own, ownSeen, traceUsageSeen, phase, file, behind, count, heard>>

TraceNext ==
  \/ ModelAsked \/ Text \/ Answered \/ ToolStarts \/ ToolEnds \/ TurnEnds \/ Clear \/ Toggle
  \/ SubStarts \/ SubText \/ SubAnswered \/ SubToolStarts \/ SubToolEnds \/ DoneChFires \/ SubEnds

TraceSpec == TraceInit /\ [][TraceNext]_traceVars

-----------------------------------------------------------------------------
(* Properties *)

TextOf(turns, a) ==
  FlattenSeq([i \in DOMAIN turns |-> IF turns[i].agent = a THEN turns[i].text ELSE <<>>])

\* The turns hold, per agent and in order, all the text that was told.
HasText(turns, told) == \A a \in Speakers : TextOf(turns, a) = told.text[a]

\* Every finished call is in exactly one turn.
HasCalls(turns, told) ==
  /\ UNION {turns[i].calls : i \in DOMAIN turns} = told.ended
  /\ \A i, j \in DOMAIN turns : i # j => turns[i].calls \cap turns[j].calls = {}

\* Whatever is lost on the way, a trace has all the text the application was told, in order,
\* and every call it saw start and end exactly once, whoever else ended a turn in between.
ToldIsTraced ==
  app # <<>> => HasText(BuildTrace(app[1]), heard.app) /\ HasCalls(BuildTrace(app[1]), heard.app)

\* A sub-agent's trace, when it is handed over, is whole: no text and no finished call is
\* missing, also when its drain ended by doneCh.
SubTraceWhole ==
  \A i \in DOMAIN app : \A j \in DOMAIN app[i].subs :
    HasText(app[i].subs[j], heard.own) /\ HasCalls(app[i].subs[j], heard.own)

\* The file is fit to read after a crash: every finished call and every usage that the
\* collector has is in it, unless the last flush failed.
Usages(turns) ==
  LET upTo[n \in 0..Len(turns)] == IF n = 0 THEN 0 ELSE upTo[n - 1] + turns[n].usages
  IN upTo[Len(turns)]
FileFollows ==
  app # <<>> /\ ~behind =>
    /\ HasCalls(file, heard.app)
    /\ Usages(file) = Usages(BuildTrace(app[1]))

\* The three forms of a trace, in memory, handed over and on disk, hold what was told.
TraceInv == TraceTypeOK /\ ToldIsTraced /\ SubTraceWhole /\ FileFollows

-----------------------------------------------------------------------------
(* Statements the code does not keep *)

\* "The turn is finalized when the next turn starts or on Finalize()": with no event lost, no
\* turn of the main agent is given the usage of two of its responses.
OneResponseEach ==
  app # <<>> /\ lost = 0 =>
    LET turns == BuildTrace(app[1])
    IN \A i \in DOMAIN turns : turns[i].agent = Main => turns[i].usages <= 1
=============================================================================
