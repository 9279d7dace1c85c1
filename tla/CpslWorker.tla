----------------------------- MODULE CpslWorker -----------------------------
(***************************************************************************)
(* The sandbox worker process and its client (cpsl_client.go,              *)
(* cpsl_worker.go): requests and answers are lines of two pipes, calls     *)
(* take turns under the client's lock, both sides time a request, and the  *)
(* first thing that goes wrong ends the worker for good.  The calls come   *)
(* from tools of several agents and from the shell; one more, the probe,   *)
(* is made by the start-up (background.go).                                *)
(***************************************************************************)
EXTENDS Naturals, Sequences, FiniteSets

CONSTANTS
  Callers, \* calls, each made once
  Probe    \* the call of NewCPSLWorkerClient

LockFree == "free"

ASSUME CpslAssumption ==
  /\ IsFiniteSet(Callers) /\ Probe \notin Callers
  /\ LockFree \notin Callers \cup {Probe}

VARIABLES
  worker,   \* the process: "off", "idle", "busy", "exiting", "gone"
  toWorker, \* stdin: numbers of requests on their way
  toClient, \* stdout: answers on their way, [id, says]
  current,  \* the request the worker evaluates
  cpslClient,   \* the application's client: "none", "starting", "ready", "failed", "closed"
  dead,     \* CPSLWorkerClient.dead
  cpslMutex, \* CPSLWorkerClient.mu: who holds it, or LockFree
  nextID,
  callAt,   \* per call: "new", "waiting", "sent", "over"
  requestID, \* per call: the number it was given
  expired,  \* calls whose context is done, by their timer or by the user
  outcome,  \* per call: what it was told, [says, id]
  evaluated \* history: requests the session has worked on to the end

cpslVars == <<worker, toWorker, toClient, current, cpslClient, dead, cpslMutex, nextID, callAt,
              requestID, expired, outcome, evaluated>>
workerVars == <<worker, toWorker, toClient, current, evaluated>>
callVars == <<callAt, requestID, expired, outcome>>

All == Callers \cup {Probe}
Untold == [says |-> "nothing", id |-> 0]
Answers == {"ok", "error", "timeout"}

CpslTypeOK ==
  /\ worker \in {"off", "idle", "busy", "exiting", "gone"} /\ current \in 0..Cardinality(All)
  /\ nextID \in 0..Cardinality(All)
  /\ toWorker \in Seq(1..nextID)
  /\ toClient \in Seq([id : 0..nextID, says : Answers \cup {"torn"}])
  /\ cpslClient \in {"none", "starting", "ready", "failed", "closed"} /\ dead \in BOOLEAN
  /\ cpslMutex \in All \cup {LockFree}
  /\ callAt \in [All -> {"new", "waiting", "sent", "over"}]
  /\ requestID \in [All -> 0..nextID] /\ expired \subseteq All
  /\ outcome \in [All -> [id : 0..nextID, says : Answers \cup {"nothing", "not running", "broken", "late"}]]
  /\ evaluated \subseteq 1..nextID

CpslInit ==
  /\ worker = "off" /\ toWorker = <<>> /\ toClient = <<>> /\ current = 0
  /\ cpslClient = "none" /\ dead = FALSE /\ cpslMutex = LockFree /\ nextID = 0
  /\ callAt = [c \in All |-> "new"] /\ requestID = [c \in All |-> 0]
  /\ expired = {} /\ outcome = [c \in All |-> Untold]
  /\ evaluated = {}

-----------------------------------------------------------------------------
(* The client                                                               *)

\* NewCPSLWorkerClient: the process is started, then probed with a call.
BootWorker ==
  /\ cpslClient = "none" /\ cpslClient' = "starting"
  /\ \/ /\ worker' = "idle"
        /\ callAt' = [callAt EXCEPT ![Probe] = "waiting"] /\ UNCHANGED outcome
     \/ /\ UNCHANGED worker
        /\ callAt' = [callAt EXCEPT ![Probe] = "over"]
        /\ outcome' = [outcome EXCEPT ![Probe].says = "broken"]
  /\ UNCHANGED <<toWorker, toClient, current, evaluated, dead, cpslMutex, nextID, requestID,
                 expired>>

\* cpslReadyMsg or cpslErrMsg; a worker that answered the probe with an error is closed.
BootEnds ==
  /\ cpslClient = "starting" /\ callAt[Probe] = "over"
  /\ IF outcome[Probe].says = "ok"
       THEN cpslClient' = "ready" /\ UNCHANGED <<worker, dead>>
       ELSE /\ cpslClient' = "failed" /\ dead' = TRUE
            /\ worker' = IF worker = "off" THEN "off" ELSE "gone"
  /\ UNCHANGED <<toWorker, toClient, current, evaluated, cpslMutex, nextID, callVars>>

Call(c) ==
  /\ c \in Callers /\ callAt[c] = "new" /\ cpslClient \in {"ready", "closed"}
  /\ callAt' = [callAt EXCEPT ![c] = "waiting"]
  /\ UNCHANGED <<workerVars, cpslClient, dead, cpslMutex, nextID, requestID, expired, outcome>>

Over(c, says, id) ==
  /\ callAt' = [callAt EXCEPT ![c] = "over"]
  /\ outcome' = [outcome EXCEPT ![c] = [says |-> says, id |-> id]]

\* Not the code: the worker lives on after a call was given up.
LeaveAlive == UNCHANGED <<dead, worker>>

\* markDeadLocked: the process is killed and waited for in the background.
MarkDead ==
  /\ dead' = TRUE /\ worker' = "gone"

\* eval, up to the line it writes; nobody looks at the context while it waits for the lock.
SendRequest(c) ==
  /\ callAt[c] = "waiting" /\ cpslMutex = LockFree
  /\ IF dead
       THEN /\ Over(c, "not running", 0)
            /\ UNCHANGED <<workerVars, dead, cpslMutex, nextID, requestID>>
       ELSE /\ nextID' = nextID + 1 /\ requestID' = [requestID EXCEPT ![c] = nextID + 1]
            /\ \/ /\ worker # "gone" /\ toWorker' = Append(toWorker, nextID + 1)
                  /\ cpslMutex' = c /\ callAt' = [callAt EXCEPT ![c] = "sent"]
                  /\ UNCHANGED <<outcome, dead, worker>>
               \/ /\ worker \in {"exiting", "gone"} /\ MarkDead /\ Over(c, "broken", 0)
                  /\ UNCHANGED <<toWorker, cpslMutex>>
            /\ UNCHANGED <<toClient, current, evaluated>>
  /\ UNCHANGED <<cpslClient, expired>>

\* The timer of a call that was sent, or a cancel at any time; the probe is not cancelled.
ContextDone(c) ==
  /\ c \notin expired
  /\ callAt[c] = "sent" \/ (callAt[c] = "waiting" /\ c # Probe)
  /\ expired' = expired \cup {c}
  /\ UNCHANGED <<workerVars, cpslClient, dead, cpslMutex, nextID, callAt, requestID, outcome>>

\* Not the code: the lock is kept when a call is given up.
GiveUpLocked(c) ==
  /\ callAt[c] = "sent" /\ c \in expired
  /\ MarkDead /\ Over(c, "late", 0)
  /\ UNCHANGED <<toWorker, toClient, current, evaluated, cpslClient, cpslMutex, nextID, requestID,
                 expired>>

\* The context is done; an answer may be there as well.
GiveUp(c) ==
  /\ callAt[c] = "sent" /\ c \in expired
  /\ MarkDead /\ Over(c, "late", 0) /\ cpslMutex' = LockFree
  /\ UNCHANGED <<toWorker, toClient, current, evaluated, cpslClient, nextID, requestID, expired>>

\* Not the code: any line is the answer to the call that waits.
DecodesAny(c, line) == line.says # "torn"

\* decodeCPSLEvalResponse
Decodes(c, line) == line.says # "torn" /\ line.id = requestID[c]

\* A line, or the end of the pipe.  An answer that says it timed out ends the worker too.
Receive(c) ==
  /\ callAt[c] = "sent" /\ cpslMutex' = LockFree
  /\ \/ /\ toClient # <<>> /\ Decodes(c, Head(toClient))
        /\ Over(c, Head(toClient).says, Head(toClient).id)
        /\ IF Head(toClient).says = "timeout" THEN MarkDead ELSE UNCHANGED <<dead, worker>>
        /\ toClient' = Tail(toClient)
     \/ /\ toClient # <<>> /\ ~Decodes(c, Head(toClient))
        /\ MarkDead /\ Over(c, "broken", 0) /\ toClient' = Tail(toClient)
     \/ /\ toClient = <<>> /\ worker = "gone"
        /\ MarkDead /\ Over(c, "broken", 0) /\ UNCHANGED toClient
  /\ UNCHANGED <<toWorker, current, evaluated, cpslClient, nextID, requestID, expired>>

\* cleanup closes the client; it waits for the call under way, and kills after a second.
CloseClient ==
  /\ cpslClient = "ready" /\ cpslMutex = LockFree
  /\ cpslClient' = "closed" /\ dead' = TRUE
  /\ worker' = IF dead THEN worker ELSE "gone"
  /\ UNCHANGED <<toWorker, toClient, current, evaluated, cpslMutex, nextID, callVars>>

-----------------------------------------------------------------------------
(* The worker                                                               *)

TakeRequest ==
  /\ worker = "idle" /\ toWorker # <<>>
  /\ worker' = "busy" /\ current' = Head(toWorker) /\ toWorker' = Tail(toWorker)
  /\ UNCHANGED <<toClient, evaluated, cpslClient, dead, cpslMutex, nextID, callVars>>

Say(says) == toClient' = Append(toClient, [id |-> current, says |-> says])

\* The library (external) may answer, fail, or never come back.
Answer ==
  /\ worker = "busy" /\ worker' = "idle" /\ current' = 0
  /\ \E says \in Answers : Say(says)
  /\ evaluated' = evaluated \cup {current}
  /\ UNCHANGED <<toWorker, cpslClient, dead, cpslMutex, nextID, callVars>>

\* The library shares the worker's standard output and may write a line of its own.
LibraryPrints ==
  /\ worker = "busy" /\ toClient = <<>>
  /\ toClient' = <<[id |-> 0, says |-> "ok"]>>
  /\ UNCHANGED <<worker, toWorker, current, evaluated, cpslClient, dead, cpslMutex, nextID, callVars>>

\* The worker's own timer: it says so and exits, with the evaluation still running.
AnswerTimeout ==
  /\ worker = "busy" /\ worker' = "exiting" /\ current' = 0
  /\ Say("timeout")
  /\ UNCHANGED <<toWorker, evaluated, cpslClient, dead, cpslMutex, nextID, callVars>>

WorkerExits ==
  /\ worker = "exiting" /\ worker' = "gone"
  /\ UNCHANGED <<toWorker, toClient, current, evaluated, cpslClient, dead, cpslMutex, nextID, callVars>>

\* The library takes the process down, perhaps in the middle of a line.
WorkerCrashes ==
  /\ worker \in {"idle", "busy"} /\ worker' = "gone" /\ current' = 0
  /\ \/ toClient' = toClient
     \/ toClient' = Append(toClient, [id |-> 0, says |-> "torn"])
  /\ UNCHANGED <<toWorker, evaluated, cpslClient, dead, cpslMutex, nextID, callVars>>

CpslNext ==
  \/ BootWorker \/ BootEnds \/ CloseClient
  \/ TakeRequest \/ Answer \/ LibraryPrints \/ AnswerTimeout \/ WorkerExits \/ WorkerCrashes
  \/ \E c \in All : Call(c) \/ SendRequest(c) \/ ContextDone(c) \/ GiveUp(c) \/ Receive(c)

\* Goroutines go on, a lock that is free again and again is got, and every request has a
\* timer; neither the library nor a caller is asked for anything.
CpslSpec ==
  /\ CpslInit /\ [][CpslNext]_cpslVars
  /\ WF_cpslVars(BootEnds)
  /\ \A c \in All : /\ SF_cpslVars(SendRequest(c)) /\ WF_cpslVars(GiveUp(c))
                    /\ WF_cpslVars(ContextDone(c) /\ callAt[c] = "sent")

-----------------------------------------------------------------------------
(* Properties *)

\* A call that is told that it worked has been worked on: no late line, and no line the
\* library prints, is taken for its answer.
OwnAnswer ==
  \A c \in All : outcome[c].says = "ok" =>
    outcome[c].id = requestID[c] /\ requestID[c] \in evaluated

\* The session is one: no request is on its way or evaluated but that of the call that holds
\* the lock, so that commands of several agents never run at the same time in one session.
OneRequestAtATime ==
  worker \in {"idle", "busy"} =>
    /\ Len(toWorker) + (IF worker = "busy" THEN 1 ELSE 0) <= 1
    /\ worker = "busy" => cpslMutex # LockFree /\ requestID[cpslMutex] = current

\* A call whose request was sent comes back, whatever the worker does, and so does one that
\* waits behind others.
CallsComeBack == \A c \in All : callAt[c] = "waiting" ~> callAt[c] = "over"

\* The session serves one request at a time and every caller its own.
CpslInv == CpslTypeOK /\ OwnAnswer /\ OneRequestAtATime
=============================================================================
