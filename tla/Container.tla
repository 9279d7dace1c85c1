----------------------------- MODULE Container -----------------------------
(***************************************************************************)
(* The Docker container of a session (container.go) and everything that    *)
(* uses its client at the same time: the start-up goroutine with its       *)
(* retries and its image (background.go), the tool calls of parallel       *)
(* sub-agents (exec, and the rebuild of the devenv tool), the goroutine of *)
(* a worktree switch (commands.go), and the clean-up at exit.  The client  *)
(* holds its lock while docker runs a new container, but not while docker  *)
(* removes one or executes a command.  Docker itself is external: a        *)
(* command succeeds, or fails and may still have done its work.            *)
(***************************************************************************)
EXTENDS Naturals, Sequences, FiniteSets

CONSTANTS
  Tools,      \* tool calls that may be under way at the same time
  Dirs,       \* workspaces: where herm was started, and worktrees
  Home,       \* where it was started
  Custom,     \* Dockerfiles on the herm base that differ from the template
  MaxRuns,    \* bound: containers docker creates
  MaxWrites   \* bound: Dockerfiles written

ASSUME ContainerAssumption ==
  /\ Home \in Dirs
  /\ MaxRuns \in Nat /\ MaxWrites \in Nat
  /\ {"boot", "switch", "exit", "free"} \cap Tools = {}
  /\ "none" \notin Dirs /\ {"default"} \cap Custom = {}

VARIABLES
  dockerUp,   \* the docker daemon answers
  containers, \* docker: the containers ever created, the i-th with id i
  dockerfile, \* .herm/Dockerfile: "absent", "base", "foreign" or a custom one
  writes,     \* bound's counter
  client,     \* ContainerClient: running, containerID, config.Image, workDir
  lock,       \* ContainerClient.mu, held while docker runs a container
  pc,         \* where each goroutine stands
  target,     \* the id it has read before it let the lock go
  image,      \* the image it builds
  boot,       \* bootContainerCmd's own position
  mail,       \* what the goroutines have put into App.resultCh
  ready,      \* App.containerReady
  broken,     \* App.containerErr
  attached,   \* App.container is set
  worktree,   \* App.worktreePath
  switchDir,  \* the workspace a switch restarts the container with
  toolDir     \* the workspace of the turn's container tools; NoTools without them

dockerVars == <<dockerUp, containers, dockerfile, writes>>
procVars == <<pc, target, image>>
appVars == <<mail, ready, broken, attached, worktree, switchDir, toolDir>>
vars == <<dockerVars, client, lock, procVars, boot, appVars>>

NoId == 0
NoTools == "none"
Free == "free"
Proc == Tools \cup {"boot", "switch", "exit"}
Image == Custom \cup {"default"}
Ids == 0..MaxRuns
Alive == {i \in DOMAIN containers : containers[i].alive}

\* The workspace a goroutine gives to Start.
DirOf(p) ==
  CASE p \in Tools -> toolDir [] p = "switch" -> switchDir [] OTHER -> Home

Goto(p, where) == pc' = [pc EXCEPT ![p] = where]

ContainerTypeOK ==
  /\ dockerUp \in BOOLEAN /\ writes \in 0..MaxWrites
  /\ containers \in Seq([dir : Dirs, image : Image, alive : BOOLEAN])
  /\ Len(containers) <= MaxRuns
  /\ dockerfile \in {"absent", "base", "foreign"} \cup Custom
  /\ client \in [running : BOOLEAN, id : Ids, image : Image, dir : Dirs]
  /\ lock \in Proc \cup {Free}
  /\ pc \in [Proc -> {"idle", "exec", "stop", "rm", "forget", "build", "look", "rebuildRm",
                      "rebuildForget", "setImage", "start", "run", "started", "failed",
                      "over"}]
  /\ target \in [Proc -> Ids] /\ image \in [Proc -> Image]
  /\ boot \in {"checking", "retrying", "image", "pull", "starting", "done"}
  /\ mail \in Seq({"ready", "bootReady", "error", "retry", "recovered"})
  /\ {ready, broken, attached} \subseteq BOOLEAN
  /\ worktree \in Dirs /\ switchDir \in Dirs /\ toolDir \in Dirs \cup {NoTools}

Init ==
  /\ dockerUp \in BOOLEAN
  /\ containers = <<>>
  /\ dockerfile \in {"absent", "base", "foreign"} \cup Custom
  /\ writes = 0
  /\ client = [running |-> FALSE, id |-> NoId, image |-> "default", dir |-> Home]
  /\ lock = Free
  /\ pc = [p \in Proc |-> "idle"]
  /\ target = [p \in Proc |-> NoId]
  /\ image = [p \in Proc |-> "default"]
  /\ boot = "checking"
  /\ mail = <<>>
  /\ ready = FALSE /\ broken = FALSE /\ attached = FALSE
  /\ worktree = Home /\ switchDir = Home /\ toolDir = NoTools

Exited == pc["exit"] = "over"
Up == ~Exited
Quitting == pc["exit"] # "idle"

-----------------------------------------------------------------------------
(* Docker, outside the program.                                             *)

\* Once the start-up has found it, an outage shows only as commands that fail.
DockerComesAndGoes ==
  /\ Up /\ boot \in {"checking", "retrying"}
  /\ dockerUp' = ~dockerUp
  /\ UNCHANGED <<containers, dockerfile, writes, client, lock, procVars, boot, appVars>>

Remove(i) ==
  containers' = [j \in DOMAIN containers |->
                  IF j = i THEN [containers[j] EXCEPT !.alive = FALSE] ELSE containers[j]]

\* docker rm -f: its error is ignored, so a container it could not remove stays.
RemoveOrNot(i) == Remove(i) \/ UNCHANGED containers

-----------------------------------------------------------------------------
(* Start                                                                    *)

\* The lock is taken for the whole call, unless the client says it is running.
StartLocks(p) ==
  /\ Up /\ pc[p] = "start" /\ lock = Free
  /\ IF client.running
       THEN Goto(p, "failed") /\ UNCHANGED lock
       ELSE Goto(p, "run") /\ lock' = p
  /\ UNCHANGED <<dockerVars, client, target, image, boot, appVars>>

NewContainer(p) == [dir |-> DirOf(p), image |-> client.image, alive |-> TRUE]

DockerRuns(p) ==
  /\ Up /\ pc[p] = "run" /\ Len(containers) < MaxRuns
  /\ containers' = Append(containers, NewContainer(p))
  /\ client' = [client EXCEPT !.running = TRUE, !.id = Len(containers'), !.dir = DirOf(p)]
  /\ lock' = Free
  /\ Goto(p, "started")
  /\ UNCHANGED <<dockerUp, dockerfile, writes, target, image, boot, appVars>>

\* docker run fails or is cut off after 120s: a container may have been created.
DockerRunFails(p) ==
  /\ Up /\ pc[p] = "run"
  /\ \/ UNCHANGED containers
     \/ /\ Len(containers) < MaxRuns
        /\ containers' = Append(containers, NewContainer(p))
  /\ lock' = Free
  /\ Goto(p, "failed")
  /\ UNCHANGED <<dockerUp, dockerfile, writes, client, target, image, boot, appVars>>

-----------------------------------------------------------------------------
(* Exec and Stop                                                            *)

\* Exec and ExecWithStdin: the id is read under the lock and used after it.
ExecReads(p) ==
  /\ Up /\ p \in Tools /\ pc[p] = "idle" /\ toolDir # NoTools /\ lock = Free
  /\ client.running
  /\ target' = [target EXCEPT ![p] = client.id]
  /\ Goto(p, "exec")
  /\ UNCHANGED <<dockerVars, client, lock, image, boot, appVars>>

ExecEnds(p) ==
  /\ Up /\ pc[p] = "exec"
  /\ target' = [target EXCEPT ![p] = NoId]
  /\ Goto(p, "idle")
  /\ UNCHANGED <<dockerVars, client, lock, image, boot, appVars>>

\* Where a goroutine goes after Stop: a switch starts again, an exit is over.
AfterStop(p) == IF p = "switch" THEN "start" ELSE "over"

StopReads(p) ==
  /\ Up /\ pc[p] = "stop" /\ lock = Free
  /\ target' = [target EXCEPT ![p] = client.id]
  /\ Goto(p, IF client.running THEN "rm" ELSE AfterStop(p))
  /\ UNCHANGED <<dockerVars, client, lock, image, boot, appVars>>

StopRemoves(p) ==
  /\ Up /\ pc[p] = "rm"
  /\ RemoveOrNot(target[p])
  /\ Goto(p, "forget")
  /\ UNCHANGED <<dockerUp, dockerfile, writes, client, lock, target, image, boot, appVars>>

Forget == client' = [client EXCEPT !.running = FALSE, !.id = NoId]

\* Not the code: the id is not compared again.
StopForgetsAny(p) ==
  /\ Up /\ pc[p] = "forget" /\ lock = Free
  /\ Forget
  /\ Goto(p, AfterStop(p))
  /\ UNCHANGED <<dockerVars, lock, target, image, boot, appVars>>

\* Not the code: the client is not told that its container is gone.
StopForgetsNothing(p) ==
  /\ Up /\ pc[p] = "forget" /\ lock = Free
  /\ Goto(p, AfterStop(p))
  /\ UNCHANGED <<dockerVars, client, lock, target, image, boot, appVars>>

\* The client forgets the container only if it is still the one that was removed.
StopForgets(p) ==
  /\ Up /\ pc[p] = "forget" /\ lock = Free
  /\ IF client.id = target[p] THEN Forget ELSE UNCHANGED client
  /\ target' = [target EXCEPT ![p] = NoId]
  /\ Goto(p, AfterStop(p))
  /\ UNCHANGED <<dockerVars, lock, image, boot, appVars>>

-----------------------------------------------------------------------------
(* The devenv tool: write a Dockerfile, build it, replace the container.    *)

\* Only a Dockerfile on the herm base is accepted.
WriteDockerfile(d) ==
  /\ Up /\ toolDir # NoTools /\ writes < MaxWrites
  /\ dockerfile' = d /\ writes' = writes + 1
  /\ UNCHANGED <<dockerUp, containers, client, lock, procVars, boot, appVars>>

\* Not the code: any Dockerfile there is will do.
AnyDockerfile == dockerfile # "absent"

UsesHermBase == dockerfile \in Custom \cup {"base"}

\* buildAndReplace: the image is named for the content that was read.
BuildReads(p) ==
  /\ Up /\ p \in Tools /\ pc[p] = "idle" /\ toolDir # NoTools /\ UsesHermBase
  /\ image' = [image EXCEPT ![p] = IF dockerfile = "base" THEN "default" ELSE dockerfile]
  /\ Goto(p, "build")
  /\ UNCHANGED <<dockerVars, client, lock, target, boot, appVars>>

\* Rebuild: docker build, then a look at the container under the lock.
Builds(p) ==
  /\ Up /\ pc[p] = "build"
  /\ \/ Goto(p, "look") /\ UNCHANGED image
     \/ Goto(p, "idle") /\ image' = [image EXCEPT ![p] = "default"]
  /\ UNCHANGED <<dockerVars, client, lock, target, boot, appVars>>

RebuildLooks(p) ==
  /\ Up /\ pc[p] = "look" /\ lock = Free
  /\ target' = [target EXCEPT ![p] = client.id]
  /\ Goto(p, IF client.running THEN "rebuildRm" ELSE "setImage")
  /\ UNCHANGED <<dockerVars, client, lock, image, boot, appVars>>

RebuildRemoves(p) ==
  /\ Up /\ pc[p] = "rebuildRm"
  /\ RemoveOrNot(target[p])
  /\ Goto(p, "rebuildForget")
  /\ UNCHANGED <<dockerUp, dockerfile, writes, client, lock, target, image, boot, appVars>>

\* Here the id is not compared.
RebuildForgets(p) ==
  /\ Up /\ pc[p] = "rebuildForget" /\ lock = Free
  /\ Forget
  /\ target' = [target EXCEPT ![p] = NoId]
  /\ Goto(p, "setImage")
  /\ UNCHANGED <<dockerVars, lock, image, boot, appVars>>

RebuildSetsImage(p) ==
  /\ Up /\ pc[p] = "setImage" /\ lock = Free
  /\ client' = [client EXCEPT !.image = image[p]]
  /\ Goto(p, "start")
  /\ UNCHANGED <<dockerVars, lock, target, image, boot, appVars>>

ToolReturns(p) ==
  /\ Up /\ p \in Tools /\ pc[p] \in {"started", "failed"}
  /\ image' = [image EXCEPT ![p] = "default"]
  /\ Goto(p, "idle")
  /\ UNCHANGED <<dockerVars, client, lock, target, boot, appVars>>

-----------------------------------------------------------------------------
(* Start-up                                                                 *)

Send(m) == mail' = Append(mail, m)
BootFrame == <<client, lock, procVars, ready, broken, attached, worktree, switchDir, toolDir>>

BootChecks ==
  /\ Up /\ boot = "checking"
  /\ IF dockerUp THEN boot' = "image" /\ UNCHANGED mail
                 ELSE boot' = "retrying" /\ Send("retry")
  /\ UNCHANGED <<dockerVars, BootFrame>>

\* Not the code: the loop is not left when docker is back.
BootCountsOn ==
  /\ Up /\ boot = "retrying" /\ mail = <<>>
  /\ boot' = boot /\ Send(IF dockerUp THEN "recovered" ELSE "retry")
  /\ UNCHANGED <<dockerVars, BootFrame>>

\* The end of a countdown; its seconds only renew the notice.
BootRetries ==
  /\ Up /\ boot = "retrying" /\ mail = <<>>
  /\ IF dockerUp THEN boot' = "image" /\ Send("recovered")
                 ELSE boot' = boot /\ Send("retry")
  /\ UNCHANGED <<dockerVars, BootFrame>>

\* buildContainerImage: a Dockerfile on another base is moved out of the way; one
\* that cannot be built leaves the default image.
BootImage ==
  /\ Up /\ boot = "image"
  /\ boot' = "pull"
  /\ dockerfile' = IF dockerfile = "foreign" THEN "absent" ELSE dockerfile
  /\ \/ dockerfile \in Custom /\ client' = [client EXCEPT !.image = dockerfile]
     \/ UNCHANGED client
  /\ UNCHANGED <<dockerUp, containers, writes, lock, procVars, appVars>>

\* ensureImageLocal finds or pulls the image, or fails; then Start, on a client that
\* nobody else knows yet.
BootPulls ==
  /\ Up /\ boot = "pull"
  /\ \/ boot' = "starting" /\ Goto("boot", "start") /\ UNCHANGED mail
     \/ boot' = "done" /\ Send("error") /\ UNCHANGED pc
  /\ UNCHANGED <<dockerVars, client, lock, target, image, ready, broken, attached, worktree,
                 switchDir, toolDir>>

BootReports ==
  /\ Up /\ boot = "starting" /\ pc["boot"] \in {"started", "failed"}
  /\ boot' = "done" /\ Goto("boot", "over")
  /\ Send(IF pc["boot"] = "started" THEN "bootReady" ELSE "error")
  /\ UNCHANGED <<dockerVars, client, lock, target, image, ready, broken, attached, worktree, switchDir, toolDir>>

-----------------------------------------------------------------------------
(* The application                                                          *)

\* handleResult for the container's messages.  The start-up's report also sets the
\* workspace back to the one it was started with.
Deliver ==
  /\ ~Quitting /\ mail # <<>>
  /\ mail' = Tail(mail)
  /\ CASE Head(mail) \in {"ready", "bootReady"} ->
            /\ ready' = TRUE /\ broken' = FALSE /\ attached' = TRUE
            /\ worktree' = IF Head(mail) = "bootReady" THEN Home ELSE worktree
       [] Head(mail) \in {"error", "retry"} ->
            broken' = TRUE /\ UNCHANGED <<ready, attached, worktree>>
       [] OTHER -> broken' = FALSE /\ UNCHANGED <<ready, attached, worktree>>
  /\ UNCHANGED <<dockerVars, client, lock, procVars, boot, switchDir, toolDir>>

\* startAgent makes the tools anew, with the workspace of the moment.
TurnStarts ==
  /\ ~Quitting /\ \A p \in Tools : pc[p] = "idle"
  /\ toolDir' = IF ready THEN worktree ELSE NoTools
  /\ UNCHANGED <<dockerVars, client, lock, procVars, boot, mail, ready, broken, attached,
                 worktree, switchDir>>

\* switchToWorktree: the container is only restarted if it is ready.
SwitchBegins(d) ==
  /\ ~Quitting /\ d # worktree
  /\ worktree' = d
  /\ IF ready
       THEN ready' = FALSE /\ switchDir' = d /\ Goto("switch", "stop")
       ELSE UNCHANGED <<ready, switchDir, pc>>
  /\ UNCHANGED <<dockerVars, client, lock, target, image, boot, mail, broken, attached, toolDir>>

\* Not the code: a failure is only logged.
SwitchReportsSuccess ==
  /\ Up /\ pc["switch"] \in {"started", "failed"}
  /\ Goto("switch", "idle")
  /\ IF pc["switch"] = "started" THEN Send("ready") ELSE UNCHANGED mail
  /\ UNCHANGED <<dockerVars, client, lock, target, image, boot, ready, broken, attached, worktree,
                 switchDir, toolDir>>

SwitchReports ==
  /\ Up /\ pc["switch"] \in {"started", "failed"}
  /\ Goto("switch", "idle")
  /\ Send(IF pc["switch"] = "started" THEN "ready" ELSE "error")
  /\ UNCHANGED <<dockerVars, client, lock, target, image, boot, ready, broken, attached, worktree,
                 switchDir, toolDir>>

\* cleanup: stopCh is closed and the container removed; then the process ends.
Exit ==
  /\ ~Quitting
  /\ Goto("exit", IF attached THEN "stop" ELSE "over")
  /\ UNCHANGED <<dockerVars, client, lock, target, image, boot, appVars>>

-----------------------------------------------------------------------------
DockerEnds(p) == DockerRuns(p) \/ DockerRunFails(p)
Starting(p) == StartLocks(p) \/ DockerEnds(p)
Stopping(p) == StopReads(p) \/ StopRemoves(p) \/ StopForgets(p)
Rebuilding(p) ==
  \/ Builds(p) \/ RebuildLooks(p) \/ RebuildRemoves(p) \/ RebuildForgets(p)
  \/ RebuildSetsImage(p) \/ ToolReturns(p)
Booting == BootChecks \/ BootRetries \/ BootImage \/ BootPulls \/ BootReports

Next ==
  \/ DockerComesAndGoes
  \/ \E p \in Proc : Starting(p) \/ Stopping(p)
  \/ \E p \in Tools : ExecReads(p) \/ ExecEnds(p) \/ BuildReads(p) \/ Rebuilding(p)
  \/ \E d \in Custom \cup {"base"} : WriteDockerfile(d)
  \/ Booting
  \/ Deliver \/ TurnStarts \/ (\E d \in Dirs : SwitchBegins(d)) \/ SwitchReports
  \/ Exit

Spec == Init /\ [][Next]_vars

(***************************************************************************)
(* Goroutines take their steps and docker's commands end (each has a       *)
(* timeout).  Go's mutex lets no waiter starve, hence the strong fairness  *)
(* of what waits for the lock.  Nothing makes docker come up, a tool be    *)
(* called or the user quit.                                                *)
(***************************************************************************)
FairSpec ==
  /\ Spec
  /\ WF_vars(Booting) /\ WF_vars(Deliver) /\ WF_vars(SwitchReports)
  /\ \A p \in Proc : WF_vars(DockerEnds(p))
  /\ WF_vars(StartLocks("boot"))
  /\ SF_vars(StartLocks("switch")) /\ SF_vars(Stopping("switch"))

-----------------------------------------------------------------------------
(* Properties *)

\* A client that says it is running has a container: none that was removed, but for
\* the moment a Stop or a Rebuild has between its docker rm and its second lock.
RunningIsAlive ==
  client.running =>
    \/ client.id \in Alive
    \/ \E p \in Proc : pc[p] \in {"forget", "rebuildForget"} /\ target[p] = client.id

\* A Stop that lags behind does not make the client forget a container another
\* goroutine has started since: the only step that drops a live container other
\* than the one its own goroutine tried to remove is that of Rebuild.
OnlyRebuildForgets ==
  [][client.id \in Alive /\ client'.id # client.id =>
       \E p \in Proc : \/ pc[p] = "rebuildForget"
                       \/ pc[p] = "forget" /\ target[p] = client.id]_vars

\* Start-up answers: once docker stays up, the application hears that the container
\* is ready or why it is not, however long docker was away before.
BootAnswers == <>[]dockerUp => <>(boot = "done" \/ Quitting)

\* A switch is answered too: either a container is announced or an error shown.
SwitchAnswers == attached /\ ~ready ~> ready \/ broken \/ Quitting

\* What the client's two pieces of state say of docker's containers, in every state.
ContainerInv == ContainerTypeOK /\ RunningIsAlive

\* Both of them: nobody waits for a container without hearing of it.
BootAndSwitchAnswer == BootAnswers /\ SwitchAnswers

-----------------------------------------------------------------------------
(* A statement the code does not keep *)

\* "Rebuild [...] stops the current container, and starts a new one": the client
\* never forgets a container that nobody has tried to remove.
NothingForgotten ==
  [][client.id \in Alive /\ client'.id # client.id =>
       \E p \in Proc : pc[p] \in {"forget", "rebuildForget"} /\ target[p] = client.id]_vars
=============================================================================
