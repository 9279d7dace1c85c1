--------------------------- MODULE SandboxProofs ---------------------------
(***************************************************************************)
(* Proofs about the container and the CPSL worker, for every set of        *)
(* parallel tool calls, workspaces and images, every number of containers  *)
(* and every finite set of callers: what the client's two fields say of    *)
(* docker's containers, who may make the client drop one that is alive,    *)
(* and that the session evaluates one request at a time and a caller that  *)
(* is told it worked has its own answer.                                   *)
(***************************************************************************)
EXTENDS Container, CpslWorker, FiniteSetTheorems, TLAPS

-----------------------------------------------------------------------------
(* The container *)

\* Only one goroutine at a time has docker run a container, it holds the lock, and
\* the client does not think that another one is running.
RunnerHoldsLock == \A p \in Proc : pc[p] = "run" => lock = p /\ ~client.running

\* Whoever makes the client stop running also takes its id away.
StoppedHasNoId == ~client.running => client.id = NoId

\* A tool that is under way was given a workspace, and the turn that could take it
\* away has not ended.
ToolsHaveDir == \A p \in Tools : pc[p] # "idle" => toolDir # NoTools

\* Start-up does nothing with its client but start.
BootOnlyStarts == pc["boot"] \in {"idle", "start", "run", "started", "failed", "over"}

\* The start-up that has not ended, a switch under way, a container announced in the
\* mail and one that is ready exclude each other, and nothing is announced twice: a
\* switch never starts beside another one, whose goroutine it would share.
Announcements == {"ready", "bootReady"}
NothingAnnounced == \A i \in DOMAIN mail : mail[i] \notin Announcements
OneRestartAtATime ==
  /\ boot # "done" => pc["switch"] = "idle" /\ ~ready /\ NothingAnnounced
  /\ pc["switch"] # "idle" => ~ready /\ NothingAnnounced
  /\ ready => NothingAnnounced
  /\ \A i, j \in DOMAIN mail : mail[i] \in Announcements /\ mail[j] \in Announcements => i = j

\* The inductive invariant, in two parts.
ContainerIndInv ==
  /\ ContainerTypeOK /\ RunningIsAlive
  /\ RunnerHoldsLock /\ StoppedHasNoId /\ ToolsHaveDir
RestartInv == BootOnlyStarts /\ OneRestartAtATime

DockerContainer == [dir : Dirs, image : Image, alive : BOOLEAN]
Containers == Seq(DockerContainer)
Forgetting == {"forget", "rebuildForget"}

LEMMA ContainerInitInv == Init => ContainerIndInv
<1>. SUFFICES ASSUME Init  PROVE ContainerIndInv
  OBVIOUS
<1>1. /\ containers \in Containers /\ Len(containers) = 0 /\ Alive = {}
      /\ mail \in Seq({"ready", "bootReady", "error", "retry", "recovered"})
  BY DEF Init, Containers, Alive
<1>2. /\ writes \in 0..MaxWrites /\ 0 <= MaxRuns /\ NoId \in Ids /\ Home \in Dirs
  BY ContainerAssumption DEF Init, Ids, NoId
<1>b. {ready, broken, attached} \subseteq BOOLEAN
  <2>1. ready = FALSE /\ broken = FALSE /\ attached = FALSE
    BY DEF Init
  <2>. QED  BY <2>1
<1>3. /\ client \in [running : BOOLEAN, id : Ids, image : Image, dir : Dirs]
      /\ target \in [Proc -> Ids] /\ image \in [Proc -> Image]
  BY <1>2 DEF Init, Image
<1>4. ContainerTypeOK
  BY <1>1, <1>2, <1>3, <1>b DEF Init, ContainerTypeOK, Containers, DockerContainer, Ids
<1>5. RunningIsAlive /\ RunnerHoldsLock /\ StoppedHasNoId /\ ToolsHaveDir
  BY DEF Init, RunningIsAlive, RunnerHoldsLock, StoppedHasNoId, ToolsHaveDir, Proc
<1>. QED  BY <1>4, <1>5 DEF ContainerIndInv

LEMMA ContainerStutters ==
  ASSUME ContainerIndInv, UNCHANGED vars  PROVE ContainerIndInv'
<1>0. /\ ContainerIndInv
      /\ UNCHANGED <<dockerUp, containers, dockerfile, writes, client, lock, pc, target, image>>
      /\ UNCHANGED <<boot, mail, ready, broken, attached, worktree, switchDir, toolDir>>
  BY DEF vars, dockerVars, procVars, appVars
<1>1. ContainerTypeOK'
  BY <1>0 DEF ContainerIndInv, ContainerTypeOK
<1>2. RunningIsAlive' /\ RunnerHoldsLock' /\ StoppedHasNoId' /\ ToolsHaveDir'
  BY <1>0 DEF ContainerIndInv, RunningIsAlive, Alive, RunnerHoldsLock, StoppedHasNoId, ToolsHaveDir
<1>. QED  BY <1>1, <1>2 DEF ContainerIndInv

-----------------------------------------------------------------------------
(* What docker's commands do to the containers *)

\* docker rm takes the life of one container at most.
LEMMA RemoveSparesOthers ==
  ASSUME containers \in Containers, NEW i, RemoveOrNot(i)
  PROVE  /\ containers' \in Containers /\ Len(containers') = Len(containers)
         /\ Alive \ {i} \subseteq Alive'
<1>1. CASE UNCHANGED containers
  BY <1>1 DEF Alive
<1>2. CASE Remove(i)
  <2>. DEFINE New(j) == IF j = i THEN [containers[j] EXCEPT !.alive = FALSE] ELSE containers[j]
  <2>0. /\ DOMAIN containers = 1..Len(containers) /\ Len(containers) \in Nat
        /\ \A j \in DOMAIN containers : containers[j] \in DockerContainer
    BY DEF Containers
  <2>a. \A j \in 1..Len(containers) : New(j) \in DockerContainer
    BY <2>0 DEF DockerContainer
  <2>b. containers' = [j \in 1..Len(containers) |-> New(j)]
    BY <1>2, <2>0 DEF Remove
  <2>. HIDE DEF New
  <2>1. /\ Len(containers') = Len(containers) /\ DOMAIN containers' = DOMAIN containers
        /\ containers' \in Containers
    BY <2>0, <2>a, <2>b DEF Containers
  <2>2. \A j \in DOMAIN containers : j # i => containers'[j] = containers[j]
    BY <1>2 DEF Remove
  <2>. QED  BY <2>1, <2>2 DEF Alive
<1>. QED  BY <1>1, <1>2 DEF RemoveOrNot

\* docker run adds one that is alive and harms none.
LEMMA RunAddsOne ==
  ASSUME containers \in Containers, NEW p, DirOf(p) \in Dirs, client.image \in Image,
         containers' = Append(containers, NewContainer(p))
  PROVE  /\ containers' \in Containers /\ Len(containers') = Len(containers) + 1
         /\ Alive \subseteq Alive' /\ Len(containers') \in Alive'
<1>1. NewContainer(p) \in DockerContainer /\ NewContainer(p).alive
  BY DEF NewContainer, DockerContainer
<1>2. containers' \in Containers /\ Len(containers') = Len(containers) + 1
  BY <1>1 DEF Containers
<1>3. /\ DOMAIN containers = 1..Len(containers) /\ DOMAIN containers' = 1..Len(containers')
      /\ Len(containers) \in Nat
  BY <1>2 DEF Containers
<1>4. \A j \in DOMAIN containers : j \in DOMAIN containers' /\ containers'[j] = containers[j]
  BY <1>2, <1>3 DEF Containers
<1>5. Len(containers') \in DOMAIN containers' /\ containers'[Len(containers')] = NewContainer(p)
  BY <1>2, <1>3 DEF Containers
<1>. QED  BY <1>1, <1>2, <1>4, <1>5 DEF Alive

\* Every goroutine that starts a container names a workspace.
LEMMA RunnersDir ==
  ASSUME ContainerIndInv, NEW p \in Proc, pc[p] # "idle"  PROVE DirOf(p) \in Dirs
BY ContainerAssumption DEF ContainerIndInv, ContainerTypeOK, ToolsHaveDir, DirOf, Proc

-----------------------------------------------------------------------------
(* Steps that leave docker and the client's claim alone *)

\* Nobody begins to run a container, and nobody gives up what he is to forget.
Quiet ==
  /\ UNCHANGED <<containers, lock>>
  /\ client'.running = client.running /\ client'.id = client.id
  /\ \A p \in Proc : pc'[p] = "run" => pc[p] = "run"
  /\ \A p \in Proc : pc[p] \in Forgetting => pc'[p] = pc[p] /\ target'[p] = target[p]

LEMMA QuietKeeps ==
  ASSUME ContainerIndInv, Quiet  PROVE RunningIsAlive' /\ RunnerHoldsLock' /\ StoppedHasNoId'
<1>0. ContainerIndInv /\ Quiet
  OBVIOUS
<1>1. RunningIsAlive'
  BY <1>0 DEF ContainerIndInv, Quiet, Forgetting, RunningIsAlive, Alive
<1>. QED  BY <1>0, <1>1 DEF ContainerIndInv, Quiet, RunnerHoldsLock, StoppedHasNoId
-----------------------------------------------------------------------------
(* Start *)

LEMMA StartingKeeps ==
  ASSUME ContainerIndInv, NEW p \in Proc, Starting(p)  PROVE ContainerIndInv'
<1>0. /\ ContainerTypeOK /\ RunningIsAlive /\ RunnerHoldsLock /\ StoppedHasNoId /\ ToolsHaveDir
      /\ ContainerIndInv /\ p # Free
  BY ContainerAssumption DEF ContainerIndInv, Proc, Free
<1>t. p \in Tools /\ pc[p] # "idle" => toolDir # NoTools
  BY <1>0 DEF ToolsHaveDir
<1>1. CASE StartLocks(p)
  <2>1. /\ pc[p] = "start" /\ lock = Free
        /\ UNCHANGED <<dockerUp, containers, dockerfile, writes, client, target, image, boot>>
        /\ UNCHANGED <<mail, ready, broken, attached, worktree, switchDir, toolDir>>
        /\ \/ pc' = [pc EXCEPT ![p] = "failed"] /\ lock' = lock
           \/ pc' = [pc EXCEPT ![p] = "run"] /\ lock' = p /\ ~client.running
    BY <1>1 DEF StartLocks, Goto, dockerVars, appVars
  <2>2. ContainerTypeOK'
    BY <1>0, <2>1 DEF ContainerTypeOK
  <2>3. RunningIsAlive' /\ StoppedHasNoId' /\ ToolsHaveDir'
    <3>1. \A q \in Proc : pc[q] \in Forgetting => pc'[q] = pc[q]
      BY <1>0, <2>1 DEF ContainerTypeOK, Forgetting
    <3>2. \A q \in Proc : pc'[q] # "idle" => pc[q] # "idle"
      BY <1>0, <2>1 DEF ContainerTypeOK
    <3>3. RunningIsAlive'
      BY <1>0, <2>1, <3>1 DEF RunningIsAlive, Alive, Forgetting
    <3>. QED  BY <1>0, <2>1, <3>2, <3>3 DEF StoppedHasNoId, ToolsHaveDir, Proc
  <2>4. RunnerHoldsLock'
    <3>1. \A q \in Proc : pc[q] # "run"
      BY <1>0, <2>1, ContainerAssumption DEF RunnerHoldsLock, Proc, Free
    <3>. QED  BY <1>0, <2>1, <3>1 DEF ContainerTypeOK, RunnerHoldsLock
  <2>. QED  BY <2>2, <2>3, <2>4 DEF ContainerIndInv
<1>2. CASE DockerEnds(p)
  <2>1. /\ pc[p] = "run" /\ lock' = Free /\ pc' \in {[pc EXCEPT ![p] = "started"],
                                                    [pc EXCEPT ![p] = "failed"]}
        /\ UNCHANGED <<dockerUp, dockerfile, writes, target, image, boot, toolDir>>
        /\ UNCHANGED <<mail, ready, broken, attached, worktree, switchDir>>
    BY <1>2 DEF DockerEnds, DockerRuns, DockerRunFails, Goto, appVars
  <2>2. DirOf(p) \in Dirs /\ client.image \in Image /\ containers \in Containers
    BY <1>0, <2>1, RunnersDir DEF ContainerTypeOK, Containers, DockerContainer
  <2>3. /\ containers' \in Containers /\ Len(containers') <= MaxRuns /\ Alive \subseteq Alive'
        /\ Len(containers') \in Nat
        /\ DockerRuns(p) => Len(containers') \in Alive'
    <3>1. CASE UNCHANGED containers /\ ~DockerRuns(p)
      BY <1>0, <2>2, <3>1 DEF ContainerTypeOK, Alive, Containers
    <3>2. CASE Len(containers) < MaxRuns /\ containers' = Append(containers, NewContainer(p))
      <4>1. MaxRuns \in Nat /\ Len(containers) \in Nat
        BY <2>2, ContainerAssumption DEF Containers
      <4>. QED  BY <2>2, <3>2, <4>1, RunAddsOne
    <3>. QED  BY <1>2, <3>1, <3>2 DEF DockerEnds, DockerRuns, DockerRunFails
  <2>4. client' \in [running : BOOLEAN, id : Ids, image : Image, dir : Dirs]
    <3>1. Len(containers') \in Ids
      BY <2>3, ContainerAssumption DEF Ids
    <3>2. \/ client' = client
          \/ client' = [client EXCEPT !.running = TRUE, !.id = Len(containers'), !.dir = DirOf(p)]
      BY <1>2 DEF DockerEnds, DockerRuns, DockerRunFails
    <3>. QED  BY <1>0, <2>2, <3>1, <3>2 DEF ContainerTypeOK
  <2>5. ContainerTypeOK'
    BY <1>0, <2>1, <2>3, <2>4 DEF ContainerTypeOK, Containers, DockerContainer
  <2>6. RunningIsAlive' /\ StoppedHasNoId'
    <3>1. CASE DockerRuns(p)
      <4>1. client'.running = TRUE /\ client'.id = Len(containers')
        BY <1>0, <3>1 DEF DockerRuns, ContainerTypeOK
      <4>. QED  BY <2>3, <3>1, <4>1 DEF RunningIsAlive, StoppedHasNoId
    <3>2. CASE DockerRunFails(p)
      <4>1. client' = client
        BY <3>2 DEF DockerRunFails
      <4>2. \A q \in Proc : pc[q] \in Forgetting => pc'[q] = pc[q]
        BY <1>0, <2>1 DEF ContainerTypeOK, Forgetting
      <4>. QED
        BY <1>0, <2>1, <2>3, <4>1, <4>2 DEF RunningIsAlive, StoppedHasNoId, Forgetting
    <3>. QED  BY <1>2, <3>1, <3>2 DEF DockerEnds
  <2>7. RunnerHoldsLock' /\ ToolsHaveDir'
    <3>1. \A q \in Proc : q # p => pc[q] # "run"
      BY <1>0, <2>1 DEF RunnerHoldsLock
    <3>2. /\ pc'[p] \in {"started", "failed"}
          /\ \A q \in Proc : q # p => pc'[q] = pc[q]
      BY <1>0, <2>1 DEF ContainerTypeOK
    <3>3. RunnerHoldsLock'
      BY <3>1, <3>2 DEF RunnerHoldsLock
    <3>. QED  BY <1>0, <1>t, <2>1, <3>2, <3>3 DEF ToolsHaveDir, Proc
  <2>. QED  BY <2>5, <2>6, <2>7 DEF ContainerIndInv
<1>. QED  BY <1>1, <1>2 DEF Starting, DockerEnds

-----------------------------------------------------------------------------
(* Stop, and the devenv tool's replacement of the container *)

\* Both read the id under the lock, remove without it, and forget under it again.
Removes(p) == StopRemoves(p) \/ RebuildRemoves(p)
Forgets(p) == StopForgets(p) \/ RebuildForgets(p)

LEMMA RemovingKeeps ==
  ASSUME ContainerIndInv, NEW p \in Proc, Removes(p)  PROVE ContainerIndInv'
<1>0. /\ ContainerTypeOK /\ RunningIsAlive /\ RunnerHoldsLock /\ StoppedHasNoId /\ ToolsHaveDir
  BY DEF ContainerIndInv
<1>1. /\ pc[p] \in {"rm", "rebuildRm"} /\ RemoveOrNot(target[p])
      /\ \E w \in Forgetting : pc' = [pc EXCEPT ![p] = w]
      /\ UNCHANGED <<dockerUp, dockerfile, writes, client, lock, target, image, boot, toolDir>>
      /\ UNCHANGED <<mail, ready, broken, attached, worktree, switchDir>>
  BY DEF Removes, StopRemoves, RebuildRemoves, Goto, Forgetting, appVars
<1>2. /\ containers' \in Containers /\ Len(containers') = Len(containers)
      /\ Alive \ {target[p]} \subseteq Alive'
  BY <1>0, <1>1, RemoveSparesOthers DEF ContainerTypeOK, Containers, DockerContainer
<1>3. ContainerTypeOK'
  BY <1>0, <1>1, <1>2 DEF ContainerTypeOK, Containers, DockerContainer, Forgetting
<1>4. RunningIsAlive'
  <2>1. /\ pc'[p] \in Forgetting /\ target'[p] = target[p]
        /\ \A q \in Proc : pc[q] \in Forgetting => pc'[q] \in Forgetting /\ target'[q] = target[q]
    BY <1>0, <1>1 DEF ContainerTypeOK, Forgetting
  <2>. QED  BY <1>0, <1>1, <1>2, <2>1 DEF RunningIsAlive, Forgetting
<1>5. RunnerHoldsLock' /\ StoppedHasNoId' /\ ToolsHaveDir'
  BY <1>0, <1>1 DEF ContainerTypeOK, Forgetting, RunnerHoldsLock, StoppedHasNoId, ToolsHaveDir
<1>. QED  BY <1>3, <1>4, <1>5 DEF ContainerIndInv

\* Who forgets either empties the client, or gives up a container that the client no
\* longer names.
LEMMA ForgettingKeeps ==
  ASSUME ContainerIndInv, NEW p \in Proc, Forgets(p)  PROVE ContainerIndInv'
<1>0. /\ ContainerTypeOK /\ RunningIsAlive /\ RunnerHoldsLock /\ StoppedHasNoId /\ ToolsHaveDir
  BY DEF ContainerIndInv
<1>1. /\ pc[p] \in Forgetting /\ target' = [target EXCEPT ![p] = NoId]
      /\ \E w \in {"start", "over", "setImage"} : pc' = [pc EXCEPT ![p] = w]
      /\ UNCHANGED <<dockerUp, containers, dockerfile, writes, lock, image, boot, toolDir>>
      /\ UNCHANGED <<mail, ready, broken, attached, worktree, switchDir>>
  BY DEF Forgets, StopForgets, RebuildForgets, Goto, AfterStop, Forgetting, dockerVars, appVars
<1>2. Forget \/ (client' = client /\ client.id # target[p])
  BY DEF Forgets, StopForgets, RebuildForgets
<1>3. ContainerTypeOK'
  <2>1. NoId \in Ids
    BY ContainerAssumption DEF NoId, Ids
  <2>2. client' \in [running : BOOLEAN, id : Ids, image : Image, dir : Dirs]
    BY <1>0, <1>2, <2>1 DEF ContainerTypeOK, Forget
  <2>. QED  BY <1>0, <1>1, <2>1, <2>2 DEF ContainerTypeOK
<1>4. RunningIsAlive' /\ StoppedHasNoId'
  <2>1. CASE Forget
    <3>1. client'.running = FALSE /\ client'.id = NoId
      BY <1>0, <2>1 DEF Forget, ContainerTypeOK
    <3>. QED  BY <3>1 DEF RunningIsAlive, StoppedHasNoId
  <2>2. CASE client' = client /\ client.id # target[p]
    BY <1>0, <1>1, <2>2 DEF RunningIsAlive, Alive, StoppedHasNoId, ContainerTypeOK
  <2>. QED  BY <1>2, <2>1, <2>2
<1>5. RunnerHoldsLock' /\ ToolsHaveDir'
  <2>1. client'.running => client.running
    BY <1>0, <1>2 DEF Forget, ContainerTypeOK
  <2>. QED
    BY <1>0, <1>1, <2>1 DEF ContainerTypeOK, RunnerHoldsLock, ToolsHaveDir, Forgetting
<1>. QED  BY <1>3, <1>4, <1>5 DEF ContainerIndInv
-----------------------------------------------------------------------------
(* The other steps of a goroutine: reading, building, returning *)

Reads(p) ==
  \/ StopReads(p) \/ RebuildLooks(p) \/ ExecReads(p) \/ ExecEnds(p)
  \/ BuildReads(p) \/ Builds(p) \/ RebuildSetsImage(p) \/ ToolReturns(p)

LEMMA ReadsTypes ==
  ASSUME ContainerTypeOK, NEW p \in Proc, Reads(p)  PROVE ContainerTypeOK'
<1>0. ContainerTypeOK
  OBVIOUS
<1>1. UNCHANGED <<dockerUp, containers, dockerfile, writes, lock, boot, toolDir, mail, ready, broken,
                  attached, worktree, switchDir>>
  BY DEF Reads, StopReads, RebuildLooks, ExecReads, ExecEnds, BuildReads, Builds, RebuildSetsImage,
         ToolReturns, dockerVars, appVars
<1>2. NoId \in Ids /\ client.id \in Ids /\ image[p] \in Image
  BY <1>0, ContainerAssumption DEF NoId, Ids, ContainerTypeOK
<1>3. target' \in [Proc -> Ids]
  BY <1>0, <1>2 DEF ContainerTypeOK, Reads, StopReads, RebuildLooks, ExecReads, ExecEnds, BuildReads,
                    Builds, RebuildSetsImage, ToolReturns
<1>4. image' \in [Proc -> Image]
  <2>1. "default" \in Image /\ Custom \subseteq Image
    BY DEF Image
  <2>2. CASE BuildReads(p)
    <3>1. (IF dockerfile = "base" THEN "default" ELSE dockerfile) \in Image
      BY <2>1, <2>2 DEF BuildReads, UsesHermBase
    <3>. QED  BY <1>0, <2>2, <3>1 DEF ContainerTypeOK, BuildReads
  <2>3. CASE ~BuildReads(p)
    BY <1>0, <2>1, <2>3 DEF ContainerTypeOK, Reads, StopReads, RebuildLooks, ExecReads, ExecEnds,
                            Builds, RebuildSetsImage, ToolReturns, procVars
  <2>. QED  BY <2>2, <2>3
<1>5. client' \in [running : BOOLEAN, id : Ids, image : Image, dir : Dirs]
  BY <1>0, <1>2 DEF ContainerTypeOK, Reads, StopReads, RebuildLooks, ExecReads, ExecEnds, BuildReads,
                    Builds, RebuildSetsImage, ToolReturns
<1>6. \E w \in {"idle", "exec", "rm", "start", "over", "build", "look", "rebuildRm", "setImage"} :
        pc' = [pc EXCEPT ![p] = w]
  BY DEF Reads, StopReads, RebuildLooks, ExecReads, ExecEnds, BuildReads, Builds, RebuildSetsImage,
         ToolReturns, Goto, AfterStop
<1>. QED  BY <1>0, <1>1, <1>3, <1>4, <1>5, <1>6 DEF ContainerTypeOK

LEMMA ReadsKeeps ==
  ASSUME ContainerIndInv, NEW p \in Proc, Reads(p)  PROVE ContainerIndInv'
<1>0. ContainerIndInv /\ ContainerTypeOK /\ ToolsHaveDir
  BY DEF ContainerIndInv
<1>1. /\ pc[p] \notin Forgetting /\ UNCHANGED <<containers, lock, toolDir>>
      /\ p \in Tools => toolDir # NoTools
  BY <1>0 DEF Reads, StopReads, RebuildLooks, ExecReads, ExecEnds, BuildReads, Builds, RebuildSetsImage,
              ToolReturns, Forgetting, dockerVars, appVars, ToolsHaveDir
<1>2. client'.running = client.running /\ client'.id = client.id
  BY <1>0 DEF Reads, StopReads, RebuildLooks, ExecReads, ExecEnds, BuildReads, Builds,
              RebuildSetsImage, ToolReturns, ContainerTypeOK
<1>3. /\ pc'[p] # "run"
      /\ \A q \in Proc : q # p => pc'[q] = pc[q] /\ target'[q] = target[q]
  <2>1. \E w : w # "run" /\ pc' = [pc EXCEPT ![p] = w]
    BY DEF Reads, StopReads, RebuildLooks, ExecReads, ExecEnds, BuildReads, Builds, RebuildSetsImage,
           ToolReturns, Goto, AfterStop
  <2>2. UNCHANGED target \/ \E i : target' = [target EXCEPT ![p] = i]
    BY DEF Reads, StopReads, RebuildLooks, ExecReads, ExecEnds, BuildReads, Builds, RebuildSetsImage,
           ToolReturns
  <2>. QED  BY <1>0, <2>1, <2>2 DEF ContainerTypeOK
<1>4. Quiet
  BY <1>1, <1>2, <1>3 DEF Quiet
<1>5. ToolsHaveDir'
  BY <1>0, <1>1, <1>3 DEF ToolsHaveDir, Proc
<1>. QED  BY <1>0, <1>4, <1>5, QuietKeeps, ReadsTypes DEF ContainerIndInv

-----------------------------------------------------------------------------
(* The start-up and the application *)

Directs ==
  \/ DockerComesAndGoes \/ (\E d \in Custom \cup {"base"} : WriteDockerfile(d))
  \/ Booting \/ Deliver \/ TurnStarts \/ (\E d \in Dirs : SwitchBegins(d)) \/ SwitchReports \/ Exit

Messages == {"ready", "bootReady", "error", "retry", "recovered"}

\* What these steps do to the goroutines: at most one that holds nothing is sent
\* somewhere else, and it is not one that runs a tool.
LEMMA DirectsSendsOne ==
  ASSUME ContainerTypeOK, RestartInv, Directs
  PROVE  /\ UNCHANGED <<containers, lock, target, image>>
         /\ \/ pc' = pc
            \/ \E p \in Proc \ Tools, w \in {"start", "over", "stop", "idle"} :
                 pc[p] \notin Forgetting /\ pc' = [pc EXCEPT ![p] = w]
<1>0. ContainerTypeOK /\ BootOnlyStarts /\ OneRestartAtATime
  BY DEF RestartInv
<1>1. {"boot", "switch", "exit"} \subseteq Proc \ Tools
  BY ContainerAssumption DEF Proc
<1>2. CASE DockerComesAndGoes \/ (\E d \in Custom \cup {"base"} : WriteDockerfile(d))
  BY <1>2 DEF DockerComesAndGoes, WriteDockerfile, procVars
<1>3. CASE BootChecks \/ BootRetries \/ BootImage
  BY <1>3 DEF BootChecks, BootRetries, BootImage, dockerVars, procVars, BootFrame
<1>4. CASE BootPulls \/ BootReports
  <2>1. pc["boot"] \notin Forgetting
    BY <1>0 DEF BootOnlyStarts, Forgetting
  <2>. QED  BY <1>1, <1>4, <2>1 DEF BootPulls, BootReports, dockerVars, Goto
<1>5. CASE Deliver \/ TurnStarts
  BY <1>5 DEF Deliver, TurnStarts, dockerVars, procVars
<1>6. ASSUME NEW d \in Dirs, SwitchBegins(d)
      PROVE  /\ UNCHANGED <<containers, lock, target, image>>
             /\ pc' = pc \/ (pc["switch"] = "idle" /\ pc' = [pc EXCEPT !["switch"] = "stop"])
  BY <1>0, <1>6 DEF SwitchBegins, OneRestartAtATime, Goto, dockerVars
<1>7. CASE SwitchReports \/ Exit
  BY <1>1, <1>7 DEF SwitchReports, Exit, Quitting, dockerVars, Goto, Forgetting
<1>. QED
  BY <1>1, <1>2, <1>3, <1>4, <1>5, <1>6, <1>7 DEF Directs, Booting, Forgetting

LEMMA SendsLast ==
  ASSUME mail \in Seq(Messages), NEW m \in Messages, Send(m)
  PROVE  /\ mail' \in Seq(Messages) /\ Len(mail) \in Nat
         /\ DOMAIN mail = 1..Len(mail) /\ DOMAIN mail' = 1..(Len(mail) + 1)
         /\ \A i \in DOMAIN mail : mail'[i] = mail[i]
         /\ mail'[Len(mail) + 1] = m
BY DEF Send

LEMMA DeliversFirst ==
  ASSUME mail \in Seq(Messages), mail # <<>>, mail' = Tail(mail)
  PROVE  /\ mail' \in Seq(Messages) /\ Len(mail) \in Nat \ {0}
         /\ DOMAIN mail = 1..Len(mail) /\ DOMAIN mail' = 1..(Len(mail) - 1)
         /\ \A i \in DOMAIN mail' : mail'[i] = mail[i + 1]
         /\ Head(mail) = mail[1] /\ Head(mail) \in Messages
OBVIOUS

LEMMA DirectsTypes ==
  ASSUME ContainerTypeOK, RestartInv, Directs  PROVE ContainerTypeOK'
<1>0. ContainerTypeOK /\ mail \in Seq(Messages) /\ Home \in Dirs
  BY ContainerAssumption DEF ContainerTypeOK, Messages
<1>1. UNCHANGED <<containers, lock, target, image>>
  BY DirectsSendsOne
<1>2. pc' \in [Proc -> {"idle", "exec", "stop", "rm", "forget", "build", "look", "rebuildRm",
                      "rebuildForget", "setImage", "start", "run", "started", "failed", "over"}]
  BY <1>0, DirectsSendsOne DEF ContainerTypeOK
<1>3. client' \in [running : BOOLEAN, id : Ids, image : Image, dir : Dirs]
  <2>1. CASE BootImage
    BY <1>0, <2>1 DEF BootImage, ContainerTypeOK, Image
  <2>2. CASE ~BootImage
    <3>1. client' = client
      BY <2>2 DEF Directs, Booting, DockerComesAndGoes, WriteDockerfile, BootChecks, BootRetries,
                  BootPulls, BootReports, Deliver, TurnStarts, SwitchBegins, SwitchReports, Exit,
                  BootFrame
    <3>. QED  BY <1>0, <3>1 DEF ContainerTypeOK
  <2>. QED  BY <2>1, <2>2
<1>4. /\ dockerUp' \in BOOLEAN /\ writes' \in 0..MaxWrites
      /\ dockerfile' \in {"absent", "base", "foreign"} \cup Custom
  <2>1. CASE DockerComesAndGoes
    BY <1>0, <2>1 DEF ContainerTypeOK, DockerComesAndGoes
  <2>2. ASSUME NEW d \in Custom \cup {"base"}, WriteDockerfile(d)
        PROVE  /\ dockerUp' \in BOOLEAN /\ writes' \in 0..MaxWrites
               /\ dockerfile' \in {"absent", "base", "foreign"} \cup Custom
    BY <1>0, <2>2, ContainerAssumption DEF ContainerTypeOK, WriteDockerfile
  <2>3. CASE BootImage
    BY <1>0, <2>3 DEF ContainerTypeOK, BootImage
  <2>4. CASE ~DockerComesAndGoes /\ ~BootImage /\ ~\E d \in Custom \cup {"base"} : WriteDockerfile(d)
    <3>1. UNCHANGED <<dockerUp, dockerfile, writes>>
      BY <2>4 DEF Directs, Booting, BootChecks, BootRetries, BootPulls, BootReports, Deliver,
                  TurnStarts, SwitchBegins, SwitchReports, Exit, dockerVars
    <3>. QED  BY <1>0, <3>1 DEF ContainerTypeOK
  <2>. QED  BY <2>1, <2>2, <2>3, <2>4
<1>5. boot' \in {"checking", "retrying", "image", "pull", "starting", "done"}
  BY <1>0
  DEF ContainerTypeOK, Directs, Booting, DockerComesAndGoes, WriteDockerfile, BootChecks, BootRetries,
      BootImage, BootPulls, BootReports, Deliver, TurnStarts, SwitchBegins, SwitchReports, Exit
<1>6. mail' \in Seq(Messages)
  <2>1. mail' = mail \/ (\E m \in Messages : Send(m)) \/ Deliver
    BY DEF Directs, Booting, DockerComesAndGoes, WriteDockerfile, BootChecks, BootRetries, BootImage,
           BootPulls, BootReports, TurnStarts, SwitchBegins, SwitchReports, Exit, appVars, Messages
  <2>. QED  BY <1>0, <2>1, SendsLast, DeliversFirst DEF Deliver
<1>7. /\ ready' \in BOOLEAN /\ broken' \in BOOLEAN /\ attached' \in BOOLEAN
      /\ worktree' \in Dirs /\ switchDir' \in Dirs /\ toolDir' \in Dirs \cup {NoTools}
  <2>1. CASE Deliver \/ TurnStarts \/ \E d \in Dirs : SwitchBegins(d)
    BY <1>0, <2>1 DEF ContainerTypeOK, Deliver, TurnStarts, SwitchBegins
  <2>2. CASE ~(Deliver \/ TurnStarts \/ \E d \in Dirs : SwitchBegins(d))
    <3>1. UNCHANGED <<ready, broken, attached, worktree, switchDir, toolDir>>
      BY <2>2 DEF Directs, Booting, DockerComesAndGoes, WriteDockerfile, BootChecks, BootRetries,
                  BootImage, BootPulls, BootReports, SwitchReports, Exit, BootFrame, appVars
    <3>. QED  BY <1>0, <3>1 DEF ContainerTypeOK
  <2>. QED  BY <2>1, <2>2
<1>. QED
  BY <1>0, <1>1, <1>2, <1>3, <1>4, <1>5, <1>6, <1>7 DEF ContainerTypeOK, Messages

LEMMA DirectsKeeps ==
  ASSUME ContainerIndInv, RestartInv, Directs  PROVE ContainerIndInv'
<1>0. ContainerIndInv /\ RestartInv /\ ContainerTypeOK /\ ToolsHaveDir
  BY DEF ContainerIndInv
<1>1. /\ \A p \in Tools : pc'[p] = pc[p]
      /\ \A p \in Proc : pc'[p] = "run" => pc[p] = "run"
      /\ \A p \in Proc : pc[p] \in Forgetting => pc'[p] = pc[p]
      /\ UNCHANGED <<containers, lock, target>>
  BY <1>0, DirectsSendsOne DEF ContainerTypeOK, Proc
<1>2. client'.running = client.running /\ client'.id = client.id
  BY <1>0 DEF Directs, Booting, DockerComesAndGoes, WriteDockerfile, BootChecks, BootRetries, BootImage,
              BootPulls, BootReports, Deliver, TurnStarts, SwitchBegins, SwitchReports, Exit,
              BootFrame, ContainerTypeOK
<1>3. Quiet
  BY <1>1, <1>2 DEF Quiet
<1>4. ToolsHaveDir'
  <2>1. CASE TurnStarts
    BY <1>1, <2>1 DEF TurnStarts, ToolsHaveDir
  <2>2. CASE ~TurnStarts
    <3>1. toolDir' = toolDir
      BY <2>2 DEF Directs, Booting, DockerComesAndGoes, WriteDockerfile, BootChecks, BootRetries,
                  BootImage, BootPulls, BootReports, Deliver, SwitchBegins, SwitchReports, Exit,
                  BootFrame, appVars
    <3>. QED  BY <1>0, <1>1, <3>1 DEF ToolsHaveDir
  <2>. QED  BY <2>1, <2>2
<1>. QED  BY <1>0, <1>3, <1>4, QuietKeeps, DirectsTypes DEF ContainerIndInv
-----------------------------------------------------------------------------
(* One restart at a time *)

\* What a goroutine at work does leaves the start-up and the switch where they are.
LEMMA WorkKeepsRestart ==
  ASSUME ContainerTypeOK, RestartInv, NEW p \in Proc,
         Starting(p) \/ Removes(p) \/ Forgets(p) \/ StopReads(p) \/ (p \in Tools /\ Reads(p))
  PROVE  RestartInv'
<1>0. ContainerTypeOK /\ BootOnlyStarts /\ OneRestartAtATime
  BY DEF RestartInv
<1>1. UNCHANGED <<boot, mail, ready>>
  BY DEF Starting, DockerEnds, StartLocks, DockerRuns, DockerRunFails, Removes, Forgets, StopRemoves,
         RebuildRemoves, StopForgets, RebuildForgets, Reads, StopReads, RebuildLooks, ExecReads, ExecEnds,
         BuildReads, Builds, RebuildSetsImage, ToolReturns, appVars
<1>2. /\ \E w : pc' = [pc EXCEPT ![p] = w]
      /\ Starting(p) => pc[p] \in {"start", "run"}
      /\ Starting(p) => \E w \in {"run", "started", "failed"} : pc' = [pc EXCEPT ![p] = w]
      /\ ~Starting(p) => p \in Tools \/ pc[p] \in {"stop", "rm", "rebuildRm", "forget", "rebuildForget"}
  BY DEF Starting, DockerEnds, StartLocks, DockerRuns, DockerRunFails, Removes, Forgets, StopRemoves,
         RebuildRemoves, StopForgets, RebuildForgets, Reads, StopReads, RebuildLooks, ExecReads, ExecEnds,
         BuildReads, Builds, RebuildSetsImage, ToolReturns, Goto, AfterStop
<1>3. "boot" \notin Tools /\ "switch" \notin Tools /\ {"boot", "switch"} \subseteq Proc
  BY ContainerAssumption DEF Proc
<1>4. BootOnlyStarts'
  <2>1. CASE Starting(p)
    BY <1>0, <1>2, <1>3, <2>1 DEF BootOnlyStarts, ContainerTypeOK
  <2>2. CASE ~Starting(p)
    <3>1. p # "boot"
      BY <1>0, <1>2, <1>3, <2>2 DEF BootOnlyStarts
    <3>. QED  BY <1>0, <1>2, <1>3, <3>1 DEF BootOnlyStarts, ContainerTypeOK
  <2>. QED  BY <2>1, <2>2
<1>5. pc["switch"] = "idle" => pc'["switch"] = "idle"
  BY <1>0, <1>2, <1>3 DEF ContainerTypeOK
<1>. QED
  BY <1>0, <1>1, <1>4, <1>5 DEF RestartInv, OneRestartAtATime, NothingAnnounced

LEMMA DirectsKeepsRestart ==
  ASSUME ContainerTypeOK, RestartInv, Directs  PROVE RestartInv'
<1>0. /\ ContainerTypeOK /\ BootOnlyStarts /\ OneRestartAtATime /\ mail \in Seq(Messages)
      /\ {"boot", "switch", "exit"} \subseteq Proc
  BY DEF RestartInv, ContainerTypeOK, Messages, Proc
<1>1. BootOnlyStarts'
  <2>1. \/ pc'["boot"] = pc["boot"] \/ pc'["boot"] \in {"start", "over"}
    BY <1>0 DEF ContainerTypeOK, Directs, Booting, DockerComesAndGoes, WriteDockerfile, BootChecks,
                BootRetries, BootImage, BootPulls, BootReports, BootFrame, procVars, Deliver, TurnStarts,
                SwitchBegins, SwitchReports, Exit, Goto
  <2>. QED  BY <1>0, <2>1 DEF BootOnlyStarts
<1>2. CASE \/ DockerComesAndGoes \/ (\E d \in Custom \cup {"base"} : WriteDockerfile(d))
           \/ BootImage \/ TurnStarts \/ Exit
  <2>1. /\ UNCHANGED <<mail, ready>> /\ pc'["switch"] = pc["switch"]
        /\ boot' = boot \/ boot # "done"
    BY <1>0, <1>2 DEF ContainerTypeOK, DockerComesAndGoes, WriteDockerfile, BootImage, TurnStarts, Exit,
                      Goto, procVars, appVars
  <2>2. (NothingAnnounced' <=> NothingAnnounced) /\ (boot' # "done" => boot # "done")
    BY <2>1 DEF NothingAnnounced
  <2>. QED  BY <1>0, <1>1, <2>1, <2>2 DEF OneRestartAtATime, RestartInv
<1>3. CASE BootChecks \/ BootRetries \/ BootPulls \/ BootReports
  <2>1. /\ boot # "done" /\ ready' = ready /\ pc'["switch"] = pc["switch"]
        /\ mail' = mail \/ (\E m \in Messages : Send(m) /\ (m \in Announcements => boot' = "done"))
    BY <1>0, <1>3 DEF ContainerTypeOK, BootChecks, BootRetries, BootPulls, BootReports, BootFrame,
                      procVars, Goto, Messages, Announcements
  <2>2. CASE mail' = mail
    <3>1. NothingAnnounced' <=> NothingAnnounced
      BY <2>2 DEF NothingAnnounced
    <3>. QED  BY <1>0, <1>1, <2>1, <2>2, <3>1 DEF OneRestartAtATime, RestartInv
  <2>3. ASSUME NEW m \in Messages, Send(m), m \in Announcements => boot' = "done"
        PROVE  OneRestartAtATime'
    BY <1>0, <2>1, <2>3, SendsLast DEF OneRestartAtATime, NothingAnnounced
  <2>. QED  BY <1>1, <2>1, <2>2, <2>3 DEF RestartInv
<1>4. CASE Deliver
  <2>1. /\ UNCHANGED <<boot, pc>> /\ mail # <<>> /\ mail' = Tail(mail)
        /\ IF Head(mail) \in Announcements THEN ready' = TRUE ELSE ready' = ready
    BY <1>4 DEF Deliver, procVars, Announcements
  <2>2. CASE Head(mail) \in Announcements
    <3>1. 1 \in DOMAIN mail /\ mail[1] \in Announcements
      BY <1>0, <2>1, <2>2, DeliversFirst
    <3>2. boot = "done" /\ pc["switch"] = "idle"
      BY <1>0, <3>1 DEF OneRestartAtATime, NothingAnnounced
    <3>3. NothingAnnounced'
      <4>1. ASSUME NEW i \in DOMAIN mail', mail'[i] \in Announcements  PROVE FALSE
        BY <1>0, <2>1, <3>1, <4>1, DeliversFirst DEF OneRestartAtATime
      <4>. QED  BY <4>1 DEF NothingAnnounced
    <3>. QED  BY <1>0, <1>1, <2>1, <3>2, <3>3 DEF RestartInv, OneRestartAtATime, NothingAnnounced
  <2>3. CASE Head(mail) \notin Announcements
    <3>1. \A i \in DOMAIN mail' : i + 1 \in DOMAIN mail /\ mail'[i] = mail[i + 1] /\ i \in Nat
      BY <1>0, <2>1, DeliversFirst
    <3>2. NothingAnnounced => NothingAnnounced'
      BY <3>1 DEF NothingAnnounced
    <3>3. \A i, j \in DOMAIN mail' :
            mail'[i] \in Announcements /\ mail'[j] \in Announcements => i = j
      BY <1>0, <3>1 DEF OneRestartAtATime
    <3>. QED  BY <1>0, <1>1, <2>1, <2>3, <3>2, <3>3 DEF RestartInv, OneRestartAtATime
  <2>. QED  BY <2>2, <2>3
<1>5. ASSUME NEW d \in Dirs, SwitchBegins(d)  PROVE OneRestartAtATime'
  BY <1>0, <1>5 DEF SwitchBegins, OneRestartAtATime, NothingAnnounced, Goto, ContainerTypeOK
<1>6. CASE SwitchReports
  <2>1. /\ pc["switch"] # "idle" /\ pc'["switch"] = "idle" /\ UNCHANGED <<boot, ready>>
        /\ \E m \in Messages : Send(m)
    BY <1>0, <1>6 DEF SwitchReports, Goto, Messages, ContainerTypeOK
  <2>2. boot = "done" /\ ~ready /\ NothingAnnounced
    BY <1>0, <2>1 DEF OneRestartAtATime
  <2>3. \A i, j \in DOMAIN mail' :
          mail'[i] \in Announcements /\ mail'[j] \in Announcements => i = j
    BY <1>0, <2>1, <2>2, SendsLast DEF NothingAnnounced
  <2>. QED  BY <1>1, <2>1, <2>2, <2>3 DEF RestartInv, OneRestartAtATime
<1>. QED
  BY <1>0, <1>1, <1>2, <1>3, <1>4, <1>5, <1>6 DEF Directs, Booting, RestartInv

-----------------------------------------------------------------------------
(* The theorems *)

LEMMA ContainerStep ==
  ContainerIndInv /\ RestartInv /\ [Next]_vars => ContainerIndInv' /\ RestartInv'
<1>. SUFFICES ASSUME ContainerIndInv, RestartInv, [Next]_vars
              PROVE  ContainerIndInv' /\ RestartInv'
  OBVIOUS
<1>0. ContainerTypeOK
  BY DEF ContainerIndInv
<1>1. ASSUME NEW p \in Proc, Starting(p) \/ Stopping(p)  PROVE ContainerIndInv' /\ RestartInv'
  <2>1. Starting(p) \/ Removes(p) \/ Forgets(p) \/ StopReads(p)
    BY <1>1 DEF Stopping, Removes, Forgets
  <2>2. RestartInv'
    BY <1>0, <2>1, WorkKeepsRestart
  <2>3. ContainerIndInv'
    BY <2>1, StartingKeeps, RemovingKeeps, ForgettingKeeps, ReadsKeeps DEF Reads
  <2>. QED  BY <2>2, <2>3
<1>2. ASSUME NEW p \in Tools, ExecReads(p) \/ ExecEnds(p) \/ BuildReads(p) \/ Rebuilding(p)
      PROVE  ContainerIndInv' /\ RestartInv'
  <2>1. p \in Proc /\ (Reads(p) \/ Removes(p) \/ Forgets(p))
    BY <1>2 DEF Proc, Rebuilding, Removes, Forgets, Reads
  <2>. QED
    BY <1>0, <2>1, RemovingKeeps, ForgettingKeeps, ReadsKeeps, WorkKeepsRestart
<1>3. CASE Directs
  BY <1>0, <1>3, DirectsKeeps, DirectsKeepsRestart
<1>4. CASE UNCHANGED vars
  BY <1>4, ContainerStutters
  DEF RestartInv, BootOnlyStarts, OneRestartAtATime, NothingAnnounced, vars, procVars, appVars
<1>. QED  BY <1>1, <1>2, <1>3, <1>4 DEF Next, Directs

LEMMA RestartInitInv == Init => RestartInv
BY DEF Init, RestartInv, BootOnlyStarts, OneRestartAtATime, NothingAnnounced, Proc

\* Whatever goroutines, failed commands and restarts meet, a client that says it is
\* running names a container that is alive, or one that a Stop or a Rebuild has just
\* removed and is about to make it forget (container.go).
THEOREM ClientTellsTheTruth == Spec => []ContainerInv
<1>1. ContainerIndInv => ContainerInv
  BY DEF ContainerIndInv, ContainerInv
<1>. QED  BY <1>1, ContainerInitInv, RestartInitInv, ContainerStep, PTL DEF Spec

\* Only Rebuild, which does not compare the id again, makes the client drop a
\* container that is alive and that its own goroutine has not tried to remove: a new
\* one is started by one goroutine at a time and only by a client that has none.
THEOREM OnlyRebuildDrops == Spec => OnlyRebuildForgets
<1>. DEFINE Allowed ==
       client.id \in Alive /\ client'.id # client.id =>
         \E p \in Proc : \/ pc[p] = "rebuildForget"
                         \/ pc[p] = "forget" /\ target[p] = client.id
<1>1. ContainerIndInv /\ RestartInv /\ [Next]_vars => [Allowed]_vars
  <2>. SUFFICES ASSUME ContainerIndInv, RestartInv, Next, client'.id # client.id, client.id \in Alive
                PROVE  Allowed
    OBVIOUS
  <2>0. ContainerTypeOK /\ StoppedHasNoId /\ RunnerHoldsLock /\ client.id # NoId
    BY DEF ContainerIndInv, ContainerTypeOK, Alive, NoId
  <2>1. ASSUME NEW p \in Proc, Starting(p)  PROVE FALSE
    <3>1. client' = client \/ DockerRuns(p)
      BY <2>1 DEF Starting, DockerEnds, StartLocks, DockerRunFails
    <3>2. DockerRuns(p) => client.id = NoId
      BY <2>0 DEF DockerRuns, RunnerHoldsLock, StoppedHasNoId
    <3>. QED  BY <2>0, <3>1, <3>2
  <2>2. ASSUME NEW p \in Proc, Reads(p) \/ Removes(p)  PROVE FALSE
    BY <2>0, <2>2 DEF ContainerTypeOK, Reads, StopReads, RebuildLooks, ExecReads, ExecEnds, BuildReads,
                      Builds, RebuildSetsImage, ToolReturns, Removes, StopRemoves, RebuildRemoves
  <2>3. ASSUME Directs  PROVE FALSE
    BY <2>0, <2>3 DEF Directs, Booting, DockerComesAndGoes, WriteDockerfile, BootChecks, BootRetries,
                      BootImage, BootPulls, BootReports, Deliver, TurnStarts, SwitchBegins,
                      SwitchReports, Exit, BootFrame, ContainerTypeOK
  <2>4. ASSUME NEW p \in Proc, Forgets(p)  PROVE Allowed
    BY <2>4 DEF Forgets, StopForgets, RebuildForgets
  <2>. QED
    BY <2>1, <2>2, <2>3, <2>4 DEF Next, Directs, Stopping, Rebuilding, Reads, Removes, Forgets, Proc
<1>. QED
  BY <1>1, ContainerInitInv, RestartInitInv, ContainerStep, PTL DEF Spec, OnlyRebuildForgets

-----------------------------------------------------------------------------
(* The CPSL worker and its client *)

\* The type invariant, with the number of requests bounded by no set.
CpslTyped ==
  /\ worker \in {"off", "idle", "busy", "exiting", "gone"} /\ current \in 0..nextID
  /\ nextID \in Nat
  /\ toWorker \in Seq(1..nextID)
  /\ toClient \in Seq([id : 0..nextID, says : Answers \cup {"torn"}])
  /\ cpslClient \in {"none", "starting", "ready", "failed", "closed"} /\ dead \in BOOLEAN
  /\ cpslMutex \in All \cup {LockFree}
  /\ callAt \in [All -> {"new", "waiting", "sent", "over"}]
  /\ requestID \in [All -> 0..nextID] /\ expired \subseteq All
  /\ outcome \in [All -> [id : 0..nextID, says : Answers \cup {"nothing", "not running", "broken", "late"}]]
  /\ evaluated \subseteq 1..nextID

\* Every request has a number of its own: there are as many as calls that got one.
Numbered == {c \in All : requestID[c] # 0}
CountedRequests == nextID = Cardinality(Numbered)

\* The lock is held from the request that is written to the end of its call.
LockIsHeld ==
  \A c \in All : /\ callAt[c] = "sent" <=> cpslMutex = c
                 /\ callAt[c] = "sent" => requestID[c] # 0
                 /\ callAt[c] \in {"new", "waiting"} => requestID[c] = 0 /\ outcome[c] = Untold

\* Before the worker is started nothing is on its way.
FreshStart ==
  cpslClient = "none" =>
    /\ worker = "off" /\ toWorker = <<>> /\ toClient = <<>> /\ cpslMutex = LockFree
    /\ \A c \in All : callAt[c] = "new"

\* A line that says it worked, with a number, is of a request that was worked on.
AnswersAreWork ==
  \A i \in DOMAIN toClient :
    toClient[i].says = "ok" /\ toClient[i].id # 0 => toClient[i].id \in evaluated

\* Where the one request of a living worker is: nowhere, on its way, evaluated, or answered.
\* Lines that the library printed, which have no number, may be in front of the answer.
NoRequest == cpslMutex = LockFree /\ worker = "idle" /\ toWorker = <<>> /\ toClient = <<>>
OnItsWay ==
  /\ cpslMutex \in All /\ worker = "idle" /\ toWorker = <<requestID[cpslMutex]>> /\ toClient = <<>>
Evaluating ==
  /\ cpslMutex \in All /\ worker = "busy" /\ toWorker = <<>> /\ current = requestID[cpslMutex]
  /\ \A i \in DOMAIN toClient : toClient[i].id = 0
Answered ==
  /\ cpslMutex \in All /\ worker = "idle" /\ toWorker = <<>> /\ toClient # <<>>
  /\ \A i \in DOMAIN toClient : i < Len(toClient) => toClient[i].id = 0
InTurn == worker \in {"idle", "busy"} => NoRequest \/ OnItsWay \/ Evaluating \/ Answered

\* The inductive invariant.
CpslIndInv ==
  /\ CpslTyped /\ CountedRequests /\ LockIsHeld /\ FreshStart /\ AnswersAreWork /\ InTurn
  /\ OwnAnswer

Line == [id : 0..nextID, says : Answers \cup {"torn"}]

\* A sequence with one more element, or one less.
LEMMA AppendFacts ==
  ASSUME NEW S, NEW s \in Seq(S), NEW x \in S
  PROVE  /\ Append(s, x) \in Seq(S) /\ Len(Append(s, x)) = Len(s) + 1
         /\ DOMAIN Append(s, x) = 1..Len(s) + 1
         /\ \A i \in 1..Len(s) : Append(s, x)[i] = s[i]
         /\ Append(s, x)[Len(s) + 1] = x
OBVIOUS

LEMMA TailFacts ==
  ASSUME NEW S, NEW s \in Seq(S), s # <<>>
  PROVE  /\ Tail(s) \in Seq(S) /\ Len(Tail(s)) = Len(s) - 1
         /\ DOMAIN Tail(s) = 1..Len(s) - 1
         /\ \A i \in 1..Len(s) - 1 : Tail(s)[i] = s[i + 1]
         /\ Head(s) = s[1] /\ Head(s) \in S /\ Len(s) \in Nat \ {0}
OBVIOUS

\* Numbers in use stay in use when there is one more.
LEMMA MoreNumbers ==
  ASSUME NEW n \in Nat, NEW s \in Seq(1..n), NEW S, NEW t \in Seq([id : 0..n, says : S])
  PROVE  s \in Seq(1..n + 1) /\ t \in Seq([id : 0..n + 1, says : S])
<1>1. 1..n \subseteq 1..n + 1 /\ [id : 0..n, says : S] \subseteq [id : 0..n + 1, says : S]
  OBVIOUS
<1>2. \A A, B : A \subseteq B => Seq(A) \subseteq Seq(B)
  OBVIOUS
<1>. QED  BY <1>1, <1>2

LEMMA ZeroIsNumber == ASSUME CpslTyped  PROVE 0 \in 0..nextID
<1>1. nextID \in Nat
  BY DEF CpslTyped
<1>. QED  BY <1>1

\* A request that is evaluated has a number.
LEMMA BusyHasNumber ==
  ASSUME CpslIndInv, worker = "busy"
  PROVE  Evaluating /\ current \in 1..nextID
<1>1. Evaluating
  BY DEF CpslIndInv, InTurn, NoRequest, OnItsWay, Answered
<1>2. cpslMutex \in All /\ current = requestID[cpslMutex] /\ requestID[cpslMutex] # 0
  BY <1>1 DEF Evaluating, CpslIndInv, LockIsHeld
<1>3. requestID[cpslMutex] \in 0..nextID /\ nextID \in Nat
  BY <1>2 DEF CpslIndInv, CpslTyped
<1>. QED  BY <1>1, <1>2, <1>3

\* What a step does that puts a line into the pipe to the client.
LineSent(l) == toClient' = Append(toClient, l) /\ l \in Line

LEMMA AnswerSends ==
  ASSUME CpslIndInv, Answer
  PROVE  \E l \in Line : LineSent(l) /\ l.id = current /\ current \in 1..nextID
<1>1. current \in 1..nextID
  BY BusyHasNumber DEF Answer
<1>2. PICK says \in Answers : toClient' = Append(toClient, [id |-> current, says |-> says])
  BY DEF Answer, Say
<1>3. [id |-> current, says |-> says] \in Line
  BY <1>1 DEF Line, CpslIndInv, CpslTyped
<1>. QED  BY <1>1, <1>2, <1>3 DEF LineSent

LEMMA TimeoutSends ==
  ASSUME CpslIndInv, AnswerTimeout
  PROVE  \E l \in Line : LineSent(l) /\ l.says # "ok"
<1>1. [id |-> current, says |-> "timeout"] \in Line
  BY DEF Line, CpslIndInv, CpslTyped, Answers
<1>. QED  BY <1>1 DEF LineSent, AnswerTimeout, Say

LEMMA OthersSend ==
  ASSUME CpslIndInv, LibraryPrints \/ WorkerCrashes
  PROVE  toClient' = toClient \/ \E l \in Line : LineSent(l) /\ l.id = 0
<1>0. 0 \in 0..nextID
  BY ZeroIsNumber DEF CpslIndInv
<1>1. [id |-> 0, says |-> "ok"] \in Line /\ [id |-> 0, says |-> "torn"] \in Line
  BY <1>0 DEF Line, Answers
<1>2. CASE LibraryPrints
  <2>1. toClient' = Append(toClient, [id |-> 0, says |-> "ok"])
    BY <1>2 DEF LibraryPrints
  <2>. QED  BY <1>1, <2>1 DEF LineSent
<1>3. CASE WorkerCrashes
  BY <1>1, <1>3 DEF LineSent, WorkerCrashes
<1>. QED  BY <1>2, <1>3

LEMMA LineKeepsType ==
  ASSUME CpslTyped, NEW l, LineSent(l), nextID' = nextID
  PROVE  toClient' \in Seq([id : 0..nextID', says : Answers \cup {"torn"}])
BY AppendFacts DEF CpslTyped, LineSent, Line

Outcomes == [id : 0..nextID, says : Answers \cup {"nothing", "not running", "broken", "late"}]

\* What a call is told is an outcome.
LEMMA OverKeepsType ==
  ASSUME CpslTyped, NEW c \in All, NEW says, NEW id, Over(c, says, id),
         [says |-> says, id |-> id] \in Outcomes
  PROVE  /\ callAt' \in [All -> {"new", "waiting", "sent", "over"}]
         /\ outcome' \in [All -> Outcomes]
         /\ callAt' = [callAt EXCEPT ![c] = "over"]
         /\ outcome' = [outcome EXCEPT ![c] = [says |-> says, id |-> id]]
<1>1. outcome \in [All -> Outcomes]
  BY DEF CpslTyped, Outcomes
<1>. QED  BY <1>1 DEF CpslTyped, Over

LEMMA TypedStep ==
  ASSUME CpslIndInv, CpslNext  PROVE CpslTyped'
<1>0. /\ CpslTyped /\ 0 \in 0..nextID
      /\ \A says \in {"not running", "broken", "late"} : [says |-> says, id |-> 0] \in Outcomes
  <2>1. CpslTyped /\ 0 \in 0..nextID
    BY ZeroIsNumber DEF CpslIndInv
  <2>. QED  BY <2>1 DEF Outcomes
<1>1. CASE BootWorker
  <2>1. outcome \in [All -> Outcomes] /\ Probe \in All
    BY <1>0 DEF CpslTyped, Outcomes, All
  <2>2. outcome[Probe] \in Outcomes
    BY <2>1
  <2>3. [outcome[Probe] EXCEPT !.says = "broken"] \in Outcomes
    BY <2>2 DEF Outcomes
  <2>4. outcome' = outcome \/ outcome' = [outcome EXCEPT ![Probe] = [outcome[Probe] EXCEPT !.says = "broken"]]
    BY <1>1 DEF BootWorker
  <2>5. outcome' \in [All -> Outcomes]
    BY <2>1, <2>3, <2>4
  <2>. QED  BY <1>0, <1>1, <2>1, <2>5 DEF BootWorker, CpslTyped, Outcomes
<1>2. CASE BootEnds
  BY <1>0, <1>2 DEF BootEnds, CpslTyped, callVars
<1>3. CASE CloseClient
  BY <1>0, <1>3 DEF CloseClient, CpslTyped, callVars
<1>4. CASE TakeRequest
  <2>0. toWorker \in Seq(1..nextID) /\ toWorker # <<>> /\ nextID \in Nat
    BY <1>0, <1>4 DEF TakeRequest, CpslTyped
  <2>1. toWorker' \in Seq(1..nextID) /\ current' \in 1..nextID
    <3>1. toWorker' = Tail(toWorker) /\ current' = Head(toWorker)
      BY <1>4 DEF TakeRequest
    <3>. QED  BY <2>0, <3>1, TailFacts
  <2>2. current' \in 0..nextID
    BY <2>0, <2>1
  <2>. QED  BY <1>0, <1>4, <2>1, <2>2 DEF TakeRequest, CpslTyped, callVars
<1>5. CASE Answer
  <2>1. evaluated' \subseteq 1..nextID
    BY <1>0, <1>5, BusyHasNumber DEF Answer, CpslTyped
  <2>2. toClient' \in Seq([id : 0..nextID', says : Answers \cup {"torn"}])
    BY <1>0, <1>5, AnswerSends, LineKeepsType DEF Answer
  <2>. QED  BY <1>0, <1>5, <2>1, <2>2 DEF Answer, CpslTyped, callVars
<1>6. CASE LibraryPrints
  <2>1. toClient' \in Seq([id : 0..nextID', says : Answers \cup {"torn"}])
    BY <1>0, <1>6, OthersSend, LineKeepsType DEF LibraryPrints, CpslTyped
  <2>. QED  BY <1>0, <1>6, <2>1 DEF LibraryPrints, CpslTyped, callVars
<1>7. CASE AnswerTimeout
  <2>1. toClient' \in Seq([id : 0..nextID', says : Answers \cup {"torn"}])
    BY <1>0, <1>7, TimeoutSends, LineKeepsType DEF AnswerTimeout
  <2>. QED  BY <1>0, <1>7, <2>1 DEF AnswerTimeout, CpslTyped, callVars
<1>8. CASE WorkerExits
  BY <1>0, <1>8 DEF WorkerExits, CpslTyped, callVars
<1>9. CASE WorkerCrashes
  <2>1. toClient' \in Seq([id : 0..nextID', says : Answers \cup {"torn"}])
    BY <1>0, <1>9, OthersSend, LineKeepsType DEF WorkerCrashes, CpslTyped
  <2>. QED  BY <1>0, <1>9, <2>1 DEF WorkerCrashes, CpslTyped, callVars
<1>10. ASSUME NEW c \in All, Call(c) PROVE CpslTyped'
  BY <1>0, <1>10 DEF Call, CpslTyped, workerVars
<1>11. ASSUME NEW c \in All, SendRequest(c) PROVE CpslTyped'
  <2>1. CASE dead
    BY <1>0, <1>11, <2>1, OverKeepsType DEF SendRequest, CpslTyped, Outcomes, workerVars
  <2>2. CASE ~dead
    <3>1. nextID' = nextID + 1 /\ requestID' = [requestID EXCEPT ![c] = nextID + 1]
      BY <1>11, <2>2 DEF SendRequest
    <3>2. toWorker \in Seq(1..nextID') /\ toClient \in Seq([id : 0..nextID', says : Answers \cup {"torn"}])
      BY <1>0, <3>1, MoreNumbers DEF CpslTyped
    <3>3. toWorker' \in Seq(1..nextID')
      <4>1. toWorker' = toWorker \/ toWorker' = Append(toWorker, nextID + 1)
        BY <1>11, <2>2 DEF SendRequest
      <4>2. nextID + 1 \in 1..nextID'
        <5>1. nextID \in Nat
          BY <1>0 DEF CpslTyped
        <5>. QED  BY <3>1, <5>1
      <4>3. Append(toWorker, nextID + 1) \in Seq(1..nextID')
        BY <3>2, <4>2, AppendFacts
      <4>. QED  BY <3>2, <4>1, <4>3
    <3>4. /\ nextID' \in Nat /\ 0..nextID \subseteq 0..nextID' /\ 1..nextID \subseteq 1..nextID'
          /\ requestID' \in [All -> 0..nextID']
      <4>1. nextID \in Nat /\ requestID \in [All -> 0..nextID]
        BY <1>0 DEF CpslTyped
      <4>2. nextID' \in Nat /\ 0..nextID \subseteq 0..nextID' /\ 1..nextID \subseteq 1..nextID' /\ nextID + 1 \in 0..nextID'
        BY <3>1, <4>1
      <4>. QED  BY <3>1, <4>1, <4>2
    <3>5. outcome' \in [All -> Outcomes] /\ callAt' \in [All -> {"new", "waiting", "sent", "over"}]
      BY <1>0, <1>11, <2>2, OverKeepsType DEF SendRequest, CpslTyped, Outcomes
    <3>6. outcome' \in [All -> [id : 0..nextID', says : Answers \cup {"nothing", "not running", "broken", "late"}]]
      BY <3>4, <3>5 DEF Outcomes
    <3>7. worker' \in {"off", "idle", "busy", "exiting", "gone"} /\ dead' \in BOOLEAN /\ cpslMutex' \in All \cup {LockFree}
          /\ UNCHANGED <<toClient, current, evaluated, cpslClient, expired>>
      BY <1>0, <1>11, <2>2 DEF SendRequest, CpslTyped, MarkDead
    <3>. QED  BY <1>0, <3>2, <3>3, <3>4, <3>5, <3>6, <3>7 DEF CpslTyped
  <2>. QED  BY <2>1, <2>2
<1>12. ASSUME NEW c \in All, ContextDone(c) PROVE CpslTyped'
  BY <1>0, <1>12 DEF ContextDone, CpslTyped, workerVars
<1>13. ASSUME NEW c \in All, GiveUp(c) PROVE CpslTyped'
  BY <1>0, <1>13, OverKeepsType DEF GiveUp, CpslTyped, Outcomes, MarkDead
<1>14. ASSUME NEW c \in All, Receive(c) PROVE CpslTyped'
  <2>1. toClient # <<>> => /\ Head(toClient) \in Line
                           /\ Tail(toClient) \in Seq(Line)
    BY <1>0, TailFacts DEF CpslTyped, Line
  <2>2. toClient' \in Seq(Line)
    BY <1>0, <1>14, <2>1 DEF Receive, CpslTyped, Line
  <2>3. toClient # <<>> /\ Decodes(c, Head(toClient)) =>
          [says |-> Head(toClient).says, id |-> Head(toClient).id] \in Outcomes
    BY <2>1 DEF Decodes, Line, Outcomes
  <2>4. outcome' \in [All -> Outcomes] /\ callAt' \in [All -> {"new", "waiting", "sent", "over"}]
    BY <1>0, <1>14, <2>3, OverKeepsType DEF Receive
  <2>. QED  BY <1>0, <1>14, <2>2, <2>4 DEF Receive, CpslTyped, Line, Outcomes, MarkDead
<1>. QED  BY <1>1, <1>2, <1>3, <1>4, <1>5, <1>6, <1>7, <1>8, <1>9, <1>10, <1>11, <1>12, <1>13, <1>14
         DEF CpslNext

\* What the steps of the worker and of the library leave alone.
ClientRests == UNCHANGED <<cpslClient, dead, cpslMutex, nextID, callVars>>
WorkerActs == TakeRequest \/ Answer \/ LibraryPrints \/ AnswerTimeout \/ WorkerExits \/ WorkerCrashes

LEMMA WorkerLeavesClient ==
  ASSUME WorkerActs  PROVE ClientRests
BY DEF WorkerActs, ClientRests, TakeRequest, Answer, LibraryPrints, AnswerTimeout, WorkerExits, WorkerCrashes

LEMMA CountStep ==
  ASSUME CpslIndInv, CpslNext  PROVE CountedRequests'
<1>1. CASE requestID' = requestID /\ nextID' = nextID
  BY <1>1 DEF CpslIndInv, CountedRequests, Numbered
<1>2. ASSUME NEW c \in All, SendRequest(c), ~dead PROVE CountedRequests'
  <2>1. nextID' = nextID + 1 /\ requestID' = [requestID EXCEPT ![c] = nextID + 1]
    BY <1>2 DEF SendRequest
  <2>2. c \notin Numbered
    BY <1>2 DEF SendRequest, CpslIndInv, LockIsHeld, Numbered
  <2>3. nextID \in Nat /\ requestID \in [All -> 0..nextID]
    BY DEF CpslIndInv, CpslTyped
  <2>4. Numbered' = Numbered \cup {c}
    BY <2>1, <2>3 DEF Numbered
  <2>5. IsFiniteSet(Numbered)
    <3>1. IsFiniteSet(All)
      BY CpslAssumption, FS_AddElement DEF All
    <3>. QED  BY <3>1, FS_Subset DEF Numbered
  <2>. QED  BY <2>1, <2>2, <2>4, <2>5, FS_AddElement DEF CpslIndInv, CountedRequests
<1>3. \/ requestID' = requestID /\ nextID' = nextID
      \/ \E c \in All : SendRequest(c) /\ ~dead
  <2>1. CASE WorkerActs
    BY <2>1, WorkerLeavesClient DEF ClientRests, callVars
  <2>2. CASE BootWorker \/ BootEnds \/ CloseClient
    BY <2>2 DEF BootWorker, BootEnds, CloseClient, callVars
  <2>3. ASSUME NEW c \in All, Call(c) \/ ContextDone(c) \/ GiveUp(c) \/ Receive(c)
        PROVE  requestID' = requestID /\ nextID' = nextID
    BY <2>3 DEF Call, ContextDone, GiveUp, Receive
  <2>4. ASSUME NEW c \in All, SendRequest(c), dead
        PROVE  requestID' = requestID /\ nextID' = nextID
    BY <2>4 DEF SendRequest
  <2>. QED  BY <2>1, <2>2, <2>3, <2>4 DEF CpslNext, WorkerActs
<1>. QED  BY <1>1, <1>2, <1>3

LEMMA LockStep ==
  ASSUME CpslIndInv, CpslNext  PROVE LockIsHeld'
<1>0. CpslTyped /\ LockIsHeld /\ LockFree \notin All
  BY CpslAssumption DEF CpslIndInv, All
<1>1. CASE WorkerActs
  BY <1>0, <1>1, WorkerLeavesClient DEF ClientRests, callVars, LockIsHeld
<1>2. CASE BootWorker
  <2>1. /\ cpslMutex' = cpslMutex /\ cpslMutex = LockFree /\ requestID' = requestID
        /\ Probe \in All /\ \A c \in All : callAt[c] = "new"
    BY <1>2 DEF BootWorker, CpslIndInv, FreshStart, All
  <2>2. \/ callAt' = [callAt EXCEPT ![Probe] = "waiting"] /\ outcome' = outcome
        \/ callAt' = [callAt EXCEPT ![Probe] = "over"] /\ \A c \in All \ {Probe} : outcome'[c] = outcome[c]
    BY <1>0, <1>2 DEF BootWorker, CpslTyped
  <2>. QED  BY <1>0, <2>1, <2>2 DEF LockIsHeld, CpslTyped
<1>3. CASE BootEnds \/ CloseClient
  BY <1>0, <1>3 DEF BootEnds, CloseClient, callVars, LockIsHeld
<1>4. ASSUME NEW c \in All, Call(c) \/ ContextDone(c) PROVE LockIsHeld'
  BY <1>0, <1>4 DEF Call, ContextDone, LockIsHeld, CpslTyped
<1>5. ASSUME NEW c \in All, SendRequest(c) PROVE LockIsHeld'
  <2>1. CASE dead
    BY <1>0, <1>5, <2>1 DEF SendRequest, Over, LockIsHeld, CpslTyped
  <2>2. CASE ~dead
    <3>1. requestID' = [requestID EXCEPT ![c] = nextID + 1] /\ nextID + 1 # 0
      <4>1. nextID \in Nat
        BY <1>0 DEF CpslTyped
      <4>. QED  BY <1>5, <2>2, <4>1 DEF SendRequest
    <3>2. /\ cpslMutex = LockFree
          /\ \/ /\ cpslMutex' = c /\ callAt' = [callAt EXCEPT ![c] = "sent"]
                /\ outcome' = outcome
             \/ /\ cpslMutex' = cpslMutex /\ callAt' = [callAt EXCEPT ![c] = "over"]
                /\ \A d \in All \ {c} : outcome'[d] = outcome[d]
      <4>1. outcome = [d \in All |-> outcome[d]]
        BY <1>0 DEF CpslTyped
      <4>. QED  BY <1>5, <2>2, <4>1 DEF SendRequest, Over
    <3>3. callAt = [d \in All |-> callAt[d]] /\ requestID = [d \in All |-> requestID[d]]
      BY <1>0 DEF CpslTyped
    <3>4. \A d \in All : callAt[d] # "sent" /\ d # LockFree
      <4>1. cpslMutex = LockFree
        BY <1>5 DEF SendRequest
      <4>. QED  BY <1>0, <4>1 DEF LockIsHeld
    <3>5. \A d \in All \ {c} : /\ callAt'[d] = callAt[d] /\ outcome'[d] = outcome[d]
                               /\ requestID'[d] = requestID[d]
      BY <3>1, <3>2, <3>3
    <3>6. \A d \in All \ {c} : /\ callAt'[d] = "sent" <=> cpslMutex' = d
                               /\ callAt'[d] = "sent" => requestID'[d] # 0
                               /\ callAt'[d] \in {"new", "waiting"} => requestID'[d] = 0 /\ outcome'[d] = Untold
      BY <1>0, <3>2, <3>4, <3>5 DEF LockIsHeld
    <3>7. /\ callAt'[c] = "sent" <=> cpslMutex' = c
          /\ callAt'[c] = "sent" => requestID'[c] # 0
          /\ callAt'[c] \notin {"new", "waiting"}
      <4>1. CASE cpslMutex' = c /\ callAt' = [callAt EXCEPT ![c] = "sent"]
        <5>1. callAt'[c] = "sent" /\ requestID'[c] # 0
          BY <3>1, <3>3, <4>1
        <5>. QED  BY <4>1, <5>1
      <4>2. CASE cpslMutex' = cpslMutex /\ callAt' = [callAt EXCEPT ![c] = "over"]
        <5>1. callAt'[c] = "over" /\ cpslMutex' # c
          BY <1>5, <3>3, <3>4, <4>2 DEF SendRequest
        <5>. QED  BY <5>1
      <4>. QED  BY <3>2, <4>1, <4>2
    <3>. QED  BY <3>6, <3>7 DEF LockIsHeld, Untold
  <2>. QED  BY <2>1, <2>2
<1>6. ASSUME NEW c \in All, GiveUp(c) PROVE LockIsHeld'
  BY <1>0, <1>6 DEF GiveUp, Over, LockIsHeld, CpslTyped
<1>7. ASSUME NEW c \in All, Receive(c) PROVE LockIsHeld'
  <2>1. /\ callAt[c] = "sent" /\ cpslMutex' = LockFree /\ requestID' = requestID
        /\ callAt' = [callAt EXCEPT ![c] = "over"]
        /\ \A d \in All \ {c} : outcome'[d] = outcome[d]
    BY <1>0, <1>7 DEF Receive, Over, CpslTyped
  <2>. QED  BY <1>0, <2>1 DEF LockIsHeld, CpslTyped
<1>. QED  BY <1>1, <1>2, <1>3, <1>4, <1>5, <1>6, <1>7 DEF CpslNext, WorkerActs

LEMMA FreshStep ==
  ASSUME CpslIndInv, CpslNext  PROVE FreshStart'
<1>1. cpslClient' # "none"
  <2>1. CASE cpslClient # "none"
    BY <2>1 DEF CpslNext, BootWorker, BootEnds, CloseClient, TakeRequest, Answer, LibraryPrints,
                AnswerTimeout, WorkerExits, WorkerCrashes, Call, SendRequest, ContextDone, GiveUp, Receive
  <2>2. CASE cpslClient = "none"
    <3>1. worker = "off" /\ \A c \in All : callAt[c] = "new"
      BY <2>2 DEF CpslIndInv, FreshStart
    <3>2. BootWorker
      BY <2>2, <3>1 DEF CpslNext, BootEnds, CloseClient, TakeRequest, Answer, LibraryPrints,
                AnswerTimeout, WorkerExits, WorkerCrashes, Call, SendRequest, ContextDone, GiveUp, Receive
    <3>. QED  BY <3>2 DEF BootWorker
  <2>. QED  BY <2>1, <2>2
<1>. QED  BY <1>1 DEF FreshStart

LEMMA AnswersStep ==
  ASSUME CpslIndInv, CpslNext  PROVE AnswersAreWork'
<1>0. CpslTyped /\ AnswersAreWork /\ toClient \in Seq(Line) /\ evaluated \subseteq evaluated'
  <2>1. evaluated \subseteq evaluated'
    BY DEF CpslNext, BootWorker, BootEnds, CloseClient, TakeRequest, Answer, LibraryPrints, AnswerTimeout,
           WorkerExits, WorkerCrashes, Call, SendRequest, ContextDone, GiveUp, Receive, workerVars
  <2>. QED  BY <2>1 DEF CpslIndInv, CpslTyped, Line
<1>1. CASE toClient' = toClient
  BY <1>0, <1>1 DEF AnswersAreWork
<1>2. ASSUME NEW l \in Line, LineSent(l), l.says = "ok" /\ l.id # 0 => l.id \in evaluated'
      PROVE  AnswersAreWork'
  BY <1>0, <1>2, AppendFacts DEF AnswersAreWork, LineSent
<1>3. CASE toClient # <<>> /\ toClient' = Tail(toClient)
  BY <1>0, <1>3, TailFacts DEF AnswersAreWork
<1>4. CASE Answer
  <2>1. PICK l \in Line : LineSent(l) /\ l.id = current
    BY <1>4, AnswerSends
  <2>. QED  BY <1>2, <1>4, <2>1 DEF Answer
<1>5. CASE AnswerTimeout
  <2>1. PICK l \in Line : LineSent(l) /\ l.says # "ok"
    BY <1>5, TimeoutSends
  <2>. QED  BY <1>2, <2>1
<1>6. CASE LibraryPrints \/ WorkerCrashes
  <2>1. toClient' = toClient \/ \E l \in Line : LineSent(l) /\ l.id = 0
    BY <1>6, OthersSend
  <2>. QED  BY <1>1, <1>2, <2>1
<1>7. CASE BootWorker \/ BootEnds \/ CloseClient \/ TakeRequest \/ WorkerExits
  BY <1>1, <1>7 DEF BootWorker, BootEnds, CloseClient, TakeRequest, WorkerExits
<1>8. ASSUME NEW c \in All, Call(c) \/ SendRequest(c) \/ ContextDone(c) \/ GiveUp(c) \/ Receive(c)
      PROVE  toClient' = toClient \/ (toClient # <<>> /\ toClient' = Tail(toClient))
  BY <1>8 DEF Call, SendRequest, ContextDone, GiveUp, Receive, workerVars
<1>. QED  BY <1>1, <1>3, <1>4, <1>5, <1>6, <1>7, <1>8 DEF CpslNext

LEMMA OwnStep ==
  ASSUME CpslIndInv, CpslNext  PROVE OwnAnswer'
<1>0. /\ CpslTyped /\ OwnAnswer /\ LockIsHeld /\ AnswersAreWork /\ evaluated \subseteq evaluated'
      /\ outcome = [d \in All |-> outcome[d]] /\ requestID = [d \in All |-> requestID[d]]
  <2>1. evaluated \subseteq evaluated'
    BY DEF CpslNext, BootWorker, BootEnds, CloseClient, TakeRequest, Answer, LibraryPrints, AnswerTimeout,
           WorkerExits, WorkerCrashes, Call, SendRequest, ContextDone, GiveUp, Receive, workerVars
  <2>. QED  BY <2>1 DEF CpslIndInv, CpslTyped
<1>1. CASE UNCHANGED <<outcome, requestID>>
  BY <1>0, <1>1 DEF OwnAnswer
<1>2. ASSUME NEW c \in All, requestID' = requestID, NEW says, NEW id, Over(c, says, id),
             says = "ok" => id = requestID[c] /\ requestID[c] \in evaluated
      PROVE  OwnAnswer'
  BY <1>0, <1>2 DEF OwnAnswer, Over
<1>3. CASE BootWorker
  <2>1. \A c \in All : outcome'[c] = outcome[c] \/ outcome'[c].says = "broken"
    <3>1. \/ outcome' = outcome
          \/ outcome' = [outcome EXCEPT ![Probe] = [outcome[Probe] EXCEPT !.says = "broken"]]
      BY <1>3 DEF BootWorker
    <3>2. outcome[Probe] \in [id : 0..nextID, says : Answers \cup {"nothing", "not running", "broken", "late"}]
      BY <1>0 DEF CpslTyped, All
    <3>3. [outcome[Probe] EXCEPT !.says = "broken"].says = "broken"
      BY <3>2
    <3>. QED  BY <1>0, <3>1, <3>3
  <2>2. requestID' = requestID
    BY <1>3 DEF BootWorker
  <2>. QED  BY <1>0, <2>1, <2>2 DEF OwnAnswer
<1>4. ASSUME NEW c \in All, SendRequest(c) PROVE OwnAnswer'
  <2>1. CASE dead
    <3>1. Over(c, "not running", 0) /\ requestID' = requestID
      BY <1>4, <2>1 DEF SendRequest
    <3>. QED  BY <1>2, <3>1
  <2>2. CASE ~dead
    <3>1. requestID' = [requestID EXCEPT ![c] = nextID + 1]
      BY <1>4, <2>2 DEF SendRequest
    <3>2. outcome[c] = Untold
      BY <1>0, <1>4 DEF SendRequest, LockIsHeld
    <3>3. outcome' = outcome \/ outcome' = [outcome EXCEPT ![c] = [says |-> "broken", id |-> 0]]
      BY <1>4, <2>2 DEF SendRequest, Over
    <3>4. outcome'[c].says # "ok"
      BY <1>0, <3>2, <3>3 DEF Untold
    <3>. QED  BY <1>0, <3>1, <3>3, <3>4 DEF OwnAnswer
  <2>. QED  BY <2>1, <2>2
<1>5. ASSUME NEW c \in All, GiveUp(c) PROVE OwnAnswer'
  <2>1. Over(c, "late", 0) /\ requestID' = requestID
    BY <1>5 DEF GiveUp
  <2>. QED  BY <1>2, <2>1
<1>6. ASSUME NEW c \in All, Receive(c) PROVE OwnAnswer'
  <2>1. requestID' = requestID /\ callAt[c] = "sent"
    BY <1>6 DEF Receive
  <2>2. requestID[c] # 0
    BY <1>0, <2>1 DEF LockIsHeld
  <2>3. CASE toClient # <<>> /\ Decodes(c, Head(toClient)) /\ Over(c, Head(toClient).says, Head(toClient).id)
    <3>1. toClient \in Seq(Line)
      BY <1>0 DEF CpslTyped, Line
    <3>2. Head(toClient) = toClient[1] /\ 1 \in DOMAIN toClient
      BY <2>3, <3>1
    <3>3. Head(toClient).id = requestID[c]
      BY <2>3 DEF Decodes
    <3>4. Head(toClient).says = "ok" => requestID[c] \in evaluated
      BY <1>0, <2>2, <3>2, <3>3 DEF AnswersAreWork
    <3>. QED  BY <1>2, <2>1, <2>3, <3>3, <3>4
  <2>4. CASE Over(c, "broken", 0)
    BY <1>2, <2>1, <2>4
  <2>. QED  BY <1>6, <2>3, <2>4 DEF Receive
<1>7. CASE BootEnds \/ CloseClient \/ WorkerActs
  BY <1>1, <1>7, WorkerLeavesClient DEF BootEnds, CloseClient, ClientRests, callVars
<1>8. ASSUME NEW c \in All, Call(c) \/ ContextDone(c) PROVE OwnAnswer'
  BY <1>1, <1>8 DEF Call, ContextDone
<1>. QED  BY <1>3, <1>4, <1>5, <1>6, <1>7, <1>8 DEF CpslNext, WorkerActs

\* What is in the pipes stays in turn when a worker that lives on does nothing to them.
LEMMA TurnRests ==
  ASSUME CpslIndInv, UNCHANGED <<toWorker, toClient, cpslMutex, requestID, current>>,
         worker' = worker \/ worker' \notin {"idle", "busy"}
  PROVE  InTurn'
BY DEF CpslIndInv, InTurn, NoRequest, OnItsWay, Evaluating, Answered

LEMMA TurnStep ==
  ASSUME CpslIndInv, CpslNext  PROVE InTurn'
<1>0. CpslTyped /\ InTurn /\ LockIsHeld /\ LockFree \notin All /\ toClient \in Seq(Line)
  BY CpslAssumption DEF CpslIndInv, CpslTyped, All, Line
<1>1. CASE BootWorker
  <2>1. worker' \in {"idle", "busy"} => NoRequest'
    BY <1>1 DEF BootWorker, CpslIndInv, FreshStart, NoRequest
  <2>. QED  BY <2>1 DEF InTurn
<1>2. CASE BootEnds \/ CloseClient
  BY <1>2, TurnRests DEF BootEnds, CloseClient, callVars
<1>3. CASE TakeRequest
  <2>1. OnItsWay
    BY <1>0, <1>3 DEF TakeRequest, InTurn, NoRequest, Evaluating, Answered
  <2>2. /\ toWorker' = <<>> /\ current' = requestID[cpslMutex] /\ worker' = "busy"
        /\ UNCHANGED <<toClient, cpslMutex, requestID>>
    BY <1>3, <2>1 DEF TakeRequest, OnItsWay, callVars
  <2>3. Evaluating'
    BY <2>1, <2>2 DEF OnItsWay, Evaluating
  <2>. QED  BY <2>3 DEF InTurn
<1>4. CASE Answer
  <2>1. Evaluating
    BY <1>4, BusyHasNumber DEF Answer
  <2>2. PICK l \in Line : LineSent(l)
    BY <1>4, AnswerSends
  <2>3. UNCHANGED <<cpslMutex, requestID, toWorker>> /\ worker' = "idle"
    BY <1>4 DEF Answer, callVars
  <2>4. /\ Len(toClient') = Len(toClient) + 1 /\ DOMAIN toClient' = 1..Len(toClient) + 1
        /\ \A i \in 1..Len(toClient) : toClient'[i] = toClient[i]
    BY <1>0, <2>2, AppendFacts DEF LineSent
  <2>5. Len(toClient) \in Nat /\ DOMAIN toClient = 1..Len(toClient)
    BY <1>0
  <2>6. Answered'
    BY <2>1, <2>3, <2>4, <2>5 DEF Evaluating, Answered
  <2>. QED  BY <2>6 DEF InTurn
<1>5. CASE LibraryPrints
  <2>1. Evaluating
    BY <1>5, BusyHasNumber DEF LibraryPrints
  <2>2. UNCHANGED <<cpslMutex, requestID, toWorker, current, worker>>
    BY <1>5 DEF LibraryPrints, callVars
  <2>3. \A i \in DOMAIN toClient' : toClient'[i].id = 0
    BY <1>5 DEF LibraryPrints
  <2>4. Evaluating'
    BY <2>1, <2>2, <2>3 DEF Evaluating
  <2>. QED  BY <2>4 DEF InTurn
<1>6. CASE AnswerTimeout \/ WorkerExits \/ WorkerCrashes
  BY <1>6 DEF AnswerTimeout, WorkerExits, WorkerCrashes, InTurn
<1>7. ASSUME NEW c \in All, Call(c) \/ ContextDone(c) PROVE InTurn'
  BY <1>7, TurnRests DEF Call, ContextDone, workerVars
<1>8. ASSUME NEW c \in All, SendRequest(c) PROVE InTurn'
  <2>1. CASE dead
    BY <1>8, <2>1, TurnRests DEF SendRequest, workerVars
  <2>2. CASE ~dead /\ worker' \in {"idle", "busy"}
    <3>1. NoRequest
      BY <1>0, <1>8, <2>2 DEF SendRequest, MarkDead, InTurn, NoRequest, OnItsWay, Evaluating, Answered
    <3>2. /\ toWorker' = Append(toWorker, nextID + 1) /\ cpslMutex' = c /\ UNCHANGED <<worker, toClient>>
          /\ requestID' = [requestID EXCEPT ![c] = nextID + 1]
      BY <1>8, <2>2 DEF SendRequest, MarkDead
    <3>3. requestID'[c] = nextID + 1
      BY <1>0, <3>2 DEF CpslTyped
    <3>4. OnItsWay'
      BY <3>1, <3>2, <3>3 DEF NoRequest, OnItsWay
    <3>. QED  BY <3>4 DEF InTurn
  <2>3. CASE worker' \notin {"idle", "busy"}
    BY <2>3 DEF InTurn
  <2>. QED  BY <2>1, <2>2, <2>3
<1>9. ASSUME NEW c \in All, GiveUp(c) PROVE InTurn'
  BY <1>9 DEF GiveUp, MarkDead, InTurn
<1>10. ASSUME NEW c \in All, Receive(c) PROVE InTurn'
  <2>1. CASE worker' \notin {"idle", "busy"}
    BY <2>1 DEF InTurn
  <2>2. CASE worker' \in {"idle", "busy"}
    <3>1. /\ toClient # <<>> /\ Decodes(c, Head(toClient)) /\ worker' = worker /\ toClient' = Tail(toClient)
          /\ cpslMutex' = LockFree /\ callAt[c] = "sent" /\ UNCHANGED toWorker
      BY <1>10, <2>2 DEF Receive, MarkDead
    <3>2. toClient[1].id # 0 /\ 1 \in DOMAIN toClient /\ Len(toClient) \in Nat
      BY <1>0, <3>1 DEF Decodes, LockIsHeld
    <3>3. Answered
      BY <1>0, <2>2, <3>1, <3>2 DEF InTurn, NoRequest, OnItsWay, Evaluating
    <3>4. Len(toClient) = 1
      <4>1. ~ (1 < Len(toClient))
        BY <3>2, <3>3 DEF Answered
      <4>2. Len(toClient) \in Nat \ {0}
        BY <1>0, <3>1, TailFacts
      <4>3. \A n \in Nat \ {0} : ~ (1 < n) => n = 1
        OBVIOUS
      <4>. QED  BY <4>1, <4>2, <4>3
    <3>5. toClient' = <<>>
      BY <1>0, <3>1, <3>4
    <3>6. NoRequest'
      BY <3>1, <3>3, <3>5 DEF Answered, NoRequest
    <3>. QED  BY <3>6 DEF InTurn
  <2>. QED  BY <2>1, <2>2
<1>. QED  BY <1>1, <1>2, <1>3, <1>4, <1>5, <1>6, <1>7, <1>8, <1>9, <1>10 DEF CpslNext

LEMMA CpslInitInv == CpslInit => CpslIndInv
<1>. SUFFICES ASSUME CpslInit PROVE CpslIndInv
  OBVIOUS
<1>1. CpslTyped
  <2>1. nextID = 0 /\ nextID \in Nat /\ 0 \in 0..nextID /\ evaluated \subseteq 1..nextID
    BY DEF CpslInit
  <2>2. toWorker \in Seq(1..nextID) /\ toClient \in Seq([id : 0..nextID, says : Answers \cup {"torn"}])
    BY DEF CpslInit
  <2>3. outcome \in [All -> [id : 0..nextID, says : Answers \cup {"nothing", "not running", "broken", "late"}]]
    BY <2>1 DEF CpslInit, Untold
  <2>4. callAt \in [All -> {"new", "waiting", "sent", "over"}] /\ requestID \in [All -> 0..nextID]
    BY <2>1 DEF CpslInit
  <2>. QED  BY <2>1, <2>2, <2>3, <2>4 DEF CpslInit, CpslTyped
<1>2. CountedRequests
  <2>1. Numbered = {}
    BY DEF CpslInit, Numbered
  <2>. QED  BY <2>1, FS_EmptySet DEF CpslInit, CountedRequests
<1>3. LockIsHeld /\ FreshStart
  BY CpslAssumption DEF CpslInit, LockIsHeld, FreshStart, All
<1>4. AnswersAreWork /\ InTurn /\ OwnAnswer
  BY DEF CpslInit, AnswersAreWork, InTurn, OwnAnswer, Untold
<1>. QED  BY <1>1, <1>2, <1>3, <1>4 DEF CpslIndInv

LEMMA CpslStutters ==
  ASSUME CpslIndInv, UNCHANGED cpslVars  PROVE CpslIndInv'
BY DEF cpslVars, CpslIndInv, CpslTyped, CountedRequests, Numbered, LockIsHeld, FreshStart, AnswersAreWork,
       InTurn, NoRequest, OnItsWay, Evaluating, Answered, OwnAnswer

\* The numbers never exceed the calls.
LEMMA NumbersBounded ==
  ASSUME CpslIndInv  PROVE nextID <= Cardinality(All) /\ Cardinality(All) \in Nat
<1>1. IsFiniteSet(All) /\ Numbered \subseteq All
  <2>1. IsFiniteSet(All)
    BY CpslAssumption, FS_AddElement DEF All
  <2>. QED  BY <2>1 DEF Numbered
<1>2. Cardinality(Numbered) <= Cardinality(All) /\ Cardinality(All) \in Nat
  BY <1>1, FS_Subset, FS_CardinalityType
<1>. QED  BY <1>2 DEF CpslIndInv, CountedRequests

LEMMA IndInvImpliesInv ==
  ASSUME CpslIndInv  PROVE CpslInv
<1>1. nextID \in Nat /\ nextID \in 0..Cardinality(All) /\ current \in 0..Cardinality(All)
  <2>1. nextID \in Nat /\ current \in 0..nextID
    BY DEF CpslIndInv, CpslTyped
  <2>. QED  BY <2>1, NumbersBounded
<1>2. CpslTypeOK
  BY <1>1 DEF CpslIndInv, CpslTyped, CpslTypeOK
<1>3. OneRequestAtATime
  <2>1. CASE worker \in {"idle", "busy"}
    <3>1. NoRequest \/ OnItsWay \/ Evaluating \/ Answered
      BY <2>1 DEF CpslIndInv, InTurn
    <3>2. Len(toWorker) + (IF worker = "busy" THEN 1 ELSE 0) <= 1
      <4>1. CASE worker = "idle"
        <5>1. toWorker = <<>> \/ toWorker = <<requestID[cpslMutex]>>
          BY <3>1, <4>1 DEF NoRequest, OnItsWay, Evaluating, Answered
        <5>2. Len(toWorker) <= 1
          BY <5>1
        <5>3. Len(toWorker) \in Nat
          BY <5>1
        <5>. QED  BY <4>1, <5>2, <5>3
      <4>2. CASE worker = "busy"
        <5>1. toWorker = <<>>
          BY <3>1, <4>2 DEF NoRequest, OnItsWay, Evaluating, Answered
        <5>. QED  BY <4>2, <5>1
      <4>. QED  BY <2>1, <4>1, <4>2
    <3>3. worker = "busy" => cpslMutex # LockFree /\ requestID[cpslMutex] = current
      BY <3>1, CpslAssumption DEF NoRequest, OnItsWay, Evaluating, Answered, All
    <3>. QED  BY <3>2, <3>3 DEF OneRequestAtATime
  <2>2. CASE worker \notin {"idle", "busy"}
    BY <2>2 DEF OneRequestAtATime
  <2>. QED  BY <2>1, <2>2
<1>. QED  BY <1>2, <1>3 DEF CpslIndInv, CpslInv

\* Whatever callers, worker and library do: no caller gets another's answer, and no two
\* requests are in the session at the same time (cpsl_client.go, eval).
THEOREM SessionServesOne == CpslSpec => []CpslInv
<1>1. CpslIndInv /\ [CpslNext]_cpslVars => CpslIndInv'
  BY TypedStep, CountStep, LockStep, FreshStep, AnswersStep, TurnStep, OwnStep, CpslStutters
     DEF CpslIndInv
<1>2. CpslSpec => []CpslIndInv
  BY <1>1, CpslInitInv, PTL DEF CpslSpec
<1>. QED  BY <1>2, IndInvImpliesInv, PTL
=============================================================================
