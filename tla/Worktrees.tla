----------------------------- MODULE Worktrees -----------------------------
(***************************************************************************)
(* The worktrees of a project and their lock files (worktree.go, and the   *)
(* /worktrees command of commands.go), shared by several herm processes,   *)
(* and the project number that names the directory of the worktrees.       *)
(* Files are written by truncating and then writing them; nothing else     *)
(* protects them.  A process number is not used twice.                     *)
(***************************************************************************)
EXTENDS Naturals, FiniteSets

CONSTANTS
  Sessions, \* herm processes, which are also their process numbers
  Trees,    \* directories that may become worktrees of the project
  RepoRoot  \* the directory herm is started in

ASSUME WorktreesAssumption ==
  RepoRoot \notin Trees /\ "no tree" \notin Trees /\ {"none", "torn"} \cap Sessions = {}

VARIABLES
  alive,     \* the processes that run
  made,      \* the worktrees there are
  lockFile,  \* per tree: NoFile, Torn, or the number in its .herm-lock
  project,   \* .herm/project.json: NoFile, Torn or a number
  step,      \* per session: what it is about to do
  seenLock,  \* what isWorktreeLocked has read
  listed,    \* the trees its listing has yet to look at
  menu,      \* the trees on its menu; those shown as active
  at,        \* App.worktreePath
  goal,      \* the tree it is writing a lock into
  linked,    \* its open file is still the one in the directory
  projectId, \* the number its last ensureProjectID came back with
  reading    \* history: sessions between their read and their write of project.json

treeVars == <<alive, made, lockFile, project, step, seenLock, listed, menu, at, goal, linked,
              projectId, reading>>

NoFile == "none"
Torn == "torn"
NoTree == "no tree"
Places == Trees \cup {RepoRoot}

TreesTypeOK ==
  /\ alive \subseteq Sessions /\ made \subseteq Trees
  /\ lockFile \in [Places -> Sessions \cup {NoFile, Torn}]
  /\ project \in Sessions \cup {NoFile, Torn}
  /\ step \in [Sessions -> {"idle", "create", "fill", "list", "test", "remove", "menu", "write"}]
  /\ seenLock \in [Sessions -> Sessions \cup {NoFile, Torn}]
  /\ listed \in [Sessions -> SUBSET Trees]
  /\ menu \in [Sessions -> [trees : SUBSET Trees, active : SUBSET Trees]]
  /\ at \in [Sessions -> Places] /\ goal \in [Sessions -> Trees \cup {NoTree}]
  /\ linked \in [Sessions -> BOOLEAN]
  /\ projectId \in [Sessions -> Sessions \cup {NoFile}] /\ reading \subseteq Sessions

NoMenu == [trees |-> {}, active |-> {}]

TreesInit ==
  /\ alive = Sessions /\ made = {}
  /\ lockFile = [t \in Places |-> NoFile] /\ project = NoFile
  /\ step = [s \in Sessions |-> "idle"]
  /\ seenLock = [s \in Sessions |-> NoFile]
  /\ listed = [s \in Sessions |-> {}] /\ menu = [s \in Sessions |-> NoMenu]
  /\ at = [s \in Sessions |-> RepoRoot] /\ goal = [s \in Sessions |-> NoTree]
  /\ linked = [s \in Sessions |-> FALSE]
  /\ projectId = [s \in Sessions |-> NoFile] /\ reading = {}

Then(s, where) == step' = [step EXCEPT ![s] = where]

-----------------------------------------------------------------------------
(* ensureProjectID: a session's own number stands for the one it makes up.  *)

Listing(s) == Then(s, "list") /\ listed' = [listed EXCEPT ![s] = made]

\* Not the code: a number that is there is not looked at.
ProjectMadeAnew(s) ==
  /\ s \in alive /\ step[s] = "idle" /\ Then(s, "create")
  /\ UNCHANGED <<alive, made, lockFile, project, seenLock, listed, menu, at, goal, linked,
                 projectId, reading>>

ReadProject(s) ==
  /\ s \in alive /\ step[s] = "idle"
  /\ IF project \in Sessions
       THEN Listing(s) /\ projectId' = [projectId EXCEPT ![s] = project] /\ UNCHANGED reading
       ELSE Then(s, "create") /\ reading' = reading \cup {s} /\ UNCHANGED <<listed, projectId>>
  /\ UNCHANGED <<alive, made, lockFile, project, seenLock, menu, at, goal, linked>>

\* os.WriteFile truncates the file and then writes it; the number goes back to the caller.
CreateProject(s) ==
  /\ s \in alive /\ step[s] = "create"
  /\ project' = Torn /\ Then(s, "fill")
  /\ UNCHANGED <<alive, made, lockFile, seenLock, listed, menu, at, goal, linked, projectId,
                 reading>>

FillProject(s) ==
  /\ s \in alive /\ step[s] = "fill"
  /\ project' = s /\ projectId' = [projectId EXCEPT ![s] = s]
  /\ Listing(s) /\ reading' = reading \ {s}
  /\ UNCHANGED <<alive, made, lockFile, seenLock, menu, at, goal, linked>>

-----------------------------------------------------------------------------
(* listWorktrees and isWorktreeLocked                                       *)

\* A lock is read; nothing keeps it as it was until it is judged.
ListReads(s, t) ==
  /\ s \in alive /\ step[s] = "list" /\ t \in listed[s]
  /\ seenLock' = [seenLock EXCEPT ![s] = lockFile[t]]
  /\ goal' = [goal EXCEPT ![s] = t] /\ Then(s, "test")
  /\ UNCHANGED <<alive, made, lockFile, project, listed, menu, at, linked, projectId, reading>>

\* Not the code: the process of a lock is not looked up.
StaleIfThere(owner) == owner # NoFile

Stale(owner) == owner = Torn \/ owner \in Sessions \ alive

ListTests(s) ==
  /\ s \in alive /\ step[s] = "test"
  /\ IF Stale(seenLock[s])
       THEN Then(s, "remove") /\ UNCHANGED <<seenLock, listed, menu, goal>>
       ELSE /\ Then(s, "list") /\ seenLock' = [seenLock EXCEPT ![s] = NoFile]
            /\ listed' = [listed EXCEPT ![s] = @ \ {goal[s]}]
            /\ menu' = [menu EXCEPT ![s] =
                 [trees |-> @.trees \cup {goal[s]},
                  active |-> IF seenLock[s] = NoFile THEN @.active ELSE @.active \cup {goal[s]}]]
            /\ goal' = [goal EXCEPT ![s] = NoTree]
  /\ UNCHANGED <<alive, made, lockFile, project, at, linked, projectId, reading>>

\* Unlink: a session that has this file open goes on writing to a file without a name.
Unlink(t) ==
  /\ lockFile' = [lockFile EXCEPT ![t] = NoFile]
  /\ linked' = [q \in Sessions |-> linked[q] /\ goal[q] # t]

\* The file that is removed is the one that is there now.
ListRemoves(s) ==
  /\ s \in alive /\ step[s] = "remove"
  /\ Unlink(goal[s])
  /\ Then(s, "list") /\ listed' = [listed EXCEPT ![s] = @ \ {goal[s]}]
  /\ menu' = [menu EXCEPT ![s].trees = @ \cup {goal[s]}]
  /\ goal' = [goal EXCEPT ![s] = NoTree] /\ seenLock' = [seenLock EXCEPT ![s] = NoFile]
  /\ UNCHANGED <<alive, made, project, at, projectId, reading>>

ListEnds(s) ==
  /\ s \in alive /\ step[s] = "list" /\ listed[s] = {}
  /\ Then(s, "menu")
  /\ UNCHANGED <<alive, made, lockFile, project, seenLock, listed, menu, at, goal, linked,
                 projectId, reading>>

-----------------------------------------------------------------------------
(* The menu: an entry, active or not, a new worktree, or nothing.           *)

\* switchToWorktree: the application is there at once; the lock is written after it.
SwitchTo(s, t) ==
  /\ at' = [at EXCEPT ![s] = t]
  /\ lockFile' = [lockFile EXCEPT ![t] = Torn]
  /\ goal' = [goal EXCEPT ![s] = t] /\ linked' = [linked EXCEPT ![s] = TRUE]
  /\ Then(s, "write") /\ menu' = [menu EXCEPT ![s] = NoMenu]

Choose(s, t) ==
  /\ s \in alive /\ step[s] = "menu" /\ t \in menu[s].trees
  /\ SwitchTo(s, t)
  /\ UNCHANGED <<alive, made, project, seenLock, listed, projectId, reading>>

\* git refuses a worktree whose directory or branch exists.
NewWorktree(s, t) ==
  /\ s \in alive /\ step[s] = "menu" /\ t \notin made
  /\ made' = made \cup {t}
  /\ SwitchTo(s, t)
  /\ UNCHANGED <<alive, project, seenLock, listed, projectId, reading>>

CloseMenu(s) ==
  /\ s \in alive /\ step[s] = "menu"
  /\ Then(s, "idle") /\ menu' = [menu EXCEPT ![s] = NoMenu]
  /\ UNCHANGED <<alive, made, lockFile, project, seenLock, listed, at, goal, linked, projectId,
                 reading>>

WriteLock(s) ==
  /\ s \in alive /\ step[s] = "write"
  /\ lockFile' = IF linked[s] THEN [lockFile EXCEPT ![goal[s]] = s] ELSE lockFile
  /\ Then(s, "idle") /\ goal' = [goal EXCEPT ![s] = NoTree]
  /\ linked' = [linked EXCEPT ![s] = FALSE]
  /\ UNCHANGED <<alive, made, project, seenLock, listed, menu, at, projectId, reading>>

-----------------------------------------------------------------------------
Gone(s) ==
  /\ seenLock' = [seenLock EXCEPT ![s] = NoFile]
  /\ alive' = alive \ {s} /\ reading' = reading \ {s}
  /\ Then(s, "idle") /\ menu' = [menu EXCEPT ![s] = NoMenu] /\ listed' = [listed EXCEPT ![s] = {}]
  /\ goal' = [goal EXCEPT ![s] = NoTree]

\* cleanup removes the lock of the tree the session is in, whosever it is.
Quit(s) ==
  /\ s \in alive /\ step[s] \in {"idle", "menu"} /\ Gone(s)
  /\ lockFile' = [lockFile EXCEPT ![at[s]] = NoFile]
  /\ linked' = [q \in Sessions |-> linked[q] /\ goal[q] # at[s]]
  /\ UNCHANGED <<made, project, at, projectId>>

Crash(s) ==
  /\ s \in alive /\ Gone(s)
  /\ linked' = [linked EXCEPT ![s] = FALSE]
  /\ UNCHANGED <<made, lockFile, project, at, projectId>>

TreesNext ==
  \E s \in Sessions :
    \/ ReadProject(s) \/ CreateProject(s) \/ FillProject(s)
    \/ ListTests(s) \/ ListRemoves(s) \/ ListEnds(s) \/ CloseMenu(s) \/ WriteLock(s)
    \/ Quit(s) \/ Crash(s)
    \/ \E t \in Trees : ListReads(s, t) \/ Choose(s, t) \/ NewWorktree(s, t)

TreesSpec == TreesInit /\ [][TreesNext]_treeVars

-----------------------------------------------------------------------------
(* Properties *)

\* A project keeps its number, and with it its worktrees: once a session has read it or
\* written it and nobody is creating one, it does not change.
ProjectKeepsId ==
  [][reading = {} /\ project \in Sessions => project' = project]_treeVars

\* The lock of a live session disappears or changes hands only when somebody switches
\* to its tree, quits there, or had found the lock stale when it looked.
LiveLockKept ==
  [][\A t \in Trees : lockFile[t] \in alive /\ lockFile'[t] # lockFile[t] =>
       \E s \in alive : \/ at'[s] = t /\ lockFile'[t] \in {Torn, s}
                        \/ at[s] = t /\ s \notin alive'
                        \/ step[s] = "remove" /\ goal[s] = t /\ seenLock[s] # lockFile[t]
  ]_treeVars

\* What sessions of one project rely on: the project's number and the locks of their trees.
LocksHold == []TreesTypeOK /\ ProjectKeepsId /\ LiveLockKept

-----------------------------------------------------------------------------
(* A statement the code does not keep *)

\* "Stale locks (dead PIDs) are auto-cleaned": what a listing cleans is stale.
OnlyStaleCleaned ==
  [][\A s \in Sessions : step[s] = "remove" /\ step'[s] = "list" =>
       lockFile[goal[s]] \notin alive]_treeVars
=============================================================================
