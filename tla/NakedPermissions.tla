------------------------- MODULE NakedPermissions -------------------------
(***************************************************************************)
(* Approvals of naked mode (naked_permissions.go): a store per turn holds  *)
(* what the user allowed once, a file shared by all stores of a workspace, *)
(* other processes' among them, what was allowed for good.  Agents of one  *)
(* store, the main one and its sub-agents, run bash and                    *)
(* request_permissions calls at the same time (tools.go, naked.go).  A     *)
(* command stands here for the permissions it needs: its segments and the  *)
(* paths outside the workspace; patterns in the file for those they match. *)
(***************************************************************************)
EXTENDS Naturals, FiniteSets

CONSTANTS
  Agents,  \* agents that call tools
  Stores,  \* permission stores
  StoreOf, \* the store of each agent
  Needs,   \* segments and paths commands need
  Grants   \* sandbox permissions that can be requested: read, write, network

Nobody == "nobody"
ASSUME NakedAssumption ==
  /\ StoreOf \in [Agents -> Stores] /\ Nobody \notin Agents
  /\ Needs \cap Grants = {}

VARIABLES
  permFile, \* .herm/permissions.json: the permissions in it, or TornFile
  once,     \* per store, what was allowed once
  mutex,    \* nakedPermissionStore.mu: the agent that holds it through a save, or Nobody
  doing,    \* per agent: where its call stands
  needs,    \* what the call needs: grants only, if it is a request_permissions call
  loaded,   \* what a save has read from the file
  given,    \* what a run was given: external paths, then granted permissions
  owed,     \* history: grants the user gave that no later run of the agent has been given
  remembered, \* history: what was saved for good
  clash     \* history: a save overlapped another one or was cut off by a crash

nakedVars == <<permFile, once, mutex, doing, needs, loaded, given, owed, remembered, clash>>

TornFile == {"torn"}
Perms == Needs \cup Grants
Readable == permFile # TornFile

NakedTypeOK ==
  /\ permFile \in (SUBSET Perms) \cup {TornFile}
  /\ once \in [Stores -> SUBSET Perms]
  /\ mutex \in [Stores -> Agents \cup {Nobody}]
  /\ doing \in [Agents -> {"idle", "asking", "truncate", "fill", "run", "ready",
                           "command", "finish", "dead"}]
  /\ needs \in [Agents -> SUBSET Perms]
  /\ loaded \in [Agents -> SUBSET Perms] /\ given \in [Agents -> SUBSET Perms]
  /\ owed \in [Agents -> SUBSET Grants]
  /\ remembered \subseteq Perms /\ clash \in BOOLEAN

NakedInit ==
  /\ permFile = {} /\ once = [s \in Stores |-> {}]
  /\ mutex = [s \in Stores |-> Nobody]
  /\ doing = [a \in Agents |-> "idle"]
  /\ needs = [a \in Agents |-> {}] /\ loaded = [a \in Agents |-> {}]
  /\ given = [a \in Agents |-> {}] /\ owed = [a \in Agents |-> {}]
  /\ remembered = {} /\ clash = FALSE

Does(a, what) == doing' = [doing EXCEPT ![a] = what]
MutexFree(a) == mutex[StoreOf[a]] = Nobody

Ends(a) == Does(a, "idle") /\ needs' = [needs EXCEPT ![a] = {}]

\* A request_permissions call is over as soon as it is allowed; a command runs.
Proceed(a, n) ==
  IF n \subseteq Grants THEN Ends(a) ELSE Does(a, "run") /\ needs' = [needs EXCEPT ![a] = n]

-----------------------------------------------------------------------------
(* RequiresApproval, the user's answer, RecordApproval                      *)

\* commandAllowedLocked, pathAllowedLocked.  A file that cannot be read allows nothing.
Allowed(a, n) == Readable /\ n \subseteq permFile \cup once[StoreOf[a]]

\* A command needs each of its segments and each path outside of the workspace that it names.
CommandNeeds == SUBSET Needs

Asks(a, n) ==
  /\ doing[a] = "idle" /\ MutexFree(a) /\ n # {}
  /\ IF Allowed(a, n)
       THEN Proceed(a, n)
       ELSE Does(a, "asking") /\ needs' = [needs EXCEPT ![a] = n]
  /\ UNCHANGED <<permFile, once, mutex, loaded, given, owed, remembered, clash>>

\* RequestedPermissionsRequireApproval: the same for a request_permissions call.
AsksForGrants(a, n) == n \subseteq Grants /\ Asks(a, n)

Denied(a) ==
  /\ doing[a] = "asking" /\ Ends(a)
  /\ UNCHANGED <<permFile, once, mutex, loaded, given, owed, remembered, clash>>

Owes(a) == owed' = [owed EXCEPT ![a] = @ \cup (needs[a] \cap Grants)]

AllowedOnce(a) ==
  /\ doing[a] = "asking" /\ MutexFree(a)
  /\ once' = [once EXCEPT ![StoreOf[a]] = @ \cup needs[a]]
  /\ Proceed(a, needs[a]) /\ Owes(a)
  /\ UNCHANGED <<permFile, mutex, loaded, given, remembered, clash>>

\* Remember: load, and save if that changes anything, all under the store's lock.  An
\* unreadable file makes the call fail although it was approved.
AllowedAlways(a) ==
  /\ doing[a] = "asking" /\ MutexFree(a)
  /\ IF ~Readable THEN Ends(a) /\ UNCHANGED <<mutex, loaded, clash>>
     ELSE IF needs[a] \subseteq permFile THEN Proceed(a, needs[a]) /\ UNCHANGED <<mutex, loaded, clash>>
     ELSE /\ Does(a, "truncate") /\ UNCHANGED needs /\ mutex' = [mutex EXCEPT ![StoreOf[a]] = a]
          /\ loaded' = [loaded EXCEPT ![a] = permFile]
          /\ clash' = (clash \/ \E s \in Stores : mutex[s] # Nobody)
  /\ UNCHANGED <<permFile, once, given, owed, remembered>>

\* RecordApproval and RecordRequestedPermissions have one course.
CommandAllowed(a) == ~(needs[a] \subseteq Grants) /\ (AllowedOnce(a) \/ AllowedAlways(a))
GrantsAllowed(a) == needs[a] \subseteq Grants /\ (AllowedOnce(a) \/ AllowedAlways(a))

SaveTruncates(a) ==
  /\ doing[a] = "truncate" /\ Does(a, "fill")
  /\ permFile' = TornFile
  /\ UNCHANGED <<once, mutex, needs, loaded, given, owed, remembered, clash>>

\* Not the code: what the file held before is not written back.
SaveOnlyNew(a) ==
  /\ doing[a] = "fill" /\ Proceed(a, needs[a]) /\ Owes(a)
  /\ permFile' = needs[a] /\ remembered' = remembered \cup needs[a]
  /\ mutex' = [mutex EXCEPT ![StoreOf[a]] = Nobody] /\ loaded' = [loaded EXCEPT ![a] = {}]
  /\ UNCHANGED <<once, given, clash>>

SaveFills(a) ==
  /\ doing[a] = "fill" /\ Proceed(a, needs[a]) /\ Owes(a)
  /\ permFile' = loaded[a] \cup needs[a]
  /\ remembered' = remembered \cup needs[a]
  /\ mutex' = [mutex EXCEPT ![StoreOf[a]] = Nobody] /\ loaded' = [loaded EXCEPT ![a] = {}]
  /\ UNCHANGED <<once, given, clash>>

-----------------------------------------------------------------------------
(* RunBash and what is deferred in it and in BashTool.Execute               *)

\* AllowedExternalPaths; a command that runs outside the sandbox asks for nothing.
RunPaths(a) ==
  /\ doing[a] = "run" /\ MutexFree(a) /\ Does(a, "ready")
  /\ given' = [given EXCEPT ![a] =
       IF Readable THEN needs[a] \cap (permFile \cup once[StoreOf[a]]) ELSE {}]
  /\ UNCHANGED <<permFile, once, mutex, needs, loaded, owed, remembered, clash>>

\* RequestedSandboxPermissions: all that was granted, for this command or another.
RunGrants(a) ==
  /\ doing[a] = "ready" /\ MutexFree(a) /\ Does(a, "command")
  /\ given' = [given EXCEPT ![a] =
       IF Readable THEN @ \cup ((permFile \cup once[StoreOf[a]]) \cap Grants) ELSE @]
  /\ owed' = [owed EXCEPT ![a] = @ \ given'[a]]
  /\ UNCHANGED <<permFile, once, mutex, needs, loaded, remembered, clash>>

\* FinishRequestedPermissionsOnce: the first run to end takes every grant with it.  A
\* run that bypasses the sandbox comes here directly.
RunEnds(a) ==
  /\ doing[a] \in {"run", "command"} /\ MutexFree(a) /\ Does(a, "finish")
  /\ once' = [once EXCEPT ![StoreOf[a]] = @ \ Grants]
  /\ given' = [given EXCEPT ![a] = {}]
  /\ UNCHANGED <<permFile, mutex, needs, loaded, owed, remembered, clash>>

\* Not the code: what was allowed for one run is left to the next.
NotFinished(a) ==
  /\ doing[a] = "finish" /\ MutexFree(a) /\ Ends(a)
  /\ UNCHANGED <<permFile, once, mutex, loaded, given, owed, remembered, clash>>

\* FinishApproval, also when the run fails.
FinishApproval(a) ==
  /\ doing[a] = "finish" /\ MutexFree(a) /\ Ends(a)
  /\ once' = [once EXCEPT ![StoreOf[a]] = @ \ needs[a]]
  /\ UNCHANGED <<permFile, mutex, loaded, given, owed, remembered, clash>>

\* The process of a store is killed with all its agents.
StoreDies(s) ==
  /\ \E a \in Agents : StoreOf[a] = s /\ doing[a] # "dead"
  /\ doing' = [a \in Agents |-> IF StoreOf[a] = s THEN "dead" ELSE doing[a]]
  /\ once' = [once EXCEPT ![s] = {}] /\ mutex' = [mutex EXCEPT ![s] = Nobody]
  /\ clash' = (clash \/ mutex[s] # Nobody)
  /\ owed' = [a \in Agents |-> IF StoreOf[a] = s THEN {} ELSE owed[a]]
  /\ needs' = [a \in Agents |-> IF StoreOf[a] = s THEN {} ELSE needs[a]]
  /\ UNCHANGED <<permFile, loaded, given, remembered>>

NakedNext ==
  \/ \E a \in Agents :
       \/ \E n \in CommandNeeds : Asks(a, n)
       \/ \E n \in SUBSET Grants : AsksForGrants(a, n)
       \/ Denied(a) \/ CommandAllowed(a) \/ GrantsAllowed(a) \/ SaveTruncates(a) \/ SaveFills(a)
       \/ RunPaths(a) \/ RunGrants(a) \/ RunEnds(a) \/ FinishApproval(a)
  \/ \E s \in Stores : StoreDies(s)

NakedSpec == NakedInit /\ [][NakedNext]_nakedVars

-----------------------------------------------------------------------------
(* Properties *)

\* What was allowed once for a command lasts no longer than a run that needs it:
\* parallel runs of one command may shorten it, nothing prolongs it.
OnceEndsWithRun ==
  \A s \in Stores : \A n \in once[s] \cap Needs :
    \E a \in Agents : /\ StoreOf[a] = s /\ n \in needs[a]
                      /\ doing[a] \in {"run", "ready", "command", "finish"}

\* What was remembered stays remembered, through every later save, as long as no two
\* stores save at the same time and none is killed while it saves.
RememberedKept == ~clash /\ (\A s \in Stores : mutex[s] = Nobody) => remembered = permFile

\* Permissions last as long as the user was told: for one run, or for good.
NakedInv == NakedTypeOK /\ OnceEndsWithRun /\ RememberedKept

-----------------------------------------------------------------------------
(* A statement the code does not keep *)

\* "Approved permissions are applied to subsequent naked-mode sandboxed bash commands":
\* when a command starts, the grants its agent was promised before are given to it.
GrantReachesRun == \A a \in Agents : doing[a] = "command" => owed[a] = {}
=============================================================================
