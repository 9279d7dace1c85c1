----------------------------- MODULE MCRecords -----------------------------
(* What herm writes down: the prompt history, the locks of worktrees, the   *)
(* cached requests, the permissions, the conversation and its trace.  They  *)
(* are kept by different code and share no state, so a behaviour is about   *)
(* one of them, focus, and the others stand still.                          *)
EXTENDS PromptHistory, Worktrees, RequestCache, NakedPermissions, Conversation, Trace

VARIABLE focus

Kept == {"history", "trees", "cache", "naked", "conversation", "trace"}

mcVars ==
  <<histVars, treeVars, cacheVars, nakedVars, convVars, traceVars, focus>>

MCInit ==
  /\ HistoryInit /\ TreesInit /\ CacheInit /\ NakedInit /\ ConversationInit /\ TraceInit
  /\ focus \in Kept
  /\ focus # "trace" => app = <<>>   \* of two first states one is enough

MCNext ==
  /\ UNCHANGED focus
  /\ \/ focus = "history" /\ HistoryNext
     \/ focus # "history" /\ UNCHANGED histVars
  /\ \/ focus = "trees" /\ TreesNext
     \/ focus # "trees" /\ UNCHANGED treeVars
  /\ \/ focus = "cache" /\ CacheNext
     \/ focus # "cache" /\ UNCHANGED cacheVars
  /\ \/ focus = "naked" /\ NakedNext
     \/ focus # "naked" /\ UNCHANGED nakedVars
  /\ \/ focus = "conversation" /\ ConversationNext
     \/ focus # "conversation" /\ UNCHANGED convVars
  /\ \/ focus = "trace" /\ TraceNext
     \/ focus # "trace" /\ UNCHANGED traceVars

MCSpec == MCInit /\ [][MCNext]_mcVars

-----------------------------------------------------------------------------
(* One worktree beside each session's, two stores of which two agents share *)
(* one, replies that are whole and one that was cut off.                    *)

MCStoreOf == [a \in Agents |-> IF a = "other" THEN "s2" ELSE "s1"]

MCReplies ==
  {[blocks |-> <<"text", "tool">>, cut |-> FALSE],
   [blocks |-> <<"text">>, cut |-> FALSE],
   [blocks |-> <<"text">>, cut |-> TRUE]}
=============================================================================
