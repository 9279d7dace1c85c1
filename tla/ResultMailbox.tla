--------------------------- MODULE ResultMailbox ---------------------------
(***************************************************************************)
(* What background sub-agents promise the agent that spawned them: every   *)
(* task produces one result, the result waits until the agent asks for     *)
(* what is ready, and an agent that asks gets everything that is ready,    *)
(* once.  Nothing is said of goroutines, channels or locks; the module     *)
(* BackgroundAgents is shown to implement this one.                        *)
(***************************************************************************)
CONSTANT Task

VARIABLE state   \* what has become of each task

TypeOK == state \in [Task -> {"idle", "working", "ready", "taken"}]

Init == state = [t \in Task |-> "idle"]

\* The agent hands out a task.
Start(t) ==
  /\ state[t] = "idle"
  /\ state' = [state EXCEPT ![t] = "working"]

\* The task's one result becomes available.
Complete(t) ==
  /\ state[t] = "working"
  /\ state' = [state EXCEPT ![t] = "ready"]

\* The agent takes every result that is ready.
TakeAll ==
  state' = [t \in Task |-> IF state[t] = "ready" THEN "taken" ELSE state[t]]

Next == (\E t \in Task : Start(t) \/ Complete(t)) \/ TakeAll

Spec == Init /\ [][Next]_state
=============================================================================
