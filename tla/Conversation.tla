---------------------------- MODULE Conversation ----------------------------
(***************************************************************************)
(* The stored conversation as the agent and the commands grow, trim and    *)
(* leave it (agent_loops.go clearOldToolResults and maybeCompact,          *)
(* compact.go, commands.go /compact and /clear, tree.go loadConversation,  *)
(* headless.go --continue).  Storage is a forest of nodes; a branch is the *)
(* path from a root to a node, and a turn grows one from agentNodeID.      *)
(***************************************************************************)
EXTENDS Naturals, Sequences, FiniteSets, FiniteSetsExt, SequencesExt

CONSTANTS
  ClearKeep,   \* clearKeepRecent, 4 in the code
  CompactKeep, \* compactKeepRecent, 6 in the code
  Sizes,       \* how much clearing a result frees, in steps of the excess
  MaxExcess,   \* bound: by how many steps the input passes the threshold
  MaxNodes,    \* bound: stored nodes
  MaxCompactions, \* bound: compactions
  MaxTurnsAsked   \* bound: prompts

ASSUME ConversationAssumption ==
  /\ {ClearKeep, CompactKeep, MaxExcess, MaxNodes, MaxCompactions, MaxTurnsAsked} \subseteq Nat /\ Sizes \subseteq Nat
  /\ CompactKeep <= 2 * ClearKeep + 1

VARIABLES
  nodes,       \* storage: per node [parent, kind, says, size, cleared]
  agentNodeID, \* App.agentNodeID, 0 for none
  turn,        \* the agent's loop: "idle", "asks", "asks again", "tools"
  leaf,        \* the node the loop is at
  started,     \* history: the node of the last prompt
  compacted    \* history: compactions, [old, root, leaf, told]

convVars == <<nodes, agentNodeID, turn, leaf, started, compacted>>

\* says: the messages a node stands for, by the number of the node that said them first.
Node(parent, kind, says) ==
  [parent |-> parent, kind |-> kind, says |-> says, size |-> 0, cleared |-> FALSE]
NodeIds == 1..Len(nodes)
Room(k) == Len(nodes) + k <= MaxNodes

\* GetAncestors: from the root to the node.
BranchOf(store) ==
  LET path[n \in 0..Len(store)] == IF n = 0 THEN <<>> ELSE Append(path[store[n].parent], n)
  IN path
Branch(n) == BranchOf(nodes)[n]

Said(store, path) == UNION {store[path[i]].says : i \in DOMAIN path}

ConversationTypeOK ==
  /\ Len(nodes) <= MaxNodes
  /\ \A n \in NodeIds : /\ nodes[n].parent \in 0..(n - 1)
                        /\ nodes[n].kind \in {"prompt", "reply", "call", "result", "summary"}
                        /\ nodes[n].says \subseteq NodeIds
                        /\ nodes[n].cleared => nodes[n].kind = "result"
  /\ agentNodeID \in 0..Len(nodes) /\ leaf \in 0..Len(nodes) /\ started \in 0..Len(nodes)
  /\ turn \in {"idle", "asks", "asks again", "tools"}
  /\ \A c \in compacted : {c.old, c.root, c.leaf} \subseteq NodeIds

ConversationInit ==
  /\ nodes = <<>> /\ agentNodeID = 0 /\ turn = "idle" /\ leaf = 0 /\ started = 0 /\ compacted = {}

-----------------------------------------------------------------------------
(* The agent                                                                *)

Grow(kind) == Append(nodes, Node(leaf, kind, {Len(nodes) + 1}))

\* startAgent: the turn goes on from agentNodeID, or from nothing.
Prompt ==
  /\ turn = "idle" /\ Room(2)
  /\ Cardinality({n \in NodeIds : nodes[n].says = {n} /\ nodes[n].kind = "prompt"}) < MaxTurnsAsked
  /\ nodes' = Append(nodes, Node(agentNodeID, "prompt", {Len(nodes) + 1}))
  /\ turn' = "asks" /\ leaf' = Len(nodes) + 1 /\ started' = leaf'
  /\ UNCHANGED <<agentNodeID, compacted>>

\* EventDone; without a node the application stays where it was.
Done(n) ==
  /\ turn' = "idle" /\ leaf' = 0
  /\ agentNodeID' = IF n = 0 THEN agentNodeID ELSE n

Fails ==
  /\ turn \in {"asks", "asks again"} /\ Done(0)
  /\ UNCHANGED <<nodes, started, compacted>>

\* The first reply of a turn is neither cleared for nor compacted.
ModelReplies ==
  /\ turn = "asks" /\ Room(1)
  /\ \/ nodes' = Grow("reply") /\ Done(Len(nodes'))
     \/ /\ nodes' = Grow("call") /\ turn' = "tools" /\ leaf' = Len(nodes')
        /\ UNCHANGED agentNodeID
  /\ UNCHANGED <<started, compacted>>

\* The tools have run.  A cancelled turn ends with its calls unanswered.
Results ==
  /\ turn = "tools"
  /\ \/ /\ Room(2) /\ turn' = "asks again" /\ leaf' = Len(nodes) + 1
        /\ \E s \in Sizes :
             nodes' = Append(nodes, [Node(leaf, "result", {Len(nodes) + 1}) EXCEPT !.size = s])
        /\ UNCHANGED agentNodeID
     \/ Done(leaf) /\ UNCHANGED nodes
  /\ UNCHANGED <<started, compacted>>

-----------------------------------------------------------------------------
(* Clearing                                                                 *)

IsResult(store, n) == store[n].kind = "result"

\* candidates[i + 1:]
ResultsAfter(store, path, i) == {j \in DOMAIN path : j > i /\ IsResult(store, path[j])}

\* Not the code: one result too many may go.
ClearableAlsoRecent(store, path) ==
  {path[i] : i \in {i \in DOMAIN path : /\ IsResult(store, path[i]) /\ ~store[path[i]].cleared
                                        /\ Cardinality(ResultsAfter(store, path, i)) + 1 >= ClearKeep}}

Clearable(store, path) ==
  {path[i] : i \in {i \in DOMAIN path : /\ IsResult(store, path[i]) /\ ~store[path[i]].cleared
                                        /\ Cardinality(ResultsAfter(store, path, i)) >= ClearKeep}}

Freed(store, set) == FoldSet(LAMBDA n, sum : store[n].size + sum, 0, set)

\* clearOldToolResults: the biggest first, until the estimate is below the threshold.
ClearsEnough(store, path, set, excess) ==
  LET may == Clearable(store, path) IN
  /\ set \subseteq may
  /\ \A n \in set, k \in may \ set : store[n].size >= store[k].size
  /\ set = may \/ Freed(store, set) > excess
  /\ \/ set = {}
     \/ \E last \in set : /\ \A n \in set : store[last].size <= store[n].size
                          /\ Freed(store, set \ {last}) <= excess

ClearAll(store, set) ==
  [n \in DOMAIN store |-> IF n \in set THEN [store[n] EXCEPT !.cleared = TRUE] ELSE store[n]]

-----------------------------------------------------------------------------
(* Compaction                                                               *)

\* Not the code: the summary ends one message too early.
SummarisedButOne(path) == SubSeq(path, 1, Len(path) - CompactKeep - 1)

\* oldNodes
Summarised(path) == SubSeq(path, 1, Len(path) - CompactKeep)
Recent(path) == SubSeq(path, Len(path) - CompactKeep + 1, Len(path))

\* compactConversation: a root that is the summary, then copies of the recent nodes, as many
\* as storage takes.
Compacted(store, path, copies) ==
  LET root == Len(store) + 1
      copy(i) == [store[Recent(path)[i]] EXCEPT !.parent = Len(store) + i]
  IN Append(store, Node(0, "summary", Said(store, Summarised(path))))
     \o [i \in 1..copies |-> copy(i)]

Noted(store, old, copies) ==
  compacted' = compacted \cup {[old |-> old, root |-> Len(store) + 1,
                                leaf |-> Len(store) + 1 + copies, told |-> CompactKeep]}

\* maybeCompact, /compact: a failure before the root is written leaves everything as it was.
Compacts(store, old, copies) ==
  /\ Len(BranchOf(store)[old]) > CompactKeep /\ Len(store) + copies + 1 <= MaxNodes
  /\ Cardinality(compacted) < MaxCompactions
  /\ nodes' = Compacted(store, BranchOf(store)[old], copies)
  /\ agentNodeID' = Len(nodes')
  /\ Noted(store, old, copies)

\* A reply to results: its tokens decide what is cleared and whether the branch is compacted;
\* then its calls are run, or the turn is over.  That storage does not take an update goes
\* unnoticed.
RepliesAgain ==
  /\ turn = "asks again" /\ Room(1)
  /\ \E kind \in {"reply", "call"} :
       LET grown == Grow(kind)
           path == BranchOf(grown)[Len(grown)]
           goesOn(n) == IF kind = "call" THEN turn' = "tools" /\ leaf' = n
                                         ELSE turn' = "idle" /\ leaf' = 0
       IN \/ /\ nodes' = grown /\ goesOn(Len(grown))
             /\ agentNodeID' = IF kind = "reply" THEN Len(grown) ELSE agentNodeID
             /\ UNCHANGED compacted
          \/ \E excess \in 0..MaxExcess : \E set \in SUBSET Clearable(grown, path) :
               /\ ClearsEnough(grown, path, set, excess)
               /\ \E stored \in SUBSET set :
                    LET cleared == ClearAll(grown, stored) IN
                    \/ /\ nodes' = cleared /\ goesOn(Len(grown))
                       /\ agentNodeID' = IF kind = "reply" THEN Len(grown) ELSE agentNodeID
                       /\ UNCHANGED compacted
                    \/ \E copies \in 0..CompactKeep :
                         /\ Compacts(cleared, Len(grown), copies)
                         /\ goesOn(Len(nodes'))
  /\ UNCHANGED started

-----------------------------------------------------------------------------
(* The commands                                                             *)

\* handleCompactCommand; the turn that runs meanwhile goes on where it was.
CompactCommand ==
  /\ agentNodeID # 0
  /\ \E copies \in 0..CompactKeep : Compacts(nodes, agentNodeID, copies)
  /\ UNCHANGED <<turn, leaf, started>>

\* /clear cancels the turn; that its end may still be reported is AgentUI's concern.
ClearCommand ==
  /\ agentNodeID # 0
  /\ agentNodeID' = 0 /\ turn' = "idle" /\ leaf' = 0
  /\ UNCHANGED <<nodes, started, compacted>>

Roots == {n \in NodeIds : nodes[n].parent = 0}
Depth(n) == Len(Branch(n))
Subtree(r) == {n \in NodeIds : Head(Branch(n)) = r}

\* loadConversation: the last of the subtree, which is ordered by sequence.
LoadConversation ==
  /\ turn = "idle"
  /\ \E r \in Roots : \E n \in Subtree(r) :
       /\ \A k \in Subtree(r) : Depth(k) <= Depth(n)
       /\ agentNodeID' = n
  /\ UNCHANGED <<nodes, turn, leaf, started, compacted>>

\* A new process: --continue takes any node, and nothing else is remembered.
Continue ==
  /\ agentNodeID' \in 0..Len(nodes) /\ turn' = "idle" /\ leaf' = 0
  /\ UNCHANGED <<nodes, started, compacted>>

ConversationNext ==
  \/ Prompt \/ ModelReplies \/ Fails \/ Results \/ RepliesAgain
  \/ CompactCommand \/ ClearCommand \/ LoadConversation \/ Continue

ConversationSpec == ConversationInit /\ [][ConversationNext]_convVars

-----------------------------------------------------------------------------
(* Properties *)

Told(c) == Cardinality({i \in DOMAIN Branch(c.leaf) : i > 1})

\* Compaction loses nothing and repeats nothing: when storage takes every copy, what the old
\* branch said is either in the summary or told again, in the order it was said.
NothingLost ==
  \A c \in compacted : Told(c) >= CompactKeep =>
    LET told == SubSeq(Branch(c.leaf), 2, CompactKeep + 1) IN
    /\ nodes[c.root].says \cap Said(nodes, told) = {}
    /\ nodes[c.root].says \cup Said(nodes, told) = Said(nodes, Branch(c.old))

\* While a turn goes on, the last ClearKeep results it has asked for can be read: they are not
\* cleared, also when clearing and compaction meet.  This needs every compaction since the prompt
\* to have been stored in full: the turn goes on from where a shorter one ends, results
\* come to follow results, and more than ClearKeep of them are among the nodes copied next.
TurnResultsReadable ==
  (turn # "idle" /\ \A c \in compacted : c.root > started => Told(c) >= CompactKeep) =>
    LET path == Branch(leaf) IN
    \A i \in DOMAIN path :
      /\ IsResult(nodes, path[i]) /\ Min(nodes[path[i]].says) > started
      /\ Cardinality(ResultsAfter(nodes, path, i)) < ClearKeep
      => ~nodes[path[i]].cleared

\* Clearing and compaction, one after the other or one in the middle of the other, lose
\* nothing the model still works with.
ConversationInv == ConversationTypeOK /\ NothingLost /\ TurnResultsReadable

-----------------------------------------------------------------------------
(* Statements the code does not keep *)

\* KeptNodes: "how many recent nodes were preserved verbatim".
KeptAsReported == \A c \in compacted : Told(c) >= c.told
=============================================================================
