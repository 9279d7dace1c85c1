---------------------------- MODULE MCAgentLoop ----------------------------
(* Small instances of AgentLoop: one for tool calls and approvals, one for  *)
(* background sub-agents.  A reply is one of a few that differ in the order *)
(* and the kinds of their calls.                                            *)
EXTENDS AgentLoop

CONSTANTS b1, b2

MCTwoAgents == {b1, b2}
MCOneAgent == {b1}

MCToolReplies ==
  {<<>>, <<"plain">>, <<"guarded", "guarded">>, <<"fg", "guarded", "fg">>, <<"unknown", "plain">>}
MCLoopReplies == MCToolReplies \cup {<<"bg">>}
MCBgReplies == {<<>>, <<"bg">>, <<"bg", "bg">>, <<"plain", "bg">>}
MCMixedReplies == {<<>>, <<"bg">>, <<"guarded">>}
=============================================================================
