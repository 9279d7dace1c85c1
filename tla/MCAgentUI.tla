----------------------------- MODULE MCAgentUI -----------------------------
(* Two turns with one request each and a channel of one or two slots: the   *)
(* second turn meets whatever the first one left behind.                    *)
EXTENDS AgentUI
=============================================================================
