------------------------- MODULE MCBackgroundAgents -------------------------
(* Three agents, one of which may need approval, and a channel of two slots:*)
(* "done" statuses compete with each other and with progress for room.      *)
EXTENDS BackgroundAgents

CONSTANTS b1, b2, b3

MCBgAgent == {b1, b2, b3}
MCTwoAgents == {b1, b2}
MCAsking == {b1}
=============================================================================
