-------------------------- MODULE MCAgentSession --------------------------
(* A small instance of AgentSession for TLC: a keyboard beside one that    *)
(* only looks, and any other attachment beside one that steers.            *)
EXTENDS AgentSession

CONSTANTS a1, a2

MCInit == Init /\ mode[a2] = IF mode[a1] = "interactive" THEN "snapshot" ELSE "steer"

MCSpec == MCInit /\ [][Next]_vars /\ Fairness
=============================================================================
