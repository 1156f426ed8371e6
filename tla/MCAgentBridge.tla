------------------------------- MODULE MCAgentBridge -------------------------------
(* Model values for AgentBridge alone: two projects, documents of two contents and   *)
(* one thread of the agent.                                                          *)
EXTENDS AgentBridge

CONSTANTS p1, p2, d1, d2, h1

MCScopes == {p1, p2}
MCContents == {d1, d2}
MCThreads == {h1}
====================================================================================
