-------------------------- MODULE MCAgentSessions --------------------------
(* Three connections of one agent over two replicas: two race at h1, the   *)
(* third reconnects through h2.                                            *)
EXTENDS AgentSessions
CONSTANTS h1, h2, s1, s2, s3

MCHubOf == [s \in Sessions |-> IF s = s3 THEN h2 ELSE h1]
============================================================================
