------------------------ MODULE MCCommandDispatch ------------------------
(* One agent, two replicas; s1 and s2 connect through h1, s3 through h2.   *)
EXTENDS CommandDispatch
CONSTANTS h1, h2, s1, s2, s3

MCHubOf == [s \in Sessions |-> IF s = s3 THEN h2 ELSE h1]
============================================================================
