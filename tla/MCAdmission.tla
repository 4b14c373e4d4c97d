-------- MODULE MCAdmission --------
(* Who the hub lets in: memberships and provisioning links, with two identities, a link for many, a  *)
(* link for one address and two requests; and the key cache of the external verifier, with two       *)
(* verifications.  They share no state, so one of them moves in a behaviour while the other rests.   *)
EXTENDS TenantMembers, JwksCache

MCEmailOf == [i \in Identities |-> IF i = "b" THEN "b@x" ELSE "a@x"]
MCLinkRole == [l \in Links |-> IF l = "open" THEN "tenant_admin" ELSE "operator"]
MCLinkEmail == [l \in Links |-> IF l = "open" THEN NoEmail ELSE "a@x"]
MCMaxUses == [l \in Links |-> IF l = "open" THEN 2 ELSE 1]

\* What the proofs assume of the constants.
ASSUME MembersConstants == MembersAssumption

VARIABLE part  \* the component that takes steps in this behaviour

AdmissionInit == part \in {"members", "keys"} /\ Init /\ JwksInit
AdmissionNext ==
    \/ part = "members" /\ Next /\ UNCHANGED <<part, jwksVars>>
    \/ part = "keys" /\ JwksNext /\ UNCHANGED <<part, vars>>
AdmissionSpec == AdmissionInit /\ [][AdmissionNext]_<<part, vars, jwksVars>>
=============================================================================
