SPECIFICATION AdmissionSpec
CONSTANTS
    Identities = {"a", "b"}
    Links = {"open", "bound"}
    EmailOf <- MCEmailOf
    LinkRole <- MCLinkRole
    LinkEmail <- MCLinkEmail
    MaxUses <- MCMaxUses
    Requests = {"p", "q"}
    Changes = {"operator", "gone"}
    MaxUsers = 3
    Keys = {k}
    Verifications = {"p", "q"}
    Ttl = 3
    Cooldown = 1
    MaxTime = 3
INVARIANTS
    MembersSafe
    VerifierSafe
CHECK_DEADLOCK FALSE
