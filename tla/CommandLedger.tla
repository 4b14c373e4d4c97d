--------------------------- MODULE CommandLedger ---------------------------
(***************************************************************************)
(* What the command ledger promises a caller of the hub API, without pumps, *)
(* streams, leases and replicas: a command is submitted once, it is owned by *)
(* the one session that was current when it was dispatched, and from then on *)
(* only that session, and only while it is still current, moves it.        *)
(***************************************************************************)
CONSTANTS
    Commands, Prints,
    Gated, GcodeLines,  \* operations the hub itself may fail while queued
    Sessions, NoSession

VARIABLES
    status,   \* the command's status
    owner,    \* the session the command was dispatched to
    current,  \* the session the agent row names
    claimed   \* sessions that have been current

lvars == <<status, owner, current, claimed>>

Init ==
    /\ status = [c \in Commands |-> "none"]
    /\ owner = [c \in Commands |-> NoSession]
    /\ current = NoSession
    /\ claimed = {}

Set(c, value) == status' = [status EXCEPT ![c] = value]

\* A session becomes current once in its life, and stops being current.
Claim(s) ==
    /\ s \notin claimed
    /\ claimed' = claimed \cup {s}
    /\ current' = s
    /\ UNCHANGED <<status, owner>>

Release ==
    /\ current' = NoSession
    /\ UNCHANGED <<status, owner, claimed>>

Submit(c) ==
    /\ status[c] = "none"
    /\ Set(c, "queued")
    /\ UNCHANGED <<owner, current, claimed>>

\* The user withdraws a print, or the hub refuses a gated operation; both only
\* while the command is queued.
Withdraw(c) ==
    /\ status[c] = "queued"
    /\ \/ c \in Prints /\ Set(c, "cancelled")
       \/ c \in Gated \cup GcodeLines /\ Set(c, "failed")
    /\ UNCHANGED <<owner, current, claimed>>

Dispatch(c) ==
    /\ status[c] = "queued"
    /\ current # NoSession
    /\ owner[c] = NoSession
    /\ Set(c, "sent")
    /\ owner' = [owner EXCEPT ![c] = current]
    /\ UNCHANGED <<current, claimed>>

Acknowledge(c) ==
    /\ status[c] = "sent"
    /\ owner[c] = current
    /\ Set(c, "acknowledged")
    /\ UNCHANGED <<owner, current, claimed>>

Finish(c) ==
    /\ status[c] \in {"sent", "acknowledged"}
    /\ owner[c] = current
    /\ Set(c, "succeeded") \/ Set(c, "failed")
    /\ UNCHANGED <<owner, current, claimed>>

Next ==
    \/ \E s \in Sessions : Claim(s)
    \/ Release
    \/ \E c \in Commands :
        Submit(c) \/ Withdraw(c) \/ Dispatch(c) \/ Acknowledge(c) \/ Finish(c)

Spec == Init /\ [][Next]_lvars
============================================================================
