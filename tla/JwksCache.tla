------------------------------ MODULE JwksCache ------------------------------
(***************************************************************************)
(* The key cache of the external JWT verifier: keys are kept for a TTL, an    *)
(* unknown key id refreshes them at most once per cooldown, one refresh at a  *)
(* time.  The identity provider publishes and withdraws keys, and fails.      *)
(***************************************************************************)
EXTENDS Naturals, FiniteSets

CONSTANTS Keys,       \* key ids
          Verifications,   \* verifications in flight
          Ttl,        \* JWKS_CACHE_TTL, in ticks
          Cooldown,   \* JWKS_REFRESH_COOLDOWN, in ticks
          MaxTime     \* bound: ticks

JwksAssumption ==
    /\ Ttl \in Nat /\ Cooldown \in Nat \ {0} /\ Cooldown <= Ttl /\ MaxTime \in Nat
    /\ "none" \notin Verifications
ASSUME JwksConstants == JwksAssumption

VARIABLES now, published,  \* the provider's keys
          cache,           \* keys and when they were fetched; none at first
          holder,          \* refresh_lock
          ver,             \* verifications
          fetches          \* times of the fetches that succeeded

jwksVars == <<now, published, cache, holder, ver, fetches>>

NoCache == [some |-> FALSE, keys |-> {}, at |-> 0]
NotVerifying == [pc |-> "idle", kid |-> "none", unknown |-> FALSE, from |-> 0, got |-> NoCache, result |-> "none"]

JwksTypeOK ==
    /\ now \in 0..MaxTime /\ published \subseteq Keys /\ cache.keys \subseteq Keys /\ cache.at <= now
    /\ \A r \in Verifications : ver[r].pc \in {"idle", "lock", "check", "fetch", "store", "find", "claims", "done"}
    /\ \A r \in Verifications : ver[r].result \in {"none", "verified", "refused", "unknownKey", "jwksError"}

JwksInit ==
    /\ now = 0 /\ published = {} /\ cache = NoCache /\ holder = "none"
    /\ ver = [r \in Verifications |-> NotVerifying] /\ fetches = {}

Fresh(age) == cache.some /\ now - cache.at < age

-----------------------------------------------------------------------------
Tick ==
    /\ now < MaxTime /\ now' = now + 1 /\ UNCHANGED <<published, cache, holder, ver, fetches>>
\* External: the provider rotates its keys.
Publish(k) ==
    /\ published' = IF k \in published THEN published \ {k} ELSE published \union {k}
    /\ UNCHANGED <<now, cache, holder, ver, fetches>>

\* cached_or_fetch: a fresh cache is used as it is, otherwise the refresh is queued.
BeginVerify(r, k) ==
    /\ ver[r].pc = "idle"
    /\ ver' = [ver EXCEPT ![r] = [NotVerifying EXCEPT !.kid = k, !.from = now, !.got = cache,
                                              !.pc = IF Fresh(Ttl) THEN "find" ELSE "lock"]]
    /\ UNCHANGED <<now, published, cache, holder, fetches>>

TakeRefreshLock(r) ==
    /\ ver[r].pc = "lock" /\ holder = "none" /\ holder' = r /\ ver' = [ver EXCEPT ![r].pc = "check"]
    /\ UNCHANGED <<now, published, cache, fetches>>

\* Mutant: the cache is not looked at again under the lock.
CheckAgeNot(r) ==
    /\ ver[r].pc = "check" /\ ver' = [ver EXCEPT ![r].pc = "fetch"]
    /\ UNCHANGED <<now, published, cache, holder, fetches>>

\* Another request may have refreshed it while this one waited.
CheckAge(r) ==
    /\ ver[r].pc = "check"
    /\ IF Fresh(IF ver[r].unknown THEN Cooldown ELSE Ttl)
       THEN holder' = "none" /\ ver' = [ver EXCEPT ![r].pc = "find", ![r].got = cache]
       ELSE UNCHANGED holder /\ ver' = [ver EXCEPT ![r].pc = "fetch"]
    /\ UNCHANGED <<now, published, cache, fetches>>

\* load_jwks: the answer is of this moment; storing it takes another step.
Fetch(r) ==
    /\ ver[r].pc = "fetch"
    /\ ver' = [ver EXCEPT ![r].pc = "store", ![r].got = [some |-> TRUE, keys |-> published, at |-> now]]
    /\ UNCHANGED <<now, published, cache, holder, fetches>>

FetchFails(r) ==
    /\ ver[r].pc = "fetch" /\ ver' = [ver EXCEPT ![r].pc = "done", ![r].result = "jwksError"] /\ holder' = "none"
    /\ UNCHANGED <<now, published, cache, fetches>>

Store(r) ==
    /\ ver[r].pc = "store" /\ holder' = "none"
    /\ cache' = [ver[r].got EXCEPT !.at = now] /\ fetches' = fetches \union {now}
    /\ ver' = [ver EXCEPT ![r].pc = "find", ![r].got.at = now]
    /\ UNCHANGED <<now, published>>

\* The key is found, or the keys are refreshed once for it.
Find(r) ==
    /\ ver[r].pc = "find"
    /\ ver' = [ver EXCEPT ![r] =
                  IF ver[r].kid \in ver[r].got.keys THEN [@ EXCEPT !.pc = "claims"]
                  ELSE IF ~ver[r].unknown THEN [@ EXCEPT !.pc = "lock", !.unknown = TRUE]
                  ELSE [@ EXCEPT !.pc = "done", !.result = "unknownKey"]]
    /\ UNCHANGED <<now, published, cache, holder, fetches>>
\* validate_jwk, the signature and the claims: sound or not.
CheckClaims(r, sound) ==
    /\ ver[r].pc = "claims"
    /\ ver' = [ver EXCEPT ![r].pc = "done", ![r].result = IF sound THEN "verified" ELSE "refused"]
    /\ UNCHANGED <<now, published, cache, holder, fetches>>
Answer(r) ==
    /\ ver[r].pc = "done" /\ ver' = [ver EXCEPT ![r] = NotVerifying]
    /\ UNCHANGED <<now, published, cache, holder, fetches>>

VerifyStep(r) ==
    \/ TakeRefreshLock(r) \/ CheckAge(r) \/ Fetch(r) \/ FetchFails(r) \/ Store(r) \/ Find(r) \/ Answer(r)
    \/ \E sound \in BOOLEAN : CheckClaims(r, sound)
JwksNext ==
    \/ Tick
    \/ \E k \in Keys : Publish(k)
    \/ \E r \in Verifications : VerifyStep(r) \/ (\E k \in Keys : BeginVerify(r, k))

JwksSpec == JwksInit /\ [][JwksNext]_jwksVars
\* tokio's mutex is fair, requests run on and the fetch has a timeout.
JwksFairSpec == JwksSpec /\ \A r \in Verifications : SF_jwksVars(VerifyStep(r))

-----------------------------------------------------------------------------
\* The provider is asked successfully at most once per cooldown, however many requests with
\* unknown keys come at once.
FetchesSpaced == \A r \in Verifications : ver[r].pc = "store" => \A f \in fetches : ver[r].got.at >= f + Cooldown

\* A key is only accepted from keys that were at most a TTL old when the request began.
KeysRecent == \A r \in Verifications : ver[r].pc = "done" /\ ver[r].result = "verified" =>
                  ver[r].got.at + Ttl > ver[r].from

\* An unknown key is final only against keys that are younger than the cooldown or were fetched
\* for this request: a key the provider published is refused for at most the cooldown.
UnknownIsRecent == \A r \in Verifications : ver[r].pc = "done" /\ ver[r].result = "unknownKey" =>
                       ver[r].got.at + Cooldown > ver[r].from

\* The provider is spared and the keys a token is accepted or refused by are recent enough.
VerifierSafe == JwksTypeOK /\ FetchesSpaced /\ KeysRecent /\ UnknownIsRecent

\* Every verification is answered although they wait for each other's refreshes.
VerificationEnds == \A r \in Verifications : (ver[r].pc # "idle") ~> (ver[r].pc = "idle")
=============================================================================
