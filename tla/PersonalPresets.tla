---------------------------- MODULE PersonalPresets ----------------------------
(***************************************************************************)
(* Personal presets: the hub's catalogue of one owner's presets             *)
(* (repositories/personal_presets, routes/plugin/personal_presets.rs) and   *)
(* the plugin that edits, lists and hands it to Studio (personal_presets,   *)
(* shim_personal_presets.hpp).                                              *)
(*                                                                          *)
(* A mutation is one transaction under a lock of the owner's user row; the  *)
(* owner clock stamps every change.  The plugin's caller may give up (15 s) *)
(* while the transaction still runs, and try again.  A list call collects   *)
(* the metadata and, one by one, the presets Studio asks for, publishes the *)
(* result for the account generation it started with, and Studio drains it. *)
(*                                                                          *)
(* The fields of a preset are one content value with its size in bytes;     *)
(* Studio is external: it keeps what it is given, by setting_id, with the   *)
(* updated_time it came with, and asks for a preset when that time differs. *)
(***************************************************************************)
EXTENDS Naturals, FiniteSets, Sequences

CONSTANTS
    Owners,        \* users with the Operator role
    Studios,       \* plugin instances
    Requests,      \* mutation requests
    Ids, Names,    \* setting ids, preset names
    Contents,      \* contents of a preset
    None,
    Size(_),       \* bytes of a content's options
    Envelope,      \* bytes the hub adds for its own fields
    StudioFields,  \* bytes setting_id, updated_time and user_id add to them
    MaxMapBytes,
    PresetLimit,   \* OWNER_PRESET_LIMIT
    MaxTime,       \* bound: owner clock, wall clock
    MaxEpoch,      \* bound: account changes of a plugin
    MaxCalls       \* bound: list and drain calls of a plugin

PresetsAssumption ==
    /\ None \notin Owners \cup Ids \cup Names \cup Contents
    /\ Envelope \in Nat /\ StudioFields \in Nat /\ MaxMapBytes \in Nat
    /\ PresetLimit \in Nat \ {0} /\ MaxTime \in Nat \ {0} /\ MaxEpoch \in Nat /\ MaxCalls \in Nat
    /\ \A c \in Contents : Size(c) \in Nat

VARIABLES
    users,    \* owners with a user row
    rows,     \* personal_presets
    used,     \* ids ever given out
    clock,    \* personal_preset_clocks
    now,      \* the hub's wall clock
    lock,     \* the transaction that holds the owner's row
    req,      \* mutation requests: the caller's part and the hub's
    account,  \* the plugin's account: owner and generation
    stale,    \* an account change has not reset the cache yet
    cache,    \* personal_presets/cache.rs
    list,     \* the list call of a plugin
    drain,    \* the drain call, and what the last one gave
    calls,    \* list and drain calls so far
    studio    \* Studio's copies

hub == <<users, rows, used, clock, now, lock>>
plugin == <<account, stale, cache, list, drain, calls, studio>>
vars == <<users, rows, used, clock, now, lock, req, account, stale, cache, list, drain, calls, studio>>

NoReq == [pc |-> "idle", studio |-> None, op |-> "none", owner |-> None, id |-> None,
          name |-> None, content |-> None, seen |-> None, time |-> 0, waiting |-> FALSE]
NoList == [pc |-> "idle", owner |-> None, gen |-> 0, todo |-> {}, all |-> {}, temp |-> {}, why |-> "none"]
NoDrain == [pc |-> "idle", owner |-> None, gen |-> 0, gave |-> {}]

Of(u) == {i \in Ids : rows[i] # None /\ rows[i].owner = u}
Named(u, n) == {i \in Of(u) : rows[i].name = n}

Init ==
    /\ users = Owners
    /\ rows = [i \in Ids |-> None] /\ used = {}
    /\ clock = [u \in Owners |-> 0] /\ now = 1
    /\ lock = [u \in Owners |-> None]
    /\ req = [q \in Requests |-> NoReq]
    /\ account \in [Studios -> [owner : Owners, gen : {0}]]
    /\ stale = [s \in Studios |-> FALSE]
    /\ cache = [s \in Studios |-> None]
    /\ list = [s \in Studios |-> NoList]
    /\ drain = [s \in Studios |-> NoDrain]
    /\ calls = [s \in Studios |-> 0]
    /\ studio = [s \in Studios |-> [i \in Ids |-> None]]

-----------------------------------------------------------------------------
(* Mutations *)

\* validate: the size of the options and of the hub's own fields.
Validates(c) == Size(c) + Envelope <= MaxMapBytes

\* preset_mutate with a copy of the account, authorised by the hub.  A
\* request may be a repetition of one whose answer was lost.
Send(q, s, op, i, n, c) ==
    /\ req[q].pc = "idle" /\ account[s].owner \in users
    /\ op = "create" => i = None
    /\ op # "create" => i \in Ids /\ studio[s][i] # None
    /\ op = "delete" <=> n = None
    /\ op = "delete" <=> c = None
    /\ op # "delete" => Validates(c)
    /\ \A p \in Requests : req[p].studio = s => ~req[p].waiting
    /\ req' = [req EXCEPT ![q] = [NoReq EXCEPT !.pc = "begin", !.studio = s, !.op = op, !.waiting = TRUE,
                                      !.owner = account[s].owner, !.id = i, !.name = n, !.content = c]]
    /\ UNCHANGED <<hub, plugin>>

\* Mutant: the transaction does not lock the owner's row.
LockOwnerNot(q) ==
    /\ req[q].pc = "begin" /\ req[q].owner \in users
    /\ req' = [req EXCEPT ![q].pc = "read"]
    /\ UNCHANGED <<hub, plugin>>

\* begin_write_transaction, lock_owner: an owner without a row is an error.
LockOwner(q) ==
    LET u == req[q].owner IN
    /\ req[q].pc = "begin" /\ lock[u] = None
    /\ IF u \in users
       THEN /\ lock' = [lock EXCEPT ![u] = q]
            /\ req' = [req EXCEPT ![q].pc = "read"]
       ELSE /\ req' = [req EXCEPT ![q].pc = "failed"]
            /\ UNCHANGED lock
    /\ UNCHANGED <<users, rows, used, clock, now, plugin>>

\* replay_matches: type, version, base, inherits, filament and options.
ReplayMatches(i, c) == rows[i].content = c

\* advance_clock: the next stamp of the owner.
NextTime(u) == IF clock[u] = 0 THEN now ELSE IF now > clock[u] THEN now ELSE clock[u] + 1

\* What the transaction decides to do, from what it reads.
Decision(q) ==
    LET r == req[q]
        same == Named(r.owner, r.name)
    IN CASE r.op = "create" /\ same # {} ->
              LET i == CHOOSE i \in same : TRUE
              IN IF ReplayMatches(i, r.content) THEN [pc |-> "done", id |-> i, time |-> rows[i].time]
                 ELSE [pc |-> "failed", id |-> None, time |-> 0]
         [] r.op = "create" /\ same = {} /\ Cardinality(Of(r.owner)) >= PresetLimit ->
              [pc |-> "failed", id |-> None, time |-> 0]
         [] r.op = "replace" /\ (r.id \notin Of(r.owner) \/ same \ {r.id} # {}) ->
              [pc |-> "failed", id |-> r.id, time |-> 0]
         [] r.op = "delete" /\ r.id \notin Of(r.owner) -> [pc |-> "done", id |-> r.id, time |-> 0]
         [] OTHER -> [pc |-> "write", id |-> r.id, time |-> NextTime(r.owner)]

\* A request nobody waits for any more is forgotten when it ends.
Settle(q, r) ==
    [req EXCEPT ![q] = IF ~r.waiting /\ r.pc \in {"done", "failed"} THEN [NoReq EXCEPT !.pc = r.pc] ELSE r]

Unlock(q, u) == [lock EXCEPT ![u] = IF @ = q THEN None ELSE @]

Read(q) ==
    LET d == Decision(q) IN
    /\ req[q].pc = "read"
    /\ d.time <= MaxTime
    /\ req' = Settle(q, [req[q] EXCEPT !.pc = d.pc, !.id = d.id, !.time = d.time])
    /\ lock' = IF d.pc = "write" THEN lock ELSE Unlock(q, req[q].owner)
    /\ UNCHANGED <<users, rows, used, clock, now, plugin>>

\* The unique index on the owner and the name, which the insert or the update would violate.
NameTaken(r) == \E i \in Named(r.owner, r.name) : i # r.id

\* The row, the clock and the audit event, committed together, or the index refuses the name.
Commit(q) ==
    LET r == req[q]
        new == [owner |-> r.owner, name |-> r.name, content |-> r.content, time |-> r.time]
    IN /\ r.pc = "write"
       /\ lock' = Unlock(q, r.owner)
       /\ IF r.op # "delete" /\ NameTaken(r)
          THEN req' = Settle(q, [r EXCEPT !.pc = "failed"]) /\ UNCHANGED <<rows, used, clock>>
          ELSE /\ clock' = [clock EXCEPT ![r.owner] = r.time]
               /\ \E i \in IF r.op = "create" THEN Ids \ used ELSE {r.id} :
                     /\ rows' = [rows EXCEPT ![i] = IF r.op = "delete" THEN None ELSE new]
                     /\ used' = used \cup {i}
                     /\ req' = Settle(q, [r EXCEPT !.pc = "done", !.id = i])
       /\ UNCHANGED <<users, now, plugin>>

\* The database fails: the transaction is rolled back.
Rollback(q) ==
    /\ req[q].pc \in {"read", "write"}
    /\ req' = Settle(q, [req[q] EXCEPT !.pc = "failed"])
    /\ lock' = Unlock(q, req[q].owner)
    /\ UNCHANGED <<users, rows, used, clock, now, plugin>>

\* The answer: Studio keeps its content under the id and time it gets.
Answer(q) ==
    LET r == req[q]
        s == r.studio
    IN /\ r.waiting /\ r.pc \in {"done", "failed"}
       /\ req' = Settle(q, [r EXCEPT !.waiting = FALSE])
       /\ studio' = IF r.pc = "failed" THEN studio
                    ELSE [studio EXCEPT ![s][r.id] =
                            IF r.op = "delete" THEN None ELSE [time |-> r.time, content |-> r.content]]
       /\ UNCHANGED <<hub, account, stale, cache, list, drain, calls>>

\* The caller's 15 s are over, or the answer is lost.
GiveUp(q) ==
    /\ req[q].waiting
    /\ req' = Settle(q, [req[q] EXCEPT !.waiting = FALSE])
    /\ UNCHANGED <<hub, plugin>>

\* The clock of the machine moves, backwards too.
Tick ==
    /\ \E t \in 1..MaxTime : t \in {now - 1, now + 1} /\ now' = t
    /\ UNCHANGED <<users, rows, used, clock, lock, req, plugin>>

\* The user is removed from the tenant: presets and clock go with the row.
RemoveUser(u) ==
    /\ u \in users /\ lock[u] = None
    /\ users' = users \ {u}
    /\ rows' = [i \in Ids |-> IF i \in Of(u) THEN None ELSE rows[i]]
    /\ clock' = [clock EXCEPT ![u] = 0]
    /\ UNCHANGED <<used, now, lock, req, plugin>>

-----------------------------------------------------------------------------
(* Listing and draining *)

\* personal_preset_account and the reset at the start of every list call.
ListBegin(s) ==
    /\ list[s].pc = "idle" /\ calls[s] < MaxCalls
    /\ calls' = [calls EXCEPT ![s] = @ + 1]
    /\ cache' = [cache EXCEPT ![s] = None]
    /\ list' = [list EXCEPT ![s] = [NoList EXCEPT !.pc = "fetch", !.owner = account[s].owner,
                                                  !.gen = account[s].gen]]
    /\ UNCHANGED <<hub, req, account, stale, drain, studio>>

ListFails(s, why) ==
    /\ cache' = [cache EXCEPT ![s] = None]
    /\ list' = [list EXCEPT ![s] = [NoList EXCEPT !.why = why]]

Current(s) == account[s].gen = list[s].gen

\* The metadata of the whole catalogue, one query.
ListFetch(s) ==
    LET u == list[s].owner
        meta == {[id |-> i, name |-> rows[i].name, time |-> rows[i].time] : i \in Of(u)}
    IN /\ list[s].pc = "fetch"
       /\ IF Current(s) /\ u \in users
          THEN list' = [list EXCEPT ![s].pc = "items", ![s].todo = meta, ![s].all = meta] /\ UNCHANGED cache
          ELSE ListFails(s, "refused")
       /\ UNCHANGED <<hub, req, account, stale, drain, calls, studio>>

\* Studio's check: it wants a preset whose time differs from its copy's.
Wants(s, m) == studio[s][m.id] = None \/ studio[s][m.id].time # m.time

\* The map given to Studio holds the hub's fields and Studio's own.
FullSize(c) == Size(c) + Envelope + StudioFields

\* One preset: metadata only, or the full preset as it is by now.
ListItem(s) ==
    /\ list[s].pc = "items"
    /\ \E m \in list[s].todo :
        /\ \A o \in list[s].todo : m.time <= o.time
        /\ LET rest == list[s].todo \ {m}
               row == rows[m.id]
               keep(content, time) ==
                   list' = [list EXCEPT ![s].todo = rest,
                              ![s].temp = @ \cup {[id |-> m.id, time |-> time, content |-> content]}]
           IN IF ~Wants(s, m)
              THEN keep(None, m.time) /\ UNCHANGED cache
              ELSE IF row = None \/ row.owner # list[s].owner \/ row.name # m.name
              THEN ListFails(s, "changed")
              ELSE IF FullSize(row.content) > MaxMapBytes
              THEN ListFails(s, "size")
              ELSE keep(row.content, row.time) /\ UNCHANGED cache
    /\ UNCHANGED <<hub, req, account, stale, drain, calls, studio>>

\* Studio cancels, or a request of the call fails.
ListCancelled(s) ==
    /\ list[s].pc = "items"
    /\ ListFails(s, "cancelled")
    /\ UNCHANGED <<hub, req, account, stale, drain, calls, studio>>

\* The last look at the account, before the publication.
ListChecks(s) ==
    /\ list[s].pc = "items" /\ list[s].todo = {}
    /\ IF Current(s)
       THEN list' = [list EXCEPT ![s].pc = "publish"] /\ UNCHANGED cache
       ELSE ListFails(s, "stale")
    /\ UNCHANGED <<hub, req, account, stale, drain, calls, studio>>

ListPublishes(s) ==
    /\ list[s].pc = "publish"
    /\ cache' = [cache EXCEPT ![s] = [gen |-> list[s].gen, owner |-> list[s].owner,
                                      all |-> list[s].all, entries |-> list[s].temp]]
    /\ list' = [list EXCEPT ![s] = NoList]
    /\ UNCHANGED <<hub, req, account, stale, drain, calls, studio>>

\* get_user_presets: the account is copied, then the cache is taken.
DrainBegin(s) ==
    /\ drain[s].pc = "idle" /\ calls[s] < MaxCalls
    /\ calls' = [calls EXCEPT ![s] = @ + 1]
    /\ drain' = [drain EXCEPT ![s] = [pc |-> "take", owner |-> account[s].owner,
                                      gen |-> account[s].gen, gave |-> {}]]
    /\ UNCHANGED <<hub, req, account, stale, cache, list, studio>>

\* cache::drain: only the generation of the account, and only once.
Drained(s) ==
    IF cache[s] # None /\ cache[s].gen = drain[s].gen THEN {cache[s]} ELSE {}

DrainEnd(s) ==
    /\ drain[s].pc = "take"
    /\ drain' = [drain EXCEPT ![s].pc = "idle", ![s].gave = Drained(s)]
    /\ cache' = [cache EXCEPT ![s] = None]
    /\ studio' = [studio EXCEPT ![s] = [i \in Ids |->
          LET new == {e \in UNION {c.entries : c \in Drained(s)} : e.id = i /\ e.content # None}
          IN IF new = {} THEN @[i]
             ELSE LET e == CHOOSE e \in new : TRUE IN [time |-> e.time, content |-> e.content]]]
    /\ UNCHANGED <<hub, req, account, stale, list, calls>>

\* Another account, or another config directory: a new generation; the cache
\* is reset a step later.  Studio drops its copies with the account.
AccountChanges(s, u) ==
    /\ account[s].gen < MaxEpoch /\ ~stale[s]
    /\ account' = [account EXCEPT ![s] = [owner |-> u, gen |-> @.gen + 1]]
    /\ stale' = [stale EXCEPT ![s] = TRUE]
    /\ studio' = IF u = account[s].owner THEN studio ELSE [studio EXCEPT ![s] = [i \in Ids |-> None]]
    /\ req' = [q \in Requests |-> IF req[q].studio = s THEN [req[q] EXCEPT !.waiting = FALSE] ELSE req[q]]
    /\ UNCHANGED <<hub, cache, list, drain, calls>>

CacheReset(s) ==
    /\ stale[s]
    /\ stale' = [stale EXCEPT ![s] = FALSE]
    /\ cache' = [cache EXCEPT ![s] = None]
    /\ UNCHANGED <<hub, req, account, list, drain, calls, studio>>

-----------------------------------------------------------------------------
Mutation(q) ==
    \/ LockOwner(q) \/ Read(q) \/ Commit(q) \/ Rollback(q) \/ Answer(q) \/ GiveUp(q)
    \/ \E s \in Studios, op \in {"create", "replace", "delete"}, i \in Ids \cup {None},
          n \in Names \cup {None}, c \in Contents \cup {None} : Send(q, s, op, i, n, c)

Listing(s) ==
    \/ ListBegin(s) \/ ListFetch(s) \/ ListItem(s) \/ ListCancelled(s) \/ ListChecks(s) \/ ListPublishes(s)
    \/ DrainBegin(s) \/ DrainEnd(s)

Next ==
    \/ \E q \in Requests : Mutation(q)
    \/ \E s \in Studios : Listing(s) \/ CacheReset(s) \/ \E u \in Owners : AccountChanges(s, u)
    \/ \E u \in Owners : RemoveUser(u)
    \/ Tick

Spec == Init /\ [][Next]_vars

\* The hub runs its transactions; the plugin's threads run.
Fairness ==
    /\ \A q \in Requests : WF_vars(LockOwner(q) \/ Read(q) \/ Commit(q) \/ Rollback(q) \/ Answer(q) \/ GiveUp(q))
    /\ \A s \in Studios :
        /\ WF_vars(ListFetch(s) \/ ListItem(s) \/ ListChecks(s) \/ ListPublishes(s))
        /\ WF_vars(DrainEnd(s))

FairSpec == Spec /\ Fairness

-----------------------------------------------------------------------------
(* Properties *)

TypeOK ==
    /\ users \subseteq Owners /\ used \subseteq Ids
    /\ \A i \in Ids : rows[i] # None => i \in used /\ rows[i].owner \in users /\ rows[i].time \in 1..MaxTime
    /\ clock \in [Owners -> 0..MaxTime] /\ now \in 1..MaxTime
    /\ lock \in [Owners -> Requests \cup {None}]
    /\ \A s \in Studios : account[s].gen \in 0..MaxEpoch /\ list[s].todo \subseteq list[s].all

\* Two requests of one owner -- also the first try and its repetition, both
\* still running -- never take an owner's catalogue over its limit: the count
\* is read before the insert, and only the lock of the owner's row keeps the
\* two together.  That a name is there once is the database's unique index.
CatalogueOK == \A u \in Owners : Cardinality(Of(u)) <= PresetLimit

\* The owner clock: every stored change gets a time later than any the owner
\* was ever given, whatever the wall clock does (docs/architecture.md:177).
ClockStrictStep ==
    \A i \in Ids : (rows'[i] # None /\ rows'[i] # rows[i]) =>
       rows'[i].time > clock[rows'[i].owner]
ClockStrict == [][ClockStrictStep]_vars

\* What the clock is for: a copy in Studio with the time of the hub's preset
\* has its content, so a list that skips it misses nothing.
CopyAgrees ==
    \A s \in Studios, i \in Ids :
        (studio[s][i] # None /\ rows[i] # None /\ studio[s][i].time = rows[i].time) =>
            studio[s][i].content = rows[i].content

\* What Studio drains belongs to the account it drains for, and is the whole
\* catalogue the list call saw (docs/architecture.md:177).
OwnCatalogue ==
    \A s \in Studios : \A c \in drain[s].gave :
        /\ c.owner = drain[s].owner
        /\ {e.id : e \in c.entries} = {m.id : m \in c.all}

\* Every preset the hub stores can be listed (docs/development.md:139: the
\* list "returns the owner's complete ... catalogue"): no list call fails
\* because of a preset's size.
StoredIsListable == \A s \in Studios : list[s].why # "size"

\* Every transaction and every list ends.
CallsEnd ==
    /\ \A q \in Requests : (req[q].pc = "begin") ~> (req[q].pc \in {"done", "failed"})
    /\ \A s \in Studios : (list[s].pc # "idle") ~> (list[s].pc = "idle")

=============================================================================
