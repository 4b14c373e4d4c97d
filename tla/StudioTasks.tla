---------------------------- MODULE StudioTasks ----------------------------
(***************************************************************************)
(* Studio asks the plugin for its task list, a task's plate, a subtask or a *)
(* model task: the plugin binds the request to the account it captured,     *)
(* asks the hub, throws the answer away when the account moved on, checks   *)
(* what it was sent, and on 401 or 410 of a no-auth session rotates the     *)
(* credential once and repeats the request once. The hub answers from the   *)
(* jobs of the tenant the token belongs to, which move meanwhile.           *)
(*                                                                         *)
(* A token is a number; owner[n] is the tenant its session belongs to.      *)
(* Names are reduced to where they come from (Studio's task, the file), and *)
(* the 3MF metadata to whether the hub can project it.                      *)
(***************************************************************************)
EXTENDS Naturals, Sequences, FiniteSets, SequencesExt

CONSTANTS
    Ops,            \* requests Studio makes: "tasks", "plate", "subtask", "model"
    JobStates,      \* pairs of job and print status the jobs go through
    Metas,          \* what the metadata of a print may hold
    MaxJobs,        \* prints of one tenant
    MaxTokens,      \* sessions issued
    MaxEpoch,       \* sign-ins and sign-outs
    MaxLimit        \* largest page Studio asks for (100 in the code)

JobStatuses == {"queued", "sent", "acknowledged", "succeeded", "failed", "cancelled"}
PrintStatuses == {"pending", "stalled", "running", "completed", "failed", "cancelled"}

\* "bare": the artifact's metadata does not describe the plate; "market": a
\* design of the model market, whose markers the hub does not own; "unnamed":
\* Studio sent blank names; "web": printed from the dashboard, without Studio's
\* metadata.
AllMetas == {"ordinary", "market", "bare", "unnamed", "web"}

\* A name that is left out, and one that is empty.
Absent == "none"
Empty == "empty"

ConstantsAssumption == /\ Ops \subseteq {"tasks", "plate", "subtask", "model"}
                              /\ JobStates \subseteq JobStatuses \X PrintStatuses
                              /\ Metas \subseteq AllMetas
                              /\ MaxJobs \in Nat
                              /\ MaxTokens \in Nat \ {0}
                              /\ MaxEpoch \in Nat
                              /\ MaxLimit \in Nat \ {0}

Jobs == [st: JobStatuses, pr: PrintStatuses, meta: AllMetas, printer: BOOLEAN]

Calls == [op: Ops \cap {"tasks"}, status: 0..3, offset: 0..MaxJobs, limit: 1..MaxLimit]
         \cup [op: Ops \ {"tasks"}, id: 1..MaxJobs]

Owners == {"dev", "site"}

VARIABLES
    jobs,       \* the prints of tenant "dev", by submission id
    owner,      \* tenant of each token issued so far
    valid,      \* tokens the hub still accepts
    acct,       \* [token, epoch, kind, pending]: the plugin's account
    call,       \* the call in progress
    sent,       \* requests sent and no-auth sessions created by the call
    result      \* what the call returned

vars == <<jobs, owner, valid, acct, call, sent, result>>

NoCall == [pc |-> "idle"]
Nothing == [code |-> 0, by |-> "none", total |-> 0, hits |-> <<>>]
Fail(code) == [Nothing EXCEPT !.code = code]

Init ==
    /\ jobs = <<>>
    /\ owner = <<"dev">>
    /\ valid = {1}
    /\ acct = [token |-> 1, epoch |-> 0, kind |-> "no_auth", pending |-> FALSE]
    /\ call = NoCall
    /\ sent = [requests |-> 0, created |-> 0]
    /\ result = Nothing

Return(r) ==
    /\ result' = r
    /\ call' = NoCall

-----------------------------------------------------------------------------
(* The hub. *)

\* The status Studio is shown (studio_status).
StudioStatus(j) ==
    IF j.pr = "completed" THEN 2
    ELSE IF j.st = "failed" \/ j.pr \in {"failed", "cancelled"} THEN 3
    ELSE 1

\* The SQL filter of a status (status_condition); 0 asks for every task.
StatusCondition(status, j) ==
    CASE status = 0 -> TRUE
      [] status = 1 -> /\ j.pr # "completed" /\ j.st # "failed"
                       /\ j.pr # "failed" /\ j.pr # "cancelled"
      [] status = 2 -> j.pr = "completed"
      [] status = 3 -> /\ j.pr # "completed"
                       /\ \/ j.st = "failed"
                          \/ j.pr \in {"failed", "cancelled"}

\* Submission ids of a state of the table that pass the filter, newest first.
Selected(db, status) ==
    SetToSortSeq({i \in DOMAIN db : StatusCondition(status, db[i])}, LAMBDA a, b : a > b)

Page(db, q) == LET s == Selected(db, q.status)
               IN SubSeq(s, q.offset + 1, IF q.offset + q.limit < Len(s) THEN q.offset + q.limit ELSE Len(s))

\* A print is created; the submission id is the next of the tenant.
CreateJob ==
    /\ Len(jobs) < MaxJobs
    /\ \E meta \in Metas :
          jobs' = Append(jobs, [st |-> "queued", pr |-> "pending", meta |-> meta, printer |-> TRUE])
    /\ UNCHANGED <<owner, valid, acct, call, sent, result>>

\* Agents, reports, recoveries and cancellations move a job (module PrintJobs).
JobMoves ==
    /\ \E i \in DOMAIN jobs, to \in JobStates :
          jobs' = [jobs EXCEPT ![i].st = to[1], ![i].pr = to[2]]
    /\ UNCHANGED <<owner, valid, acct, call, sent, result>>

\* A printer is removed while a listing joins it.
PrinterRemoved ==
    /\ \E i \in DOMAIN jobs : jobs' = [jobs EXCEPT ![i].printer = FALSE]
    /\ UNCHANGED <<owner, valid, acct, call, sent, result>>

HubRevokes ==
    /\ valid # {}
    /\ \E n \in valid : valid' = valid \ {n}
    /\ UNCHANGED <<jobs, owner, acct, call, sent, result>>

-----------------------------------------------------------------------------
(* The account, moved by other threads. *)

SignIn ==
    /\ acct.epoch < MaxEpoch
    /\ Len(owner) < MaxTokens
    /\ owner' = Append(owner, "site")
    /\ valid' = valid \cup {Len(owner) + 1}
    /\ acct' = [token |-> Len(owner) + 1, epoch |-> acct.epoch + 1, kind |-> "external", pending |-> FALSE]
    /\ UNCHANGED <<jobs, call, sent, result>>

SignOut ==
    /\ acct.epoch < MaxEpoch
    /\ acct.token # 0
    /\ acct' = [token |-> 0, epoch |-> acct.epoch + 1, kind |-> "none", pending |-> FALSE]
    /\ UNCHANGED <<jobs, owner, valid, call, sent, result>>

TransitionBegins ==
    /\ ~acct.pending
    /\ acct' = [acct EXCEPT !.pending = TRUE]
    /\ UNCHANGED <<jobs, owner, valid, call, sent, result>>

TransitionEnds ==
    /\ acct.pending
    /\ acct' = [acct EXCEPT !.pending = FALSE]
    /\ UNCHANGED <<jobs, owner, valid, call, sent, result>>

\* Another request of the same session rotated the credential first.
RotatedElsewhere ==
    /\ acct.kind = "no_auth"
    /\ acct.token \notin valid
    /\ Len(owner) < MaxTokens
    /\ owner' = Append(owner, "dev")
    /\ valid' = valid \cup {Len(owner) + 1}
    /\ acct' = [acct EXCEPT !.token = Len(owner) + 1]
    /\ UNCHANGED <<jobs, call, sent, result>>

-----------------------------------------------------------------------------
(* The call in the plugin. *)

\* Mutant: freshness compares the epoch only and a rotation is not noticed;
\* a pending transition is not either.
CurrentEpoch(bound) == acct.epoch = bound.epoch

\* AccountFreshness::current
Current(bound) == /\ ~acct.pending
                  /\ acct.epoch = bound.epoch
                  /\ acct.token = bound.token

\* Arguments and account are read; without a token nothing is sent.
Begin(c) ==
    /\ call.pc = "idle"
    /\ sent' = [requests |-> 0, created |-> 0]
    /\ IF acct.pending THEN Return(Fail(409))
       ELSE /\ result' = Nothing
            /\ call' = [pc |-> IF acct.token = 0 THEN "refused" ELSE "send", q |-> c, retry |-> FALSE,
                        bound |-> [token |-> acct.token, epoch |-> acct.epoch, kind |-> acct.kind]]
    /\ UNCHANGED <<jobs, owner, valid, acct>>

\* The hub authorizes the token and, for a list, opens its snapshot.
HubReceives ==
    /\ call.pc = "send"
    /\ sent' = [sent EXCEPT !.requests = @ + 1]
    /\ call' = IF call.bound.token \notin valid THEN [call EXCEPT !.pc = "refused"]
               ELSE [pc |-> "hub", q |-> call.q, retry |-> call.retry, bound |-> call.bound,
                     view |-> IF owner[call.bound.token] = "dev" THEN jobs ELSE <<>>]
    /\ UNCHANGED <<jobs, owner, valid, acct, result>>

RequestFails ==
    /\ call.pc = "send"
    /\ sent' = [sent EXCEPT !.requests = @ + 1]
    /\ Return(Fail(IF Current(call.bound) THEN 503 ELSE 409))
    /\ UNCHANGED <<jobs, owner, valid, acct>>

\* The title of a task: Studio's name of it, or else the artifact's.
TaskTitle(j) == IF j.meta \in {"unnamed", "web"} THEN "file" ELSE "task"

\* One line of a page (task_hit_from_job): a design has its own title field.
TaskHit(db, i) ==
    LET market == db[i].meta = "market" IN
    [id |-> i, status |-> StudioStatus(db[i]),
     design |-> IF market THEN 1 ELSE 0,
     title |-> IF market THEN Absent ELSE TaskTitle(db[i]),
     designTitle |-> IF market THEN TaskTitle(db[i]) ELSE Absent]

\* A subtask's plate or a model task: what Studio is told besides its id.
TaskDetail(db, i) ==
    [id |-> i, status |-> StudioStatus(db[i]),
     plate |-> IF db[i].meta = "bare" THEN 0 ELSE 1,
     project |-> CASE db[i].meta = "unnamed" -> Empty
                   [] db[i].meta = "web" -> Absent
                   [] OTHER -> "task"]

\* The answer to a list: count and rows of one snapshot, then the printers
\* as they are now.
ListAnswer ==
    LET page == Page(call.view, call.q)
        gone == \E k \in DOMAIN page : ~jobs[page[k]].printer
    IN IF gone THEN Fail(404)
       ELSE [code |-> 200, by |-> owner[call.bound.token],
             total |-> Len(Selected(call.view, call.q.status)),
             hits |-> [k \in DOMAIN page |-> TaskHit(call.view, page[k])]]

\* The metadata must describe the printed plate for a subtask, and for a model
\* task it must be Studio's, with names and without markers of the market.
HasSubtask(j) == j.meta # "bare"
HasModelTask(j) == j.meta \in {"ordinary", "bare"}

\* The answers to plate, subtask and model task, from the job's row.
DetailAnswer ==
    LET i == call.q.id IN
    IF i \notin DOMAIN call.view THEN Fail(404)
    ELSE IF \/ call.q.op = "subtask" /\ ~HasSubtask(call.view[i])
            \/ call.q.op = "model" /\ ~HasModelTask(call.view[i]) THEN Fail(409)
    ELSE [code |-> 200, by |-> owner[call.bound.token], total |-> 0, hits |-> <<TaskDetail(call.view, i)>>]

\* What the plugin checks of a page, and of a detail, before it passes it on:
\* a design has a design title and no other, everything else a title.
ValidHit(h) ==
    /\ h.id > 0 /\ h.status \in 1..3 /\ h.design >= 0
    /\ IF h.design > 0 THEN h.title = Absent /\ h.designTitle \notin {Absent, Empty}
       ELSE h.designTitle = Absent /\ h.title \notin {Absent, Empty}
ValidPage(r) == r.total >= Len(r.hits) /\ \A k \in DOMAIN r.hits : ValidHit(r.hits[k])
ValidDetail(r) ==
    LET d == r.hits[1] IN
    /\ d.id = call.q.id
    /\ call.q.op = "subtask" => d.plate > 0
    /\ call.q.op = "model" => d.project \notin {Absent, Empty}

Validates(r) == r.code # 200 \/ IF call.q.op = "tasks" THEN ValidPage(r) ELSE ValidDetail(r)

Answered ==
    /\ call.pc = "hub"
    /\ LET r == IF call.q.op = "tasks" THEN ListAnswer ELSE DetailAnswer
       IN Return(IF ~Current(call.bound) THEN Fail(409)
                 ELSE IF Validates(r) THEN r ELSE Fail(502))
    /\ UNCHANGED <<jobs, owner, valid, acct, sent>>

\* The hub said 401: stale, or final, or a case for the recovery. The check of
\* freshness comes first.
Refused ==
    /\ call.pc = "refused"
    /\ IF call.bound.token # 0 /\ ~Current(call.bound) THEN Return(Fail(409))
       ELSE IF call.retry THEN Return(Fail(401))
       ELSE call' = [call EXCEPT !.pc = "recover"] /\ UNCHANGED result
    /\ UNCHANGED <<jobs, owner, valid, acct, sent>>

\* refresh_action: the same session, with its token or with a newer one.
RefreshAction ==
    IF call.bound.kind # "no_auth" \/ acct.kind # "no_auth" \/ acct.epoch # call.bound.epoch THEN "ignore"
    ELSE IF acct.token = call.bound.token THEN "apply" ELSE "login"

\* recover up to the request for a new session.
Recover ==
    /\ call.pc = "recover"
    /\ CASE RefreshAction = "ignore" -> Return(Fail(IF call.bound.kind = "no_auth" THEN 409 ELSE 401))
         [] RefreshAction = "login" ->
                call' = [call EXCEPT !.pc = "send", !.retry = TRUE, !.bound.token = acct.token] /\ UNCHANGED result
         [] RefreshAction = "apply" -> call' = [call EXCEPT !.pc = "create"] /\ UNCHANGED result
    /\ UNCHANGED <<jobs, owner, valid, acct, sent>>

CreateFails ==
    /\ call.pc = "create"
    /\ Return(Fail(503))
    /\ UNCHANGED <<jobs, owner, valid, acct, sent>>

\* The hub issues a no-auth session.
CreateSession ==
    /\ call.pc = "create"
    /\ Len(owner) < MaxTokens
    /\ owner' = Append(owner, "dev")
    /\ valid' = valid \cup {Len(owner) + 1}
    /\ sent' = [sent EXCEPT !.created = @ + 1]
    /\ call' = [pc |-> "commit", q |-> call.q, retry |-> TRUE, bound |-> call.bound, new |-> Len(owner) + 1]
    /\ UNCHANGED <<jobs, acct, result>>

\* commit_candidate: the new token replaces the one the request was bound to.
Commit ==
    /\ call.pc = "commit"
    /\ IF RefreshAction = "apply" /\ ~acct.pending
       THEN /\ acct' = [acct EXCEPT !.token = call.new]
            /\ call' = [pc |-> "send", q |-> call.q, retry |-> TRUE,
                        bound |-> [call.bound EXCEPT !.token = call.new]]
            /\ UNCHANGED result
       ELSE Return(Fail(409)) /\ UNCHANGED acct
    /\ UNCHANGED <<jobs, owner, valid, sent>>

-----------------------------------------------------------------------------
CallSteps == \/ HubReceives \/ RequestFails \/ Answered \/ Refused \/ Recover
             \/ CreateFails \/ CreateSession \/ Commit

Next ==
    \/ CreateJob \/ JobMoves \/ PrinterRemoved \/ HubRevokes
    \/ SignIn \/ SignOut \/ TransitionBegins \/ TransitionEnds \/ RotatedElsewhere
    \/ \E c \in Calls : Begin(c)
    \/ CallSteps

Spec == Init /\ [][Next]_vars

\* A call's own steps are taken: its requests end by their time-outs.
FairSpec == Spec /\ WF_vars(CallSteps)

-----------------------------------------------------------------------------
TypeOK ==
    /\ jobs \in Seq(Jobs) /\ Len(jobs) <= MaxJobs
    /\ owner \in Seq(Owners) /\ Len(owner) <= MaxTokens
    /\ valid \subseteq DOMAIN owner
    /\ acct.token \in 0..Len(owner)
    /\ acct.kind \in {"none", "no_auth", "external"}
    /\ acct.pending \in BOOLEAN
    /\ call.pc \in {"idle", "send", "hub", "refused", "recover", "create", "commit"}
    /\ sent \in [requests: 0..2, created: 0..1]
    /\ result.code \in {0, 200, 401, 404, 409, 502, 503}

\* A page agrees with itself: as many hits as the total, the offset and the
\* limit leave, newest first, and every hit shows the status that was asked
\* for, although jobs move while the page is read (list_studio_tasks).
PageAgrees ==
    call.pc = "hub" /\ call.q.op = "tasks" =>
        LET r == ListAnswer
            left == IF r.total > call.q.offset THEN r.total - call.q.offset ELSE 0
        IN r.code = 200 =>
            /\ Len(r.hits) = IF left < call.q.limit THEN left ELSE call.q.limit
            /\ \A k \in DOMAIN r.hits : call.q.status \in {0, r.hits[k].status}
            /\ \A k \in 1..(Len(r.hits) - 1) : r.hits[k].id > r.hits[k + 1].id

\* What the hub answers with 200 the plugin accepts: Studio never sees 502,
\* whatever names and markers the job's metadata holds (task_hit_from_job and
\* the two from_job against validate_task_hit, validate_subtask and valid_for).
HubIsUnderstood == result.code # 502

\* Data is delivered to the tenant that is signed in at the delivery, whatever
\* changed while the request was under way (AccountFreshness).
OwnDataStep ==
    result'.code = 200 /\ call.pc = "hub" =>
       /\ acct.token # 0
       /\ ~acct.pending
       /\ result'.by = owner[acct.token]
OwnData == [][OwnDataStep]_vars

\* A refused request is repeated once and rotates at most one credential.
OneReplay == sent.requests <= 2 /\ sent.created <= 1 /\ (sent.created = 1 => sent.requests >= 1)

\* A recovery never puts a no-auth session where another account is: the
\* session a call replaces is a no-auth session of the same epoch.
NoFallbackStep ==
    call.pc = "commit" /\ call'.pc = "send" =>
       /\ acct.kind = "no_auth"
       /\ acct.epoch = call.bound.epoch
       /\ acct'.epoch = acct.epoch
NoFallback == [][NoFallbackStep]_vars

\* Every call returns.
CallReturns == call.pc # "idle" ~> call.pc = "idle"

=============================================================================
