----------------------------- MODULE PrinterEvents -----------------------------
(***************************************************************************)
(* The Studio event stream of one tenant.  Every change of a printer's       *)
(* record is committed, then announced over the control plane to every hub,  *)
(* which passes the announcement to its sockets; a socket first sends a      *)
(* snapshot, then resolves the announcements against the database.  A socket *)
(* whose hub may have lost an announcement is closed, the plugin connects    *)
(* again and takes a new snapshot.                                           *)
(***************************************************************************)
EXTENDS Naturals, Sequences, FiniteSets, SequencesExt

CONSTANTS Hubs, Sockets, HubOf,   \* sockets and the hub each is opened on
          Printers,
          MaxRow, MaxMaterial,    \* versions of a row and of its materials
          Capacity,               \* announcements a subscriber may be behind
          Faults                  \* which losses the control plane has

EventsAssumption == /\ HubOf \in [Sockets -> Hubs] /\ Capacity \in Nat \ {0}
                           /\ Faults \subseteq {"publish", "receive", "end"}

\* Versions of a row: created, updated, removed, created again.
Gone(v) == v \in {0, 3}

VARIABLES row, material,   \* the database
          due,             \* by hub: committed, not yet announced by that hub
          wire,            \* by hub: the control-plane stream
          joined,          \* by hub: it is subscribed to the control plane
          hand,            \* by hub: the announcement its consumer holds
          commit,          \* by hub: the socket that holds the publication lock
          sock             \* the sockets

vars == <<row, material, due, wire, joined, hand, commit, sock>>

None == "none"
Nothing == [v |-> 0, m |-> 0]
NoHand == [p |-> None, swept |-> FALSE]
Closed == [pc |-> "off", queue |-> <<>>, buffered |-> <<>>, lag |-> FALSE, epoch |-> FALSE, out |-> <<>>, after |-> "off",
           read |-> Nothing, change |-> None, materials |-> [p \in Printers |-> 0],
           published |-> [p \in Printers |-> Nothing], staged |-> [p \in Printers |-> Nothing],
           view |-> [p \in Printers |-> Nothing], pong |-> FALSE]

Record(p) == [v |-> row[p], m |-> material[p]]
Same(a, b) == IF Gone(a.v) \/ Gone(b.v) THEN Gone(a.v) /\ Gone(b.v) ELSE a = b
Open(s) == sock[s].pc # "off"

Frames == [k : {"begin", "end"}] \union
          [k : {"upsert", "removed"}, p : Printers, r : [v : 0..MaxRow, m : 0..MaxMaterial]]

TypeOK ==
    /\ row \in [Printers -> 0..MaxRow] /\ material \in [Printers -> 0..MaxMaterial]
    /\ due \in [Hubs -> SUBSET Printers] /\ joined \in [Hubs -> BOOLEAN]
    /\ \A h \in Hubs : commit[h] \in Sockets \union {None} /\ hand[h].p \in Printers \union {None}
    /\ \A h \in Hubs : \A i \in DOMAIN wire[h] : wire[h][i] \in Printers
    /\ \A s \in Sockets :
        /\ sock[s].pc \in {"off", "materials", "printers", "send", "flush", "lock", "resolve", "join", "loop"}
        /\ Len(sock[s].queue) <= Capacity
        /\ \A i \in DOMAIN sock[s].out : sock[s].out[i] \in Frames

Init ==
    /\ row = [p \in Printers |-> 0] /\ material = [p \in Printers |-> 0]
    /\ due = [h \in Hubs |-> {}] /\ wire = [h \in Hubs |-> <<>>] /\ joined = [h \in Hubs |-> TRUE]
    /\ hand = [h \in Hubs |-> NoHand] /\ commit = [h \in Hubs |-> None]
    /\ sock = [s \in Sockets |-> Closed]

\* Sockets that end: the publication lock goes with them.
Close(s) ==
    /\ sock' = [sock EXCEPT ![s] = [Closed EXCEPT !.view = sock[s].view]]
    /\ commit' = [h \in Hubs |-> IF commit[h] = s THEN None ELSE commit[h]]

\* invalidate_epoch, invalidate_all_epochs: the sockets of the hub are told.
Invalidated(h) ==
    [s \in Sockets |-> IF HubOf[s] = h /\ Open(s) THEN [sock[s] EXCEPT !.epoch = TRUE] ELSE sock[s]]

-----------------------------------------------------------------------------
(* Changes of the database, by any hub, each followed by an announcement.    *)

ChangePrinter(h, p) ==
    /\ row[p] < MaxRow /\ row' = [row EXCEPT ![p] = @ + 1]
    /\ material' = IF Gone(row[p] + 1) THEN [material EXCEPT ![p] = 0] ELSE material
    /\ due' = [due EXCEPT ![h] = @ \union {p}]
    /\ UNCHANGED <<wire, joined, hand, commit, sock>>
ChangeMaterials(h, p) ==
    /\ ~Gone(row[p]) /\ material[p] < MaxMaterial /\ material' = [material EXCEPT ![p] = @ + 1]
    /\ due' = [due EXCEPT ![h] = @ \union {p}]
    /\ UNCHANGED <<row, wire, joined, hand, commit, sock>>

\* publish_printer_projection_change.
Announce(h, p) ==
    /\ p \in due[h] /\ due' = [due EXCEPT ![h] = @ \ {p}]
    /\ wire' = [g \in Hubs |-> IF joined[g] THEN Append(wire[g], p) ELSE wire[g]]
    /\ UNCHANGED <<row, material, joined, hand, commit, sock>>
AnnounceFails(h, p) ==
    /\ "publish" \in Faults /\ p \in due[h] /\ due' = [due EXCEPT ![h] = @ \ {p}]
    /\ sock' = Invalidated(h)
    /\ UNCHANGED <<row, material, wire, joined, hand, commit>>

-----------------------------------------------------------------------------
(* The control-plane consumer of a hub.                                      *)

\* handle_control_message fetches the tenant's channel ...
Receive(h) ==
    /\ wire[h] # <<>> /\ hand[h].p = None
    /\ hand' = [hand EXCEPT ![h] = [p |-> Head(wire[h]), swept |-> FALSE]]
    /\ wire' = [wire EXCEPT ![h] = Tail(@)]
    /\ UNCHANGED <<row, material, due, joined, commit, sock>>

\* ... and sends on it once no snapshot is being committed.  A channel that
\* was swept in between has no subscriber, and its own lock.
Push(k, p) ==
    IF Len(k.queue) < Capacity THEN [k EXCEPT !.queue = Append(@, p)]
                               ELSE [k EXCEPT !.queue = Append(Tail(@), p), !.lag = TRUE]
Deliver(h) ==
    /\ hand[h].p # None /\ (hand[h].swept \/ commit[h] = None)
    /\ sock' = [s \in Sockets |-> IF HubOf[s] = h /\ Open(s) /\ ~hand[h].swept
                                  THEN Push(sock[s], hand[h].p) ELSE sock[s]]
    /\ hand' = [hand EXCEPT ![h] = NoHand]
    /\ UNCHANGED <<row, material, due, wire, joined, commit>>

\* A message that cannot be received, and the end of the subscription.
ReceiveFails(h) ==
    /\ "receive" \in Faults /\ wire[h] # <<>> /\ hand[h].p = None
    /\ wire' = [wire EXCEPT ![h] = Tail(@)] /\ sock' = Invalidated(h)
    /\ UNCHANGED <<row, material, due, joined, hand, commit>>
StreamEnds(h) ==
    /\ "end" \in Faults /\ joined[h] /\ hand[h].p = None
    /\ joined' = [joined EXCEPT ![h] = FALSE] /\ wire' = [wire EXCEPT ![h] = <<>>]
    /\ sock' = Invalidated(h)
    /\ UNCHANGED <<row, material, due, hand, commit>>
SubscribeFails(h) ==
    /\ ~joined[h] /\ sock' = Invalidated(h) /\ sock' # sock
    /\ UNCHANGED <<row, material, due, wire, joined, hand, commit>>
Resubscribe(h) ==
    /\ ~joined[h] /\ joined' = [joined EXCEPT ![h] = TRUE]
    /\ UNCHANGED <<row, material, due, wire, hand, commit, sock>>

\* sweep_idle_channels drops a channel nobody is subscribed to; only the
\* consumer that already holds it can tell.
SweepIdle(h) ==
    /\ hand[h].p # None /\ ~hand[h].swept /\ \A s \in Sockets : HubOf[s] = h => ~Open(s)
    /\ hand' = [hand EXCEPT ![h].swept = TRUE]
    /\ UNCHANGED <<row, material, due, wire, joined, commit, sock>>

-----------------------------------------------------------------------------
(* A socket: subscription, snapshot, commit of the snapshot.                 *)

Connect(s) ==
    /\ ~Open(s) /\ sock' = [sock EXCEPT ![s] = [Closed EXCEPT !.pc = "materials", !.view = sock[s].view]]
    /\ UNCHANGED <<row, material, due, wire, joined, hand, commit>>

\* plugin_printer_devices: materials first, then the rows.
ReadMaterials(s) ==
    /\ sock[s].pc = "materials"
    /\ sock' = [sock EXCEPT ![s].pc = "printers", ![s].materials = material]
    /\ UNCHANGED <<row, material, due, wire, joined, hand, commit>>
Upsert(p, r) == [k |-> "upsert", p |-> p, r |-> r]
ReadPrinters(s) ==
    /\ sock[s].pc = "printers"
    /\ LET present == SetToSeq({p \in Printers : ~Gone(row[p])})
           devices == [i \in DOMAIN present |->
                        Upsert(present[i], [v |-> row[present[i]], m |-> sock[s].materials[present[i]]])]
       IN sock' = [sock EXCEPT ![s].pc = "send", ![s].after = "lock",
                               ![s].out = <<[k |-> "begin"]>> \o devices, ![s].materials = Closed.materials]
    /\ UNCHANGED <<row, material, due, wire, joined, hand, commit>>

\* linearized_send: under the epoch gate nothing is sent once the epoch has
\* changed; while the frame is flushed a change closes the socket.
StartSend(s) ==
    /\ sock[s].pc = "send" /\ ~sock[s].epoch /\ sock' = [sock EXCEPT ![s].pc = "flush"]
    /\ UNCHANGED <<row, material, due, wire, joined, hand, commit>>
Shown(k, f) ==   \* the plugin applies a snapshot when it is complete
    CASE f.k = "begin" -> [k EXCEPT !.staged = [p \in Printers |-> Nothing]]
      [] f.k = "end" -> [k EXCEPT !.view = k.staged]
      [] OTHER -> IF k.after = "lock" THEN [k EXCEPT !.staged[f.p] = f.r, !.published[f.p] = f.r]
                  ELSE [k EXCEPT !.view[f.p] = f.r, !.published[f.p] = IF f.k = "upsert" THEN f.r ELSE Nothing]
Flush(s) ==
    /\ sock[s].pc = "flush"
    /\ LET k == Shown(sock[s], Head(sock[s].out))
           rest == Tail(sock[s].out)
       IN sock' = [sock EXCEPT ![s] = [k EXCEPT !.out = rest, !.pc = IF rest # <<>> THEN "send" ELSE k.after]]
    /\ commit' = IF Head(sock[s].out).k = "end" THEN [commit EXCEPT ![HubOf[s]] = None] ELSE commit
    /\ UNCHANGED <<row, material, due, wire, joined, hand>>

\* lock_publication, drain_buffered: what is buffered stays for after the end.
Commit(s) ==
    /\ sock[s].pc = "lock" /\ commit[HubOf[s]] = None
    /\ IF sock[s].lag
       THEN Close(s)
       ELSE /\ sock' = [sock EXCEPT ![s].pc = "send", ![s].after = "loop", ![s].out = <<[k |-> "end"]>>,
                                    ![s].buffered = sock[s].queue, ![s].queue = <<>>]
            /\ commit' = [commit EXCEPT ![HubOf[s]] = s]
    /\ UNCHANGED <<row, material, due, wire, joined, hand>>

-----------------------------------------------------------------------------
(* The forwarding loop; the select prefers the epoch.                        *)

Idle(s) == sock[s].pc = "loop" /\ sock[s].buffered = <<>>
CloseEpoch(s) ==
    /\ sock[s].epoch /\ (sock[s].pc \in {"send", "flush"} \/ Idle(s)) /\ Close(s)
    /\ UNCHANGED <<row, material, due, wire, joined, hand>>
CloseLagged(s) ==
    /\ Idle(s) /\ sock[s].lag /\ ~sock[s].epoch /\ Close(s)
    /\ UNCHANGED <<row, material, due, wire, joined, hand>>
ClientCloses(s) ==
    /\ (sock[s].pc \in {"send", "flush"} \/ Idle(s)) /\ Close(s)
    /\ UNCHANGED <<row, material, due, wire, joined, hand>>

\* resolve_and_send_projection_change reads the row, then its materials;
\* what was buffered before the end of the snapshot comes first.
TakeChange(k) ==
    IF k.buffered # <<>> THEN [k EXCEPT !.buffered = Tail(@), !.change = Head(k.buffered)]
                         ELSE [k EXCEPT !.queue = Tail(@), !.change = Head(k.queue)]
Resolve(s) ==
    /\ sock[s].pc = "loop"
    /\ IF Idle(s) THEN sock[s].queue # <<>> /\ ~sock[s].lag /\ ~sock[s].epoch ELSE TRUE
    /\ LET p == TakeChange(sock[s]).change
           removed == IF Gone(sock[s].published[p].v) THEN <<>>
                      ELSE <<[k |-> "removed", p |-> p, r |-> [v |-> row[p], m |-> 0]]>>
           k == [TakeChange(sock[s]) EXCEPT !.read = [v |-> row[p], m |-> 0]]
       IN sock' = [sock EXCEPT ![s] =
             IF ~Gone(row[p]) THEN [k EXCEPT !.pc = "join"]
             ELSE [k EXCEPT !.pc = IF removed = <<>> THEN "loop" ELSE "send", !.out = removed]]
    /\ UNCHANGED <<row, material, due, wire, joined, hand, commit>>
ResolveMaterials(s) ==
    /\ sock[s].pc = "join"
    /\ LET r == [sock[s].read EXCEPT !.m = material[sock[s].change]]
       IN sock' = [sock EXCEPT ![s].pc = IF r = sock[s].published[sock[s].change] THEN "loop" ELSE "send",
                     ![s].out = IF r = sock[s].published[sock[s].change] THEN <<>>
                                ELSE <<Upsert(sock[s].change, r)>>]
    /\ UNCHANGED <<row, material, due, wire, joined, hand, commit>>

\* Keep-alive: an unanswered ping closes the socket.
Ping(s) ==
    /\ Idle(s) /\ ~sock[s].epoch /\ ~sock[s].pong /\ sock' = [sock EXCEPT ![s].pong = TRUE]
    /\ UNCHANGED <<row, material, due, wire, joined, hand, commit>>
Pong(s) ==
    /\ Idle(s) /\ sock[s].pong /\ sock' = [sock EXCEPT ![s].pong = FALSE]
    /\ UNCHANGED <<row, material, due, wire, joined, hand, commit>>
PongTimeout(s) ==
    /\ Idle(s) /\ sock[s].pong /\ Close(s)
    /\ UNCHANGED <<row, material, due, wire, joined, hand>>

SocketSteps(s) == ReadMaterials(s) \/ ReadPrinters(s) \/ StartSend(s) \/ Flush(s) \/ Commit(s) \/ CloseEpoch(s)
                  \/ CloseLagged(s) \/ Resolve(s) \/ ResolveMaterials(s)
Next ==
    \/ \E h \in Hubs, p \in Printers : ChangePrinter(h, p) \/ ChangeMaterials(h, p) \/ Announce(h, p)
                                       \/ AnnounceFails(h, p)
    \/ \E h \in Hubs : Receive(h) \/ Deliver(h) \/ ReceiveFails(h) \/ StreamEnds(h) \/ SubscribeFails(h)
                       \/ Resubscribe(h) \/ SweepIdle(h)
    \/ \E s \in Sockets : Connect(s) \/ ReadMaterials(s) \/ ReadPrinters(s) \/ StartSend(s) \/ Flush(s)
                          \/ Commit(s) \/ CloseEpoch(s) \/ CloseLagged(s) \/ ClientCloses(s) \/ Resolve(s)
                          \/ ResolveMaterials(s) \/ Ping(s) \/ Pong(s) \/ PongTimeout(s)

Spec == Init /\ [][Next]_vars

\* Tasks of the hub and of the runtime run; peers need not.
Fairness ==
    /\ \A s \in Sockets : WF_vars(SocketSteps(s)) /\ SF_vars(Commit(s)) /\ WF_vars(Connect(s))
    /\ \A h \in Hubs : WF_vars(Receive(h)) /\ SF_vars(Deliver(h)) /\ WF_vars(Resubscribe(h))
    /\ \A h \in Hubs, p \in Printers : WF_vars(Announce(h, p))
FairSpec == Spec /\ Fairness

-----------------------------------------------------------------------------
(* Properties.                                                               *)

\* Some announcement of p is still on its way to socket s.
Pending(s, p) ==
    \/ \E h \in Hubs : p \in due[h]
    \/ p \in Range(wire[HubOf[s]]) \/ hand[HubOf[s]] = [p |-> p, swept |-> FALSE]
    \/ p \in Range(sock[s].buffered \o sock[s].queue)
    \/ sock[s].pc = "join" /\ sock[s].change = p
    \/ sock[s].pc \in {"send", "flush"} /\ \E i \in DOMAIN sock[s].out :
            sock[s].out[i].k \in {"upsert", "removed"} /\ sock[s].out[i].p = p

\* A record the plugin shows differs from the database only while a socket
\* has yet to be told, or is about to be closed: no change is silently lost
\* to a socket whose snapshot is complete (forward_studio_events).
NoSilentGap ==
    \A s \in Sockets : \A p \in Printers :
        (Open(s) /\ sock[s].after = "loop" /\ sock[s].pc \in {"loop", "join"} /\ ~sock[s].epoch /\ ~sock[s].lag
         /\ ~Same(sock[s].view[p], Record(p))) => Pending(s, p)

\* A printer's record never goes back to an older one, not even when the
\* plugin connects again: it is resolved when it is sent, by the task that
\* sends it (resolve_and_send_projection_change).
NeverOlderStep ==
    \A s \in Sockets, p \in Printers : sock'[s].view[p].v >= sock[s].view[p].v
                                      \/ sock'[s].view[p] = Nothing
NeverOlder == [][NeverOlderStep]_vars

\* A snapshot is sent whole or not at all: no change is passed to a socket
\* of the hub while the end of a snapshot is being sent (lock_publication).
CommitExcludesDeliveryStep ==
    \A s \in Sockets : commit[HubOf[s]] # None /\ commit'[HubOf[s]] = commit[HubOf[s]]
        => sock'[s].queue \in {sock[s].queue, <<>>}
CommitExcludesDelivery == [][CommitExcludesDeliveryStep]_vars

\* The lock is held by the socket that is sending the end of its snapshot.
LockOfCommitter ==
    \A h \in Hubs : commit[h] # None =>
        /\ sock[commit[h]].pc \in {"send", "flush"} /\ sock[commit[h]].out = <<[k |-> "end"]>>

\* Every snapshot ends, committed or with the socket closed, and every
\* announcement a hub received is passed on.
SnapshotEnds == \A s \in Sockets : (sock[s].pc = "materials") ~> (sock[s].pc \in {"loop", "off"})
DeliveryEnds == \A h \in Hubs : (hand[h].p # None) ~> (hand[h].p = None)
=============================================================================
