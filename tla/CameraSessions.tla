---------------------------- MODULE CameraSessions ----------------------------
(***************************************************************************)
(* The camera relay: the registry of camera streams of one tenant and one   *)
(* agent at the Hub, the HTTP responses they feed, the control channel that *)
(* carries Open and Close to the agent, the agent's camera tasks and the    *)
(* reverse camera calls that carry frames back.  Frames are only told apart *)
(* by whether they fit the Hub's size limit.                                *)
(***************************************************************************)
EXTENDS Naturals, Sequences, FiniteSets, SequencesExt

CONSTANTS Ids,          \* stream ids, as many as responses are ever opened
          Printers,     \* printers of the agent
          Model,        \* [Printers -> {"rtsp", "local", "other"}]
          Configured,   \* the printers the agent has an endpoint for
          MaxStreams,   \* max_streams_per_tenant
          QueueCap,     \* capacity of a response's channel (16)
          ChanCap,      \* capacity of the agent's command channel (16)
          AgentLimit,   \* camera tasks of an agent (4)
          MaxSess,      \* bound: control sessions
          MaxFrames,    \* bound: frames of one stream
          MayClose      \* whether the Hub may close the agent's session

CameraAssumption ==
    /\ MaxStreams \in Nat /\ QueueCap \in Nat \ {0} /\ ChanCap \in Nat \ {0}
    /\ AgentLimit \in Nat /\ MaxSess \in Nat /\ MaxFrames \in Nat
    /\ Model \in [Printers -> {"rtsp", "local", "other"}]
    /\ Configured \subseteq Printers /\ MayClose \in BOOLEAN

VARIABLES http,    \* where the response of a stream is
          info,    \* the printer and mode of a stream, the session it was opened on, what it replaced
          reg,     \* the registered streams
          q,       \* what waits in the channel of a response
          count,   \* permits of the tenant
          aborts,  \* streams whose dropped response has spawned abort_stream
          sess,    \* control session in the Hub's registry, 0 if none
          conn,    \* control session whose connection is up, 0 if none
          epoch,   \* control sessions so far
          chan,    \* the command channel of the connection
          closing, \* close_agent is between the cameras and the session
          task,    \* camera tasks of the agent
          tasks,   \* the ids in the agent's map
          full,    \* the stream whose refusal the agent's worker is reporting
          made,    \* frames produced for a stream
          rpc,     \* the Hub's end of the camera call of a stream
          ev,      \* events of a stream on their way to the Hub
          lost     \* streams that no Close will reach any more

hubVars == <<http, info, reg, q, count, aborts>>
sessVars == <<sess, conn, epoch, closing>>
agentVars == <<task, tasks, full, made>>
wireVars == <<rpc, ev>>
vars == <<hubVars, sessVars, chan, agentVars, wireVars, lost>>

Modes == {"mp4", "mjpeg"}
NoInfo == [p |-> CHOOSE p \in Printers : TRUE, mode |-> "mp4", sess |-> 0, over |-> {}]

TypeOK ==
    /\ http \in [Ids -> {"new", "permit", "registered", "failing", "open", "dropped", "gone"}]
    /\ \A i \in Ids : info[i].p \in Printers /\ info[i].mode \in Modes /\ info[i].sess \in 0..MaxSess
    /\ reg \subseteq Ids /\ aborts \subseteq Ids /\ lost \subseteq Ids
    /\ \A i \in Ids : Len(q[i]) <= QueueCap /\ Range(q[i]) \subseteq {"chunk", "err"}
    /\ count \in 0..Cardinality(Ids) /\ sess \in 0..epoch /\ conn \in 0..epoch /\ epoch \in 0..MaxSess
    /\ Len(chan) <= ChanCap /\ Range(chan) \subseteq {"open", "close"} \X Ids
    /\ closing \in BOOLEAN /\ tasks \subseteq Ids /\ full \in SUBSET Ids /\ Cardinality(full) <= 1
    /\ task \in [Ids -> {"none", "connect", "stream", "report", "done"}]
    /\ made \in [Ids -> 0..MaxFrames] /\ rpc \in [Ids -> {"none", "up", "evict", "down"}]
    /\ \A i \in Ids : Range(ev[i]) \subseteq {"chunk", "big", "ok", "err", "unsupported"}

Init ==
    /\ http = [i \in Ids |-> "new"] /\ info = [i \in Ids |-> NoInfo] /\ reg = {}
    /\ q = [i \in Ids |-> <<>>] /\ count = 0 /\ aborts = {}
    /\ sess = 0 /\ conn = 0 /\ epoch = 0 /\ closing = FALSE /\ chan = <<>>
    /\ task = [i \in Ids |-> "none"] /\ tasks = {} /\ full = {} /\ made = [i \in Ids |-> 0]
    /\ rpc = [i \in Ids |-> "none"] /\ ev = [i \in Ids |-> <<>>] /\ lost = {}

-----------------------------------------------------------------------------
(* What the printer's model allows.                                          *)

StudioLocalCamera(m) == m = "local"
SupportsRtsp(m) == m = "rtsp"

\* stream_camera: what produces the frames of a stream.
MjpegSource(m) ==
    IF StudioLocalCamera(m) THEN "local" ELSE IF SupportsRtsp(m) THEN "ffmpegMjpeg" ELSE "unsupported"
Mp4Source(m) == IF SupportsRtsp(m) THEN "ffmpegMp4" ELSE "unsupported"
Source(i) == IF info[i].mode = "mp4" THEN Mp4Source(Model[info[i].p]) ELSE MjpegSource(Model[info[i].p])

\* A JPEG frame of ffmpeg is sent whole; the other sources send pieces below the Hub's limit.
Pieces(source) == IF source = "ffmpegMjpeg" THEN {"chunk", "big"} ELSE {"chunk"}

-----------------------------------------------------------------------------
(* Channels.                                                                 *)

\* try_send of a sequence of commands on the channel of session e: those for which there is room.
Room(e) == IF conn = e /\ e # 0 THEN ChanCap - Len(chan) ELSE 0
Sent(e, cmds) == SubSeq(cmds, 1, IF Room(e) < Len(cmds) THEN Room(e) ELSE Len(cmds))
CloseCommands(ids) == [k \in 1..Cardinality(ids) |-> <<"close", SetToSeq(ids)[k]>>]

\* try_send on the channel of a response: nothing if it is full or its receiver has gone.
CanPush(i) == Len(q[i]) < QueueCap /\ http[i] \in {"registered", "open"}
PushErr(ids) == [i \in Ids |-> IF i \in ids /\ CanPush(i) THEN Append(q[i], "err") ELSE q[i]]

-----------------------------------------------------------------------------
(* The Hub's routes and its registry.                                        *)

\* The permit of the tenant's capacity.
Acquire == count < MaxStreams
Release == count' = count - 1

\* The plugin's route asks for the model; the browser's route does not.

PluginRoute(p) == StudioLocalCamera(Model[p])

OpenRoute(i, p, mode) ==
    /\ http[i] = "new" /\ \A j \in Ids : j < i => http[j] # "new"
    /\ mode = "mjpeg" => PluginRoute(p)
    /\ sess # 0 /\ Acquire
    /\ count' = count + 1
    /\ http' = [http EXCEPT ![i] = "permit"]
    /\ info' = [info EXCEPT ![i] = [p |-> p, mode |-> mode, sess |-> sess, over |-> {}]]
    /\ UNCHANGED <<reg, q, aborts, sessVars, chan, agentVars, wireVars, lost>>

\* open_stream under the lock: the streams of the same printer are replaced.
SamePrinter(i) == {j \in reg : info[j].p = info[i].p}
Register(i) ==
    /\ http[i] = "permit"
    /\ http' = [http EXCEPT ![i] = "registered"]
    /\ info' = [info EXCEPT ![i].over = SamePrinter(i)]
    /\ reg' = (reg \ SamePrinter(i)) \cup {i}
    /\ q' = PushErr(SamePrinter(i))
    /\ UNCHANGED <<count, aborts, sessVars, chan, agentVars, wireVars, lost>>

\* open_stream after the lock: Close for what was replaced, Open for the new stream.
\* The Open of a stream that was replaced meanwhile goes out after its Close.
TooLate(i) == i \notin reg /\ \A k \in Ids : http[k] = "registered" => i \notin info[k].over
SendOpen(i) ==
    LET replaced == info[i].over
        closes   == Sent(info[i].sess, CloseCommands(replaced))
        sent     == Sent(info[i].sess, CloseCommands(replaced) \o <<<<"open", i>>>>)
    IN  /\ http[i] = "registered"
        /\ chan' = chan \o sent
        /\ lost' = lost \cup {j \in replaced : \A k \in 1..Len(closes) : closes[k][2] # j}
                        \cup {j \in {i} : TooLate(j)}
        /\ http' = [http EXCEPT ![i] = IF Len(sent) = Cardinality(replaced) + 1 THEN "open" ELSE "failing"]
        /\ UNCHANGED <<info, reg, q, count, aborts, sessVars, agentVars, wireVars>>

\* Mutant: the permit is not dropped.
FailOpenLeaks(i) ==
    /\ http[i] = "failing"
    /\ reg' = reg \ {i} /\ http' = [http EXCEPT ![i] = "gone"]
    /\ q' = [q EXCEPT ![i] = <<>>]
    /\ UNCHANGED <<count, info, aborts, sessVars, chan, agentVars, wireVars, lost>>

\* The Open could not be sent: the stream is taken back and the permit dropped.
FailOpen(i) ==
    /\ http[i] = "failing"
    /\ reg' = reg \ {i} /\ http' = [http EXCEPT ![i] = "gone"] /\ Release
    /\ q' = [q EXCEPT ![i] = <<>>]
    /\ UNCHANGED <<info, aborts, sessVars, chan, agentVars, wireVars, lost>>

\* The client goes while open_stream waits for the registry's lock: the permit is returned with
\* the future, but a stream that was registered stays so.
OpenDropped(i) ==
    /\ http[i] \in {"permit", "failing"}
    /\ http' = [http EXCEPT ![i] = IF i \in reg THEN "dropped" ELSE "gone"] /\ Release
    /\ q' = [q EXCEPT ![i] = <<>>]
    /\ UNCHANGED <<info, reg, aborts, sessVars, chan, agentVars, wireVars, lost>>

\* A response is dropped: its permit is returned and abort_stream is spawned.
DropResponse(i) ==
    /\ http' = [http EXCEPT ![i] = "gone"] /\ Release
    /\ aborts' = aborts \cup {i} /\ q' = [q EXCEPT ![i] = <<>>]
    /\ UNCHANGED <<info, reg, sessVars, chan, agentVars, wireVars, lost>>

\* The client reads a chunk, the body ends or fails, or the client goes away.
ReadChunk(i) ==
    /\ http[i] = "open" /\ q[i] # <<>> /\ Head(q[i]) = "chunk"
    /\ q' = [q EXCEPT ![i] = Tail(@)]
    /\ UNCHANGED <<http, info, reg, count, aborts, sessVars, chan, agentVars, wireVars, lost>>
BodyEnds(i) ==
    /\ http[i] = "open"
    /\ IF q[i] = <<>> THEN i \notin reg /\ rpc[i] # "evict" ELSE Head(q[i]) = "err"
    /\ DropResponse(i)
ClientGone(i) == http[i] = "open" /\ DropResponse(i)

AbortStream(i) ==
    /\ i \in aborts
    /\ aborts' = aborts \ {i} /\ reg' = reg \ {i}
    /\ chan' = IF i \in reg THEN chan \o Sent(info[i].sess, <<<<"close", i>>>>) ELSE chan
    /\ lost' = IF i \in reg /\ Room(info[i].sess) = 0 THEN lost \cup {i} ELSE lost
    /\ UNCHANGED <<http, info, q, count, sessVars, agentVars, wireVars>>

\* close_agent of the registry, before the control session is closed.
CloseCameras ==
    /\ MayClose /\ ~closing /\ sess # 0
    /\ closing' = TRUE /\ reg' = {} /\ q' = PushErr(reg)
    /\ chan' = chan \o Sent(sess, CloseCommands({i \in reg : info[i].sess = sess}))
    /\ UNCHANGED <<http, info, count, aborts, sess, conn, epoch, agentVars, wireVars, lost>>
CloseSession ==
    /\ closing /\ closing' = FALSE /\ sess' = 0
    /\ UNCHANGED <<hubVars, conn, epoch, chan, agentVars, wireVars, lost>>

-----------------------------------------------------------------------------
(* The agent: its worker takes camera commands one at a time, in order.      *)

\* Open: a new task, a task that only reports a missing endpoint, or a refusal at the limit.
Alive == {i \in tasks : task[i] # "done"}

WorkerOpen(i) ==
    /\ conn # 0 /\ full = {} /\ chan # <<>> /\ Head(chan) = <<"open", i>>
    /\ chan' = Tail(chan)
    /\ IF Cardinality(Alive) >= AgentLimit
       THEN full' = {i} /\ tasks' = Alive /\ UNCHANGED task
       ELSE /\ tasks' = Alive \cup {i} /\ UNCHANGED full
            /\ task' = [task EXCEPT ![i] = IF info[i].p \in Configured THEN "connect" ELSE "report"]
    /\ UNCHANGED <<hubVars, sessVars, made, wireVars, lost>>

\* stop_camera_task: the task is aborted and joined.
WorkerClose(i) ==
    /\ conn # 0 /\ full = {} /\ chan # <<>> /\ Head(chan) = <<"close", i>>
    /\ chan' = Tail(chan) /\ tasks' = tasks \ {i}
    /\ task' = [task EXCEPT ![i] = IF i \in tasks THEN "done" ELSE @]
    /\ UNCHANGED <<hubVars, sessVars, full, made, wireVars, lost>>

\* connect_camera_stream: a camera call is taken while a control session is current.
HelloAccepted(arrives) == arrives /\ sess # 0

\* report_reverse_camera_closed: a camera call that only says closed, or a time-out.
Reported(i, arrives) ==
    IF HelloAccepted(arrives)
    THEN rpc' = [rpc EXCEPT ![i] = "up"] /\ ev' = [ev EXCEPT ![i] = <<"err">>]
    ELSE UNCHANGED wireVars
ReportFull(i, arrives) ==
    /\ i \in full /\ full' = {} /\ Reported(i, arrives)
    /\ UNCHANGED <<hubVars, sessVars, chan, task, tasks, made, lost>>
ReportClosed(i, arrives) ==
    /\ task[i] = "report" /\ task' = [task EXCEPT ![i] = "done"] /\ Reported(i, arrives)
    /\ UNCHANGED <<hubVars, sessVars, chan, tasks, full, made, lost>>

\* reverse_camera_stream: the call is opened; the Hub accepts it while a control session is
\* current.  A failure is only logged.
CameraHello(i, arrives) ==
    /\ task[i] = "connect"
    /\ IF HelloAccepted(arrives)
       THEN rpc' = [rpc EXCEPT ![i] = "up"] /\ task' = [task EXCEPT ![i] = "stream"]
       ELSE task' = [task EXCEPT ![i] = "done"] /\ UNCHANGED rpc
    /\ UNCHANGED <<hubVars, sessVars, chan, tasks, full, made, ev, lost>>

\* forward_camera_frames: a frame, or the end of the source with its Closed event.
Produce(i, piece) ==
    /\ task[i] = "stream" /\ rpc[i] # "down" /\ made[i] < MaxFrames
    /\ Source(i) # "unsupported" /\ piece \in Pieces(Source(i))
    /\ made' = [made EXCEPT ![i] = @ + 1] /\ ev' = [ev EXCEPT ![i] = Append(@, piece)]
    /\ UNCHANGED <<hubVars, sessVars, chan, task, tasks, full, rpc, lost>>
SourceEnds(i, outcome) ==
    /\ task[i] = "stream" /\ rpc[i] # "down"
    /\ (outcome = "unsupported") = (Source(i) = "unsupported")
    /\ Source(i) = "local" => outcome # "ok"
    /\ task' = [task EXCEPT ![i] = "done"] /\ ev' = [ev EXCEPT ![i] = Append(@, outcome)]
    /\ UNCHANGED <<hubVars, sessVars, chan, tasks, full, made, rpc, lost>>

\* forward_reverse_camera_session: the Hub has ended the call.
CallEnds(i) ==
    /\ task[i] = "stream" /\ rpc[i] = "down"
    /\ task' = [task EXCEPT ![i] = "done"]
    /\ UNCHANGED <<hubVars, sessVars, chan, tasks, full, made, wireVars, lost>>

-----------------------------------------------------------------------------
(* The Hub's end of a camera call.                                           *)

\* push_chunk: into the response's channel, or nowhere; a channel that takes nothing is evicted.
PushChunk(i) ==
    IF i \in reg /\ CanPush(i) THEN q' = [q EXCEPT ![i] = Append(@, "chunk")] /\ UNCHANGED rpc
    ELSE rpc' = [rpc EXCEPT ![i] = IF i \in reg THEN "evict" ELSE @] /\ UNCHANGED q

\* close_stream: the agent, or the Hub for a chunk that is too large, ends the stream.
CloseStream(i, failed) ==
    /\ reg' = reg \ {i} /\ q' = IF i \in reg /\ failed THEN PushErr({i}) ELSE q

HandleCameraEvent(i) ==
    /\ rpc[i] = "up" /\ sess # 0 /\ ev[i] # <<>>
    /\ ev' = [ev EXCEPT ![i] = Tail(@)]
    /\ CASE Head(ev[i]) = "chunk" -> PushChunk(i) /\ UNCHANGED reg
         [] Head(ev[i]) = "big"   -> CloseStream(i, TRUE) /\ rpc' = [rpc EXCEPT ![i] = "down"]
         [] OTHER                 -> CloseStream(i, Head(ev[i]) # "ok") /\ UNCHANGED rpc
    /\ UNCHANGED <<http, info, count, aborts, sessVars, chan, agentVars, lost>>

\* push_chunk, second acquisition of the lock: nothing tells the agent.
Evict(i) ==
    /\ rpc[i] = "evict" /\ rpc' = [rpc EXCEPT ![i] = "up"]
    /\ reg' = reg \ {i} /\ lost' = IF i \in reg THEN lost \cup {i} ELSE lost
    /\ UNCHANGED <<http, info, q, count, aborts, sessVars, chan, agentVars, ev>>

\* connect_camera_stream's loop ends with the call or with the control session.
RpcEnds(i) ==
    /\ rpc[i] = "up"
    /\ sess = 0 \/ (ev[i] = <<>> /\ task[i] \in {"none", "done"})
    /\ rpc' = [rpc EXCEPT ![i] = "down"] /\ ev' = [ev EXCEPT ![i] = <<>>]
    /\ UNCHANGED <<hubVars, sessVars, chan, agentVars, lost>>

-----------------------------------------------------------------------------
(* The control session.                                                      *)

AgentConnects ==
    /\ conn = 0 /\ sess = 0 /\ ~closing /\ epoch < MaxSess
    /\ epoch' = epoch + 1 /\ sess' = epoch + 1 /\ conn' = epoch + 1
    /\ UNCHANGED <<hubVars, closing, chan, agentVars, wireVars, lost>>

\* The connection breaks, or ends because the Hub has closed the session: the agent aborts
\* its worker and tears all camera tasks down.
Teardown ==
    /\ conn # 0 /\ conn' = 0 /\ chan' = <<>> /\ full' = {} /\ tasks' = {}
    /\ task' = [i \in Ids |-> IF i \in tasks THEN "done" ELSE task[i]]
    /\ UNCHANGED <<hubVars, sess, epoch, closing, made, wireVars, lost>>
ConnectionLost == epoch < MaxSess /\ Teardown
ClosedByHub == sess = 0 /\ Teardown

\* The Hub's inbound task notices that the connection has gone.
SessionRemoved ==
    /\ conn = 0 /\ sess # 0 /\ sess' = 0
    /\ UNCHANGED <<hubVars, conn, epoch, closing, chan, agentVars, wireVars, lost>>

-----------------------------------------------------------------------------
Hub(i) == \/ Register(i) \/ SendOpen(i) \/ FailOpen(i) \/ OpenDropped(i) \/ AbortStream(i) \/ BodyEnds(i)
Wire(i) == HandleCameraEvent(i) \/ Evict(i) \/ RpcEnds(i)
Agent(i) == WorkerOpen(i) \/ WorkerClose(i) \/ CallEnds(i)
            \/ \E b \in BOOLEAN : ReportFull(i, b) \/ ReportClosed(i, b) \/ CameraHello(i, b)
Frames(i) == (\E x \in {"chunk", "big"} : Produce(i, x))
              \/ \E o \in {"ok", "err", "unsupported"} : SourceEnds(i, o)
Control == AgentConnects \/ ConnectionLost \/ ClosedByHub \/ SessionRemoved \/ CloseCameras \/ CloseSession
Next ==
    \/ \E i \in Ids : \/ \E p \in Printers, m \in Modes : OpenRoute(i, p, m)
                       \/ Hub(i) \/ Wire(i) \/ Agent(i) \/ Frames(i) \/ ReadChunk(i) \/ ClientGone(i)
    \/ Control

Spec == Init /\ [][Next]_vars

\* Spawned tasks run, the agent's worker goes on, sessions the Hub has closed come to their end;
\* nothing is asked of clients, printers or the network.
Fairness ==
    /\ \A i \in Ids : WF_vars(AbortStream(i)) /\ WF_vars(Wire(i)) /\ WF_vars(Agent(i))
                       /\ WF_vars(Register(i)) /\ WF_vars(SendOpen(i))
    /\ WF_vars(ClosedByHub) /\ WF_vars(CloseSession)
LiveSpec == Spec /\ Fairness

-----------------------------------------------------------------------------
(* Properties.                                                               *)

\* The capacity of the tenant is exact: one permit per response that is being opened or read,
\* never more than the limit, whatever fails in between.
CapacityExact ==
    /\ count = Cardinality({i \in Ids : http[i] \in {"permit", "registered", "failing", "open"}})
    /\ count <= MaxStreams

\* A registered stream has a response, or an abort on its way: no handle stays behind in the
\* registry when an open fails, a client leaves or a stream is replaced. Only the handle of an
\* open that was dropped on its way out stays, and the agent was never told of that stream.
HandleOwned ==
    /\ \A i \in reg : http[i] \in {"registered", "failing", "open", "dropped"} \/ i \in aborts
    /\ \A i \in reg : http[i] = "dropped" => task[i] = "none" /\ <<"open", i>> \notin Range(chan)

\* At most one registered stream per printer, although opens race with each other.
OnePerPrinter == \A i, j \in reg : info[i].p = info[j].p => i = j

\* The agent never runs more camera tasks than its limit.
AgentBounded == Cardinality(Alive) <= AgentLimit

\* No frame exceeds the size the Hub accepts: the routes ask no agent for the one source whose
\* frames are not cut into pieces.
ChunksFit == \A i \in Ids : "big" \notin Range(ev[i])

\* A camera task whose response has gone comes to its end, unless its Close was lost: the control
\* channel was full, the response overflowed, or another open replaced the stream before its own
\* Open was sent.
StopsAtAgent ==
    \A i \in Ids : (http[i] = "gone" /\ i \notin lost) ~> (i \in lost \/ task[i] \in {"none", "done"})

\* "open_stream_replaces_existing_stream_for_same_printer": once nothing is under way, the agent
\* runs at most one task per printer.
Quiet == chan = <<>> /\ full = {} /\ aborts = {}
         /\ \A i \in Ids : http[i] \in {"new", "open", "dropped", "gone"}
ReplacedIsClosed ==
    Quiet => \A i, j \in Alive : info[i].p = info[j].p => i = j

\* "Printer cameras stream through the owning live Agent for whitelisted models": a stream of
\* the browser's route is not refused for its model.
WhitelistedServed == \A i \in Ids :
    Model[info[i].p] = "local" => "unsupported" \notin Range(ev[i])
=============================================================================
