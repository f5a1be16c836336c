--------------------------- MODULE RecoveryProbe ---------------------------
(***************************************************************************)
(* The client of the WebSocket gate against the server it measures.        *)
(*                                                                         *)
(* kind "session" is _run_session, a sender and a concurrent receiver.     *)
(* kind "probe" is _run_recovery_probe: it sends half of the audio, one    *)
(* acknowledged frame at a time, drops the connection where the server's   *)
(* frame buffer is empty, resumes, and sends the rest.                     *)
(*                                                                         *)
(* The server is session_handler as its peer sees it: the frame buffer,    *)
(* the chunks it stores and acknowledges, pause and resume, the event log, *)
(* and a resume in which the worker starts before the replay is queued.    *)
(* Its queues, log and store in detail are SessionTransport, RecoveryLog   *)
(* and RecoveryStore.  Audio is counted in units, of which some number     *)
(* make an internal chunk.                                                 *)
(***************************************************************************)
EXTENDS Integers, Sequences

CONSTANTS
  total_samples,    \* units the client sends
  frame_samples,    \* a set: units per frame, one value a behaviour
  internal_size,    \* units per internal chunk
  High, Low,        \* depths of incoming that pause and resume the client
  QueueSize,        \* maxsize of outgoing
  MaxEvents,        \* bound: partials and commits of the backend
  MaxFaults         \* bound: failures and restarts of the server

ASSUME ProbeAssumption ==
  /\ total_samples \in Nat \ {0} /\ internal_size \in Nat \ {0}
  /\ frame_samples \subseteq Nat \ {0} /\ frame_samples # {}
  /\ High \in Nat \ {0} /\ Low \in Nat /\ Low < High
  /\ QueueSize \in Nat \ {0} /\ MaxEvents \in Nat /\ MaxFaults \in Nat

VARIABLES
  client,           \* the locals of the gate's coroutine
  connected,        \* its connection is open at the server's end too
  to_server,        \* messages on that connection
  to_client,
  handler,          \* session_handler and its worker
  outgoing,         \* the queue to the sender task
  session,          \* the RecoverySession
  faults,           \* failures and restarts so far
  excuse            \* what happened that explains a failed result

vars == <<client, connected, to_server, to_client, handler, outgoing, session,
          faults, excuse>>
serverVars == <<handler, outgoing, session>>

None == -1          \* no sequence number
disconnect_target == total_samples \div 2

\* The probe's result: a verdict is reached once.
Stages == {"starting", "sending", "permitted", "waiting", "ending", "retrying",
           "resuming", "done"}
Excuses == {"none", "server failed", "server restarted", "gave up",
            "too short", "partial dropped", "replay overtaken",
            "below threshold"}

\* What passes over the connection.
Message ==
  [type : {"start", "continue", "frame", "end",
           "ready", "error", "conflict", "audio_ack", "pause", "resume",
           "partial", "commit", "final"},
   value : Nat \cup {None}, buffered : Nat]

Msg(type, value) == [type |-> type, value |-> value, buffered |-> 0]
Ack(value, buffered) ==
  [type |-> "audio_ack", value |-> value, buffered |-> buffered]

EventTypes == {"partial", "commit", "final"}

TypeOK ==
  /\ client \in
       [kind : {"session", "probe"}, frame : frame_samples,
        stage : Stages, leg : {1, 2}, sent : 0..total_samples, allowed : BOOLEAN,
        last_ack : Nat \cup {None}, buffered : Nat \cup {None},
        first_ack : Nat \cup {None},
        last_sequence : Nat \cup {None}, ended : BOOLEAN,
        receiver : {"running", "failed", "done"},
        outcome : {"none", "passed", "failed"}]
  /\ connected \in BOOLEAN
  /\ to_server \in Seq(Message) /\ to_client \in Seq(Message)
  /\ outgoing \in Seq(Message)
  /\ handler \in
       [at : {"idle", "starting", "replaying", "serving", "finishing",
              "ended", "closing"},
        attached : BOOLEAN, buffer : Nat, paused : BOOLEAN,
        acknowledged : Nat \cup {None}, replay : Seq(Message),
        taken : Nat, base : Nat]
  /\ session \in
       [known : BOOLEAN, chunks : Nat, stored : Nat, boundary : Nat,
        log : Seq(EventTypes)]
  /\ faults \in 0..MaxFaults
  /\ excuse \in Excuses

Idle ==
  [at |-> "idle", attached |-> FALSE, buffer |-> 0, paused |-> FALSE,
   acknowledged |-> None, replay |-> << >>, taken |-> 0, base |-> 0]

Init ==
  /\ \E kind \in {"session", "probe"}, frame \in frame_samples :
       client = [kind |-> kind, frame |-> frame, stage |-> "starting",
                 leg |-> 1, sent |-> 0, allowed |-> TRUE, last_ack |-> None,
                 buffered |-> None, first_ack |-> None,
                 last_sequence |-> None, ended |-> FALSE,
                 receiver |-> "running", outcome |-> "none"]
  /\ connected = TRUE
  /\ to_server = <<Msg("start", None)>>
  /\ to_client = << >> /\ outgoing = << >>
  /\ handler = Idle
  /\ session = [known |-> FALSE, chunks |-> 0, stored |-> 0, boundary |-> 0,
                log |-> << >>]
  /\ faults = 0 /\ excuse = "none"

-----------------------------------------------------------------------------
Shorter(m, n) == IF m < n THEN m ELSE n
Later(m, n) == IF m > n THEN m ELSE n

Excused(reason) == excuse' = IF excuse = "none" THEN reason ELSE excuse

\* The gate closes its connection; the handler finds out when it next looks.
Close ==
  /\ connected' = FALSE
  /\ to_server' = << >> /\ to_client' = << >>
  /\ handler' = [handler EXCEPT !.attached = FALSE]

\* An exception leaves execute(), whose caller reports it.
Fails ==
  /\ client' = [client EXCEPT !.stage = "done", !.outcome = "failed"]
  /\ Close
  /\ UNCHANGED <<outgoing, session, faults>>

-----------------------------------------------------------------------------
(* Messages the gate reads.                                                *)

\* consume_message and receive() after one message.
Consumed(m) ==
  CASE m.type = "audio_ack" ->
         [client EXCEPT
            !.buffered = m.buffered,
            !.last_ack = IF m.value = None THEN @ ELSE m.value,
            !.stage = IF @ = "waiting" THEN "sending" ELSE @]
    [] m.type = "pause" -> [client EXCEPT !.allowed = FALSE]
    [] m.type = "resume" -> [client EXCEPT !.allowed = TRUE]
    [] m.type \in EventTypes ->
         [client EXCEPT !.last_sequence = m.value,
                        !.ended = (m.type = "final")]

\* The messages at which it raises: an error, an acknowledgement that moves
\* backwards, an event the validator rejects.
Rejected(m) ==
  \/ m.type = "error"
  \/ m.type = "audio_ack" /\ m.value # None /\ m.value < client.last_ack
  \/ /\ m.type \in EventTypes
     /\ \/ client.ended
        \/ client.last_sequence # None /\ m.value # client.last_sequence + 1

Raises ==
  IF to_client = << >> THEN ~connected ELSE Rejected(Head(to_client))

\* Mutant: what is left in the server's frame buffer is not looked at.
DrainedUnchecked == client.last_ack # None

\* Everything sent so far has been accepted.
Drained == client.last_ack # None /\ client.buffered = 0

\* The loops of the probe: half of the audio and an empty buffer before the
\* disconnection, all of it after.
NeedsMore ==
  IF client.leg = 1
  THEN client.sent < disconnect_target \/ ~Drained
  ELSE client.sent < total_samples

\* When the coroutine is reading: the probe while it waits, the session's
\* receiver task always.
Reading ==
  IF client.kind = "session"
  THEN client.stage # "starting" /\ client.receiver = "running"
  ELSE \/ client.stage = "waiting"
       \/ client.stage = "sending" /\ NeedsMore /\ ~client.allowed
       \/ client.stage = "ending" /\ ~client.ended

Consume ==
  /\ client.outcome = "none" /\ Reading /\ ~Raises /\ to_client # << >>
  /\ LET next == Consumed(Head(to_client)) IN
     client' = [next EXCEPT
                  !.receiver = IF next.kind = "session" /\ next.ended
                               THEN "done" ELSE @]
  /\ to_client' = Tail(to_client)
  /\ UNCHANGED <<connected, to_server, serverVars, faults, excuse>>

ConsumeRaises ==
  /\ client.outcome = "none" /\ Reading /\ Raises
  /\ UNCHANGED excuse
  /\ IF client.kind = "probe"
     THEN Fails
     ELSE /\ client' = [client EXCEPT !.receiver = "failed"]
          /\ UNCHANGED <<connected, to_server, to_client, serverVars, faults>>

-----------------------------------------------------------------------------
(* Both kinds: the start message, and its answer.                          *)

\* validate_ready, and what the probe asks of a resumed session besides.
ReadyFits(m) == client.leg = 1 \/ m.value = client.first_ack + 1

ReceiveReady ==
  /\ client.stage \in {"starting", "resuming"} /\ to_client # << >>
  /\ Head(to_client).type = "ready" /\ ReadyFits(Head(to_client))
  /\ client' = [client EXCEPT !.stage = "sending", !.allowed = TRUE]
  /\ to_client' = Tail(to_client)
  /\ UNCHANGED <<connected, to_server, serverVars, faults, excuse>>

\* Mutant: a session that is still active fails the probe.
RefusedForGood ==
  \/ to_client = << >> /\ ~connected
  \/ to_client # << >> /\ Head(to_client).type # "ready"

\* Everything but "ready", and a conflict while resuming.
Refused ==
  \/ to_client = << >> /\ ~connected
  \/ /\ to_client # << >>
     /\ LET m == Head(to_client) IN
        \/ m.type \notin {"ready", "conflict"}
        \/ m.type = "ready" /\ ~ReadyFits(m)

StartRejected ==
  /\ client.stage \in {"starting", "resuming"} /\ Refused
  /\ Fails /\ UNCHANGED excuse

-----------------------------------------------------------------------------
(* _run_session                                                            *)

\* receiver.done() is looked at before flow_allowed is waited for.
CheckReceiver ==
  /\ client.kind = "session" /\ client.stage = "sending"
  /\ client.receiver = "running" /\ client.sent < total_samples
  /\ client' = [client EXCEPT !.stage = "permitted"]
  /\ UNCHANGED <<connected, to_server, to_client, serverVars, faults, excuse>>

SendBlock ==
  /\ client.kind = "session" /\ client.stage = "permitted" /\ client.allowed
  /\ LET samples == Shorter(client.frame, total_samples - client.sent) IN
     IF connected
     THEN /\ to_server' = Append(to_server, Msg("frame", samples))
          /\ client' = [client EXCEPT !.stage = "sending", !.sent = @ + samples]
          /\ UNCHANGED <<connected, to_client, serverVars, faults, excuse>>
     ELSE Fails /\ UNCHANGED excuse

SendEnd ==
  /\ client.stage = "sending" /\ client.sent = total_samples
  /\ client.kind = "probe" => client.leg = 2
  /\ IF connected
     THEN /\ to_server' = Append(to_server, Msg("end", None))
          /\ client' = [client EXCEPT !.stage = "ending"]
          /\ UNCHANGED <<connected, to_client, serverVars, faults, excuse>>
     ELSE Fails /\ UNCHANGED excuse

\* await receiver: its exception is the session's.
ReceiverFailed ==
  /\ client.kind = "session" /\ client.receiver = "failed"
  /\ client.stage \in {"sending", "ending"}
  /\ Fails /\ UNCHANGED excuse

\* The checks after the terminal event.  Commits, pauses and latencies may be
\* outside their limits in any session.
SessionResult ==
  /\ client.kind = "session" /\ client.stage = "ending"
  /\ client.receiver = "done"
  /\ \E within \in BOOLEAN :
       /\ client' = [client EXCEPT
            !.stage = "done",
            !.outcome = IF within /\ client.last_ack # None /\ client.buffered = 0
                        THEN "passed" ELSE "failed"]
       /\ IF within THEN UNCHANGED excuse ELSE Excused("below threshold")
  /\ Close
  /\ UNCHANGED <<outgoing, session, faults>>

-----------------------------------------------------------------------------
(* _run_recovery_probe                                                     *)

SendFrame ==
  /\ client.kind = "probe" /\ client.stage = "sending"
  /\ NeedsMore /\ client.allowed
  /\ client.leg = 1 => total_samples - client.sent > client.frame
  /\ LET samples == Shorter(client.frame, total_samples - client.sent) IN
     IF connected
     THEN /\ to_server' = Append(to_server, Msg("frame", samples))
          /\ client' = [client EXCEPT !.stage = "waiting", !.sent = @ + samples]
          /\ UNCHANGED <<connected, to_client, serverVars, faults, excuse>>
     ELSE Fails /\ UNCHANGED excuse

TooShort ==
  /\ client.kind = "probe" /\ client.stage = "sending" /\ client.leg = 1
  /\ NeedsMore /\ client.allowed
  /\ total_samples - client.sent <= client.frame
  /\ Fails /\ Excused("too short")

\* The first connection is dropped only where everything sent is stored, which
\* is looked at again once it is.
Disconnect ==
  /\ client.kind = "probe" /\ client.stage = "sending" /\ client.leg = 1
  /\ ~NeedsMore
  /\ UNCHANGED excuse
  /\ IF Drained
     THEN /\ client' = [client EXCEPT !.stage = "retrying", !.leg = 2,
                                      !.first_ack = client.last_ack]
          /\ Close
          /\ UNCHANGED <<outgoing, session, faults>>
     ELSE Fails

\* A new connection, and start_request for the session.
AskResume ==
  /\ client.stage = "retrying"
  /\ client' = [client EXCEPT !.stage = "resuming"]
  /\ connected' = TRUE
  /\ to_server' = <<Msg("continue", client.last_sequence)>>
  /\ to_client' = << >>
  /\ UNCHANGED <<serverVars, faults, excuse>>

\* session_conflict: the old worker has not left yet.
StillActive ==
  /\ client.stage = "resuming" /\ to_client # << >>
  /\ Head(to_client).type = "conflict"
  /\ \/ /\ client' = [client EXCEPT !.stage = "retrying"]
        /\ Close
        /\ UNCHANGED <<outgoing, session, faults, excuse>>
     \/ Fails /\ Excused("gave up")

ProbeResult ==
  /\ client.kind = "probe" /\ client.stage = "ending" /\ client.ended
  /\ client' = [client EXCEPT
       !.stage = "done",
       !.outcome = IF /\ client.buffered = 0
                      /\ client.last_ack > client.first_ack
                   THEN "passed" ELSE "failed"]
  /\ Close
  /\ UNCHANGED <<outgoing, session, faults, excuse>>

-----------------------------------------------------------------------------
(* The server.                                                             *)

clientSide == <<client, connected, faults>>

\* A new session; it has nothing to replay.
StartSession ==
  /\ handler.at = "idle" /\ to_server # << >>
  /\ Head(to_server).type = "start"
  /\ handler' = [Idle EXCEPT !.at = "serving", !.attached = TRUE]
  /\ session' = [session EXCEPT !.known = TRUE]
  /\ to_server' = Tail(to_server)
  /\ to_client' = Append(to_client, Msg("ready", 0))
  /\ outgoing' = << >>
  /\ UNCHANGED <<clientSide, excuse>>

\* recovery_store.open: the session is still in use, or is not there.
RefuseResume ==
  /\ to_server # << >> /\ Head(to_server).type = "continue"
  /\ handler.at # "idle" \/ ~session.known
  /\ to_client' = Append(to_client,
       Msg(IF session.known THEN "conflict" ELSE "error", None))
  /\ connected' = FALSE /\ to_server' = << >>
  /\ UNCHANGED <<client, serverVars, faults, excuse>>

OpenPartial ==
  session.log # << >> /\ session.log[Len(session.log)] = "partial"

\* open finalizes the last partial, and the worker starts on the audio after
\* the boundary that leaves.  Sequence numbers are positions in the log.
OpenResume ==
  /\ handler.at = "idle" /\ session.known /\ to_server # << >>
  /\ Head(to_server).type = "continue"
  /\ \E boundary \in session.boundary..session.chunks :
       /\ ~OpenPartial => boundary = session.boundary
       /\ session' = [session EXCEPT
            !.boundary = boundary,
            !.log = IF OpenPartial THEN Append(@, "commit") ELSE @]
       /\ handler' = [Idle EXCEPT
            !.at = "starting", !.attached = TRUE,
            !.acknowledged = Head(to_server).value,
            !.taken = boundary, !.base = session.chunks]
  /\ to_server' = Tail(to_server)
  /\ outgoing' = << >>
  /\ UNCHANGED <<clientSide, to_client, excuse>>

\* "ready", the sender task and replay_after, with no other step of the event
\* loop in between.
Ready ==
  /\ handler.at = "starting" /\ handler.attached
  /\ to_client' = Append(to_client, Msg("ready", session.chunks))
  /\ handler' = [handler EXCEPT
       !.at = "replaying",
       !.replay = [i \in 1..(Len(session.log) - 1 - handler.acknowledged) |->
                     LET q == handler.acknowledged + i
                     IN Msg(session.log[q + 1], q)]]
  /\ UNCHANGED <<clientSide, to_server, outgoing, session, excuse>>

QueueReplay ==
  /\ handler.at = "replaying"
  /\ IF handler.replay = << >>
     THEN /\ handler' = [handler EXCEPT !.at = "serving"]
          /\ UNCHANGED outgoing
     ELSE /\ Len(outgoing) < QueueSize
          /\ outgoing' = Append(outgoing, Head(handler.replay))
          /\ handler' = [handler EXCEPT !.replay = Tail(@)]
  /\ UNCHANGED <<clientSide, to_server, to_client, session, excuse>>

Depth == session.chunks - Later(handler.taken, handler.base)

\* A binary frame: every whole chunk is stored, then one acknowledgement.
HandleFrame ==
  /\ handler.at = "serving" /\ handler.attached /\ to_server # << >>
  /\ Head(to_server).type = "frame"
  /\ LET filled == handler.buffer + Head(to_server).value
         whole == filled \div internal_size
         pauses == whole > 0 /\ ~handler.paused /\ Depth + whole - 1 >= High
         rest == filled % internal_size
         last == session.chunks + whole - 1
     IN /\ session' = [session EXCEPT !.chunks = @ + whole,
                                      !.stored = @ + whole * internal_size]
        /\ handler' = [handler EXCEPT !.buffer = rest,
                                      !.paused = @ \/ pauses]
        /\ to_client' = to_client
             \o (IF pauses THEN <<Msg("pause", None)>> ELSE << >>)
             \o <<Ack(last, rest)>>
  /\ to_server' = Tail(to_server)
  /\ UNCHANGED <<clientSide, outgoing, excuse>>

\* "end": what is buffered is the final chunk.
HandleEnd ==
  /\ handler.at = "serving" /\ handler.attached /\ to_server # << >>
  /\ Head(to_server).type = "end"
  /\ handler' = [handler EXCEPT !.at = "finishing", !.buffer = 0]
  /\ IF handler.buffer > 0
     THEN /\ session' = [session EXCEPT !.chunks = @ + 1,
                                        !.stored = @ + handler.buffer]
          /\ to_client' = Append(to_client, Ack(session.chunks, 0))
     ELSE UNCHANGED <<session, to_client>>
  /\ to_server' = Tail(to_server)
  /\ UNCHANGED <<clientSide, outgoing, excuse>>

Running == handler.at \in {"starting", "replaying", "serving", "finishing"}

\* A live event before the replay is queued reaches the client out of order,
\* and a numbered partial that is dropped leaves a gap.
Note(logged, dropped) ==
  IF dropped THEN Excused("partial dropped")
  ELSE IF logged /\ handler.at \in {"starting", "replaying"}
       THEN Excused("replay overtaken") ELSE UNCHANGED excuse

\* Mutant: off by one in the depth at which the client may go on.
ResumesBelow ==
  handler.paused /\ handler.taken >= handler.base /\ Depth - 1 < Low

\* The worker, having taken a chunk of incoming, lets a paused client go on.
Resumes ==
  handler.paused /\ handler.taken >= handler.base /\ Depth - 1 <= Low

\* The worker takes a chunk, of the audio to do again or of incoming, and may
\* log an event.  A durable one waits for room, a partial is dropped.
TakeChunk ==
  /\ Running /\ handler.attached /\ handler.taken < session.chunks
  /\ LET flow == IF Resumes THEN <<Msg("resume", None)>> ELSE << >>
         room == QueueSize - Len(outgoing) - Len(flow)
     IN /\ room >= 0
        /\ handler' = [handler EXCEPT !.taken = @ + 1,
                                      !.paused = @ /\ ~Resumes]
        /\ \E kind \in {"nothing", "partial", "commit"} :
             LET drops == kind = "partial" /\ room = 0 IN
             /\ kind # "nothing" => Len(session.log) < MaxEvents
             /\ kind = "commit" => room > 0
             /\ session' =
                  CASE kind = "nothing" -> session
                    [] kind = "partial" -> [session EXCEPT !.log = Append(@, kind)]
                    [] kind = "commit"  -> [session EXCEPT
                                              !.log = Append(@, kind),
                                              !.boundary = handler.taken + 1]
             /\ outgoing' = outgoing \o flow \o
                  (IF kind = "nothing" \/ drops THEN << >>
                   ELSE <<Msg(kind, Len(session.log))>>)
             /\ Note(kind # "nothing", drops)
  /\ UNCHANGED <<clientSide, to_server, to_client>>

\* After "end": an open partial is committed, then comes the terminal event.
WorkerEnds ==
  /\ handler.at = "finishing" /\ handler.attached /\ handler.taken = session.chunks
  /\ Len(outgoing) < QueueSize
  /\ LET kind == IF OpenPartial THEN "commit" ELSE "final" IN
     /\ session' = [session EXCEPT
          !.log = Append(@, kind),
          !.boundary = IF kind = "commit" THEN session.chunks ELSE @,
          !.known = (kind # "final")]
     /\ outgoing' = Append(outgoing, Msg(kind, Len(session.log)))
     /\ handler' = IF kind = "final" THEN [handler EXCEPT !.at = "ended"]
                   ELSE handler
  /\ UNCHANGED <<clientSide, to_server, to_client, excuse>>

\* send_events
Send ==
  /\ handler.at \in {"replaying", "serving", "finishing", "ended"}
  /\ handler.attached /\ outgoing # << >>
  /\ to_client' = Append(to_client, Head(outgoing))
  /\ outgoing' = Tail(outgoing)
  /\ UNCHANGED <<clientSide, to_server, handler, session, excuse>>

\* The sender has sent everything, or the peer is gone; the worker leaves and
\* the session may be resumed, unless it is completed.  (What the worker still
\* logs for a peer that is gone is in RecoveryLog.)
Detach ==
  /\ \/ Running /\ ~handler.attached
     \/ handler.at = "ended" /\ (outgoing = << >> \/ ~handler.attached)
  /\ handler' = [handler EXCEPT !.at = "closing"]
  /\ IF handler.attached THEN connected' = FALSE ELSE UNCHANGED connected
  /\ UNCHANGED <<client, to_server, to_client, outgoing, session, faults, excuse>>

Release ==
  /\ handler.at = "closing"
  /\ handler' = Idle /\ outgoing' = << >>
  /\ UNCHANGED <<clientSide, to_server, to_client, session, excuse>>

\* The backend, a limit or a timeout raises: public_error and the close.
ServerFails ==
  /\ faults < MaxFaults /\ Running /\ handler.attached
  /\ faults' = faults + 1 /\ Excused("server failed")
  /\ to_client' = Append(to_client, Msg("error", None))
  /\ connected' = FALSE /\ to_server' = << >>
  /\ handler' = [handler EXCEPT !.at = "closing", !.attached = FALSE]
  /\ UNCHANGED <<client, outgoing, session>>

\* The process is restarted: sessions live in memory and temporary files.
ServerRestarts ==
  /\ faults < MaxFaults /\ client.outcome = "none"
  /\ faults' = faults + 1 /\ Excused("server restarted")
  /\ connected' = FALSE /\ to_server' = << >>
  /\ handler' = Idle /\ outgoing' = << >>
  /\ session' = [session EXCEPT !.known = FALSE]
  /\ UNCHANGED <<client, to_client>>

-----------------------------------------------------------------------------
Gate ==
  \/ Consume
  \/ ConsumeRaises
  \/ ReceiveReady
  \/ StartRejected
  \/ CheckReceiver
  \/ SendBlock
  \/ SendEnd
  \/ ReceiverFailed
  \/ SessionResult
  \/ SendFrame
  \/ TooShort
  \/ Disconnect
  \/ AskResume
  \/ StillActive
  \/ ProbeResult

Server ==
  \/ StartSession
  \/ RefuseResume
  \/ OpenResume
  \/ Ready
  \/ QueueReplay
  \/ HandleFrame
  \/ HandleEnd
  \/ TakeChunk
  \/ WorkerEnds
  \/ Send
  \/ Detach
  \/ Release

Next == Gate \/ Server \/ ServerFails \/ ServerRestarts

Fairness ==
  /\ WF_vars(Consume) /\ WF_vars(ConsumeRaises) /\ WF_vars(ReceiveReady)
  /\ WF_vars(StartRejected) /\ WF_vars(CheckReceiver) /\ WF_vars(SendBlock)
  /\ WF_vars(SendEnd) /\ WF_vars(ReceiverFailed) /\ WF_vars(SessionResult)
  /\ WF_vars(SendFrame) /\ WF_vars(TooShort) /\ WF_vars(Disconnect)
  /\ WF_vars(AskResume) /\ WF_vars(StillActive) /\ WF_vars(ProbeResult)
  /\ WF_vars(StartSession) /\ WF_vars(RefuseResume) /\ WF_vars(OpenResume)
  /\ WF_vars(Ready) /\ WF_vars(QueueReplay) /\ WF_vars(HandleFrame)
  /\ WF_vars(HandleEnd) /\ WF_vars(TakeChunk) /\ WF_vars(WorkerEnds)
  /\ WF_vars(Send) /\ WF_vars(Detach) /\ WF_vars(Release)

Spec == Init /\ [][Next]_vars /\ Fairness

-----------------------------------------------------------------------------
\* What a passed result is evidence of: every unit of audio was stored, none
\* lost with a frame buffer at the disconnection, and the events of the
\* session, through the terminal one, reached the gate without a gap, over
\* both connections.
PassedMeansRecovered ==
  client.outcome = "passed" =>
    /\ session.stored = total_samples
    /\ client.ended /\ client.last_sequence = Len(session.log) - 1

\* A deployment that did nothing wrong is not failed: a failed result has a
\* cause outside the gate, its limits and its audio aside.
FailsForCause == client.outcome = "failed" => excuse # "none"

\* Without the overall timeout every result is reached, except in the one
\* place where _run_session waits for permission to send and does not notice
\* that its receiver has failed.
AbandonedPause ==
  client.stage = "permitted" /\ ~client.allowed /\ client.receiver = "failed"
ReturnsByItself == <>(client.outcome # "none" \/ AbandonedPause)

=============================================================================
