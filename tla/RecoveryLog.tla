---------------------------- MODULE RecoveryLog ----------------------------
(***************************************************************************)
(* The event log of one recoverable session, and its way to the client.    *)
(*                                                                         *)
(* A worker thread turns accepted audio into transcript events.  It gives  *)
(* each the next sequence number and retains it (append_event), then       *)
(* queues it for the sender (emit): two steps, with the asyncio handler in *)
(* between.  When a client disconnects, the store keeps the log; when it   *)
(* resumes, open partials are committed, a new worker transcribes the      *)
(* audio after transcribed_through again, and the handler replays the      *)
(* retained events after the client's acknowledgement through the same     *)
(* queue the new worker is already writing to.                             *)
(*                                                                         *)
(* Audio is counted in internal chunks, which are also the unit of time.   *)
(* The worker is transcribe_events in live mode over an endpointed batch   *)
(* backend: what the windows contain and what the backend makes of them    *)
(* is chosen freely.                                                       *)
(***************************************************************************)
EXTENDS Integers, Sequences

CONSTANTS
  MaxAudio,         \* bound: chunks the client sends
  MaxEvents,        \* bound: events in the session's life
  max_events_per_session,
  QueueSize         \* maxsize of outgoing

ASSUME LogAssumption ==
  /\ MaxAudio \in Nat /\ MaxEvents \in Nat
  /\ max_events_per_session \in Nat \ {0}
  /\ QueueSize \in Nat \ {0}

VARIABLES
  log,              \* session.events, by sequence number
  next_event_sequence,
  next_segment_index,
  transcribed_through,
  audio,            \* next_audio_sequence; also the end of the timeline
  completed,        \* session.completed, or session_completed of its worker
  conn,             \* where the handler of the current connection is
  outgoing,         \* its queue to the sender
  snapshot,         \* what replay_after returned and is not queued yet
  stage,            \* where transcribe_events is
  position,         \* chunks of the timeline its worker has consumed
  input_end,        \* locals of transcribe_events
  window_start,     \* where the current window may begin
  index, revision,
  last_end,
  commits,          \* its commits still to post-process
  hand,             \* the event it yielded, until that is retained
  unsent,           \* the payload retained, until that is queued
  produced,         \* a validator that has read every event ever retained
  seen,             \* a validator that has read every event delivered
  highest,          \* the client's highest sequence, which it acknowledges
  missing,          \* sequence numbers of durable events not delivered yet
  refused,          \* of events the validator of the log refuses (history)
  early,            \* of live events retained before the replay was queued
  dropped           \* of partials that met a full queue (history, too)

storeVars == <<log, next_event_sequence, next_segment_index,
               transcribed_through, produced, refused, early>>
workerVars == <<stage, position, input_end, window_start, index, revision,
                last_end, commits>>
clientVars == <<seen, highest, missing>>
vars == <<storeVars, audio, completed, conn, outgoing, snapshot, workerVars,
          hand, unsent, clientVars, dropped>>

Indexes == 0..MaxEvents
Times == 0..MaxAudio

\* The stream the session logs must obey the protocol.  The one its client
\* receives over all its connections is read by a validator, too.
NoEvent == [kind |-> "none"]
LastLogged ==
  IF next_event_sequence = 0 THEN NoEvent ELSE log[next_event_sequence - 1]

Logged == INSTANCE EventProtocol
            WITH Segments <- Indexes, Speakers <- {},
                 validator <- produced, event <- LastLogged

Event == Logged!Event \cup Logged!EndEvent

\* An event as transcribe_events yields it, before append_event completes it.
Yield ==
  [segment_id : Indexes, kind : {"partial", "commit", "replace"},
   revision : Nat, start : Times, end : Times]
  \cup [kind : {"end"}, start : Times]

Durable(e) == e.kind # "partial"

Conn == {"down", "finalizing", "starting", "replaying", "serving", "ending",
         "closing"}

TypeOK ==
  /\ log \in [DOMAIN log -> Event]
  /\ next_event_sequence \in 0..MaxEvents
  /\ DOMAIN log \subseteq 0..(next_event_sequence - 1)
  /\ next_segment_index \in Nat
  /\ transcribed_through \in Times
  /\ audio \in Times
  /\ completed \in BOOLEAN
  /\ conn \in Conn
  /\ outgoing \in Seq(Event)
  /\ snapshot \subseteq Event
  /\ stage \in {"listening", "post", "stopped"}
  /\ position \in Times
  /\ input_end \in Times
  /\ window_start \in Times
  /\ index \in Nat
  /\ revision \in Nat
  /\ last_end \in Times
  /\ commits \subseteq Yield
  /\ hand \subseteq Yield
  /\ unsent \subseteq Event
  /\ {produced, seen} \subseteq Logged!Validator
  /\ highest \in Int
  /\ missing \subseteq Nat /\ dropped \subseteq Nat
  /\ refused \subseteq Nat /\ early \subseteq Nat

Init ==
  /\ log = << >>
  /\ next_event_sequence = 0 /\ next_segment_index = 0
  /\ transcribed_through = 0
  /\ audio = 0
  /\ completed = FALSE
  /\ conn = "starting"
  /\ outgoing = << >> /\ snapshot = {}
  /\ stage = "listening"
  /\ position = 0 /\ input_end = 0 /\ window_start = 0
  /\ index = 0 /\ revision = 1 /\ last_end = 0
  /\ commits = {}
  /\ hand = {} /\ unsent = {}
  /\ produced = Logged!NewValidator
  /\ seen = Logged!NewValidator
  /\ highest = -1 /\ missing = {}
  /\ refused = {} /\ early = {} /\ dropped = {}

-----------------------------------------------------------------------------
Later(m, n) == IF m > n THEN m ELSE n

first_retained_event_sequence ==
  IF DOMAIN log = {} THEN 0
  ELSE CHOOSE q \in DOMAIN log : \A r \in DOMAIN log : q <= r

\* The log with event e, and without the oldest events: as many as the limit
\* on their number asks for, and any more that the limit on their bytes does.
Retains(e, newLog) ==
  LET q == next_event_sequence
      all == [r \in DOMAIN log \cup {q} |-> IF r = q THEN e ELSE log[r]]
  IN \E first \in Later(0, q + 1 - max_events_per_session)..q :
       newLog = [r \in {x \in DOMAIN all : x >= first} |-> all[r]]

\* _retain_event and the bookkeeping around it, for a payload e that already
\* has the next sequence number.
Retain(e) ==
  /\ next_event_sequence < MaxEvents
  /\ Retains(e, log')
  /\ next_event_sequence' = next_event_sequence + 1
  /\ next_segment_index' =
       IF e.kind = "end" THEN next_segment_index
       ELSE Later(next_segment_index, e.segment_id + 1)
  /\ transcribed_through' =
       IF e.kind \in {"commit", "replace"}
       THEN Later(transcribed_through, e.end) ELSE transcribed_through
  /\ produced' = Logged!After(produced, e)
  /\ refused' = IF Logged!Accepts(produced, e) THEN refused
                ELSE refused \cup {e.sequence}
  /\ early' = IF conn \in {"starting", "replaying"}
              THEN early \cup {e.sequence} ELSE early
  /\ missing' = IF Durable(e) THEN missing \cup {e.sequence} ELSE missing

-----------------------------------------------------------------------------
(* transcribe_events.  It runs ahead of the log by the event in hand.      *)

Working == stage # "stopped" /\ hand = {} /\ unsent = {}

\* The hypothesis merged from window_start..to becomes the event of this kind.
Yields(kind, to) ==
  \E start \in window_start..to : \E end \in start..to :
    /\ hand' = {[segment_id |-> index, kind |-> kind, revision |-> revision,
                 start |-> start, end |-> end]}
    /\ last_end' = Later(last_end, end)

\* Mutant: the chunks of a finished window stay in the next one.
SegmentKeepsWindow(kind, to) ==
  /\ Yields(kind, to)
  /\ IF kind = "partial"
     THEN revision' = revision + 1 /\ UNCHANGED <<index, commits>>
     ELSE index' = index + 1 /\ revision' = 1 /\ commits' = commits \cup hand'
  /\ UNCHANGED window_start

Segment(kind, to) ==
  /\ Yields(kind, to)
  /\ IF kind = "partial"
     THEN /\ revision' = revision + 1
          /\ UNCHANGED <<index, commits, window_start>>
     ELSE /\ index' = index + 1 /\ revision' = 1
          /\ commits' = commits \cup hand'
          /\ window_start' = to

Quiet == UNCHANGED <<hand, last_end, revision, index, commits>>

\* observed_chunks and live_windows take one chunk: it ends no window (or one
\* without text), or a growing window, or an endpointed one.
Consume ==
  /\ Working /\ stage = "listening" /\ conn # "closing"
  /\ position < audio
  /\ position' = position + 1
  /\ input_end' = position + 1
  /\ \/ Quiet /\ UNCHANGED window_start
     \/ Quiet /\ window_start' = position + 1
     \/ Segment("partial", position + 1)
     \/ Segment("commit", position + 1)
  /\ UNCHANGED <<storeVars, audio, completed, conn, outgoing, snapshot, stage,
                 unsent, clientVars, dropped>>

\* The input ended after "end": the open window is the last one.
FinishWindow ==
  /\ Working /\ stage = "listening" /\ conn = "ending"
  /\ position = audio
  /\ stage' = "post"
  /\ \/ Quiet /\ UNCHANGED window_start
     \/ window_start < position /\ Segment("commit", position)
  /\ UNCHANGED <<storeVars, audio, completed, conn, outgoing, snapshot,
                 position, input_end, unsent, clientVars, dropped>>

\* cancel_event is set: the loop over the windows breaks, and goes on to the
\* post-processing all the same.
Break ==
  /\ Working /\ stage = "listening" /\ conn = "closing"
  /\ stage' = "post"
  /\ UNCHANGED <<storeVars, audio, completed, conn, outgoing, snapshot,
                 position, input_end, window_start, index, revision, last_end,
                 commits, hand, unsent, clientVars, dropped>>

\* The second pass over one commit changes its words or speaker, or does not.
PostProcess ==
  /\ Working /\ stage = "post"
  /\ \E e \in commits :
       /\ \A f \in commits : e.segment_id <= f.segment_id
       /\ commits' = commits \ {e}
       /\ \/ UNCHANGED hand
          \/ hand' = {[e EXCEPT !.kind = "replace", !.revision = @ + 1]}
  /\ UNCHANGED <<storeVars, audio, completed, conn, outgoing, snapshot, stage,
                 position, input_end, window_start, index, revision, last_end,
                 unsent, clientVars, dropped>>

\* The terminal event, unless the session was cancelled meanwhile.
EndTranscript ==
  /\ Working /\ stage = "post" /\ commits = {}
  /\ stage' = "stopped"
  /\ IF conn = "closing"
     THEN UNCHANGED <<hand, completed>>
     ELSE /\ hand' = {[kind |-> "end", start |-> Later(last_end, input_end)]}
          /\ completed' = TRUE
  /\ UNCHANGED <<storeVars, audio, conn, outgoing, snapshot, position,
                 input_end, window_start, index, revision, last_end, commits,
                 unsent, clientVars, dropped>>

\* append_event: the event becomes a payload of the log.
AppendEvent ==
  /\ \E e \in hand :
       LET sent == [sequence |-> next_event_sequence,
                    acknowledged_sequence |-> audio - 1]
           payload ==
             [f \in DOMAIN e \cup DOMAIN sent |->
                IF f \in DOMAIN e THEN e[f] ELSE sent[f]]
       IN Retain(payload) /\ unsent' = {payload}
  /\ hand' = {}
  /\ UNCHANGED <<audio, completed, conn, outgoing, snapshot, workerVars, seen,
                 highest, dropped>>

Full == Len(outgoing) >= QueueSize

\* emit: a partial that meets a full queue is dropped, a durable event waits.
\* Once cancelled, nothing is queued any more.
QueueEvent ==
  /\ \E e \in unsent :
       \/ /\ conn # "closing" /\ ~Full
          /\ outgoing' = Append(outgoing, e) /\ UNCHANGED dropped
       \/ /\ conn # "closing" /\ Full /\ ~Durable(e)
          /\ dropped' = dropped \cup {e.sequence} /\ UNCHANGED outgoing
       \/ conn = "closing" /\ UNCHANGED <<outgoing, dropped>>
  /\ unsent' = {}
  /\ UNCHANGED <<storeVars, audio, completed, conn, snapshot, workerVars, hand,
                 clientVars>>

\* The backend, the event limit or the output timeout raises in the worker.
WorkerFails ==
  /\ stage # "stopped" \/ hand # {} \/ unsent # {}
  /\ stage' = "stopped" /\ hand' = {} /\ unsent' = {}
  /\ UNCHANGED <<storeVars, audio, completed, conn, outgoing, snapshot,
                 position, input_end, window_start, index, revision, last_end,
                 commits, clientVars, dropped>>

-----------------------------------------------------------------------------
(* The handler of one connection.                                          *)

\* Mutant: the acknowledgement is ignored.
ReadyRepeatsAll ==
  /\ conn = "starting"
  /\ highest >= first_retained_event_sequence - 1
  /\ snapshot' = {log[q] : q \in DOMAIN log}
  /\ conn' = "replaying"
  /\ UNCHANGED <<storeVars, audio, completed, outgoing, workerVars, hand,
                 unsent, clientVars, dropped>>

\* Mutant: off by one in what the client has acknowledged.
ReadySkipsNext ==
  /\ conn = "starting"
  /\ highest >= first_retained_event_sequence - 1
  /\ snapshot' = {log[q] : q \in {r \in DOMAIN log : r > highest + 1}}
  /\ conn' = "replaying"
  /\ UNCHANGED <<storeVars, audio, completed, outgoing, workerVars, hand,
                 unsent, clientVars, dropped>>

\* replay_after: the retained events after the acknowledgement.  The sender
\* task starts at the same point of the event loop.
Ready ==
  /\ conn = "starting"
  /\ highest >= first_retained_event_sequence - 1
  /\ snapshot' = {log[q] : q \in {r \in DOMAIN log : r > highest}}
  /\ conn' = "replaying"
  /\ UNCHANGED <<storeVars, audio, completed, outgoing, workerVars, hand,
                 unsent, clientVars, dropped>>

\* "acknowledged event is older than the retained recovery window"
ReplayRaises ==
  /\ conn = "starting"
  /\ highest < first_retained_event_sequence - 1
  /\ conn' = "closing"
  /\ outgoing' = << >>
  /\ UNCHANGED <<storeVars, audio, completed, snapshot, workerVars, hand,
                 unsent, clientVars, dropped>>

QueueReplay ==
  /\ conn = "replaying" /\ ~Full
  /\ \E e \in snapshot :
       /\ \A f \in snapshot : e.sequence <= f.sequence
       /\ outgoing' = Append(outgoing, e)
       /\ snapshot' = snapshot \ {e}
  /\ UNCHANGED <<storeVars, audio, completed, conn, workerVars, hand, unsent,
                 clientVars, dropped>>

ReplayDone ==
  /\ conn = "replaying" /\ snapshot = {}
  /\ conn' = "serving"
  /\ UNCHANGED <<storeVars, audio, completed, outgoing, snapshot, workerVars,
                 hand, unsent, clientVars, dropped>>

\* append_audio, after which the worker may take the chunk from incoming.
AcceptAudio ==
  /\ conn = "serving" /\ audio < MaxAudio
  /\ audio' = audio + 1
  /\ UNCHANGED <<storeVars, completed, conn, outgoing, snapshot, workerVars,
                 hand, unsent, clientVars, dropped>>

ClientEnds ==
  /\ conn = "serving"
  /\ conn' = "ending"
  /\ UNCHANGED <<storeVars, audio, completed, outgoing, snapshot, workerVars,
                 hand, unsent, clientVars, dropped>>

ClientCancels ==
  /\ conn = "serving"
  /\ completed' = TRUE
  /\ conn' = "closing"
  /\ outgoing' = << >>
  /\ UNCHANGED <<storeVars, audio, snapshot, workerVars, hand, unsent,
                 clientVars, dropped>>

\* The sender's send reaches the client: TCP keeps the order of the queue.  The
\* client's validator gives up where ClientFollowsProtocol says nothing more.
Deliver ==
  /\ conn \in {"replaying", "serving", "ending"} /\ outgoing # << >>
  /\ LET e == Head(outgoing) IN
     /\ seen' = IF early = {} THEN Logged!After(seen, e) ELSE seen
     /\ highest' = Later(highest, e.sequence)
     /\ missing' = missing \ {e.sequence}
  /\ outgoing' = Tail(outgoing)
  /\ UNCHANGED <<storeVars, audio, completed, conn, snapshot, workerVars, hand,
                 unsent, dropped>>

\* The connection ends, with what is still queued: the peer is gone, a timeout
\* fired, or the terminal event was sent.  The handler cancels the worker.
Disconnect ==
  /\ conn \notin {"down", "finalizing", "closing"}
  /\ conn' = "closing"
  /\ outgoing' = << >> /\ snapshot' = {}
  /\ UNCHANGED <<storeVars, audio, completed, workerVars, hand, unsent,
                 clientVars, dropped>>

\* The worker is gone and the session released: it may be resumed now.
Release ==
  /\ conn = "closing" /\ stage = "stopped" /\ hand = {} /\ unsent = {}
  /\ conn' = "down"
  /\ UNCHANGED <<storeVars, audio, completed, outgoing, snapshot, workerVars,
                 hand, unsent, clientVars, dropped>>

-----------------------------------------------------------------------------
(* open, for a resume: one turn of _finalize_open_partials after another,  *)
(* then a new worker.  The store lock makes it one step for the others.    *)

OpenPartials ==
  {q \in DOMAIN log :
     /\ log[q].kind = "partial"
     /\ \A r \in DOMAIN log :
          log[r].kind # "end" /\ log[r].segment_id = log[q].segment_id => r <= q}

Resume ==
  /\ conn = "down" /\ ~completed
  /\ conn' = "finalizing"
  /\ UNCHANGED <<storeVars, audio, completed, outgoing, snapshot, workerVars,
                 hand, unsent, clientVars, dropped>>

\* Mutant: the recovery commit keeps the revision of the partial.
FinalizePartialKeepsRevision ==
  /\ conn = "finalizing"
  /\ \E q \in OpenPartials :
       Retain([log[q] EXCEPT !.kind = "commit", !.sequence = next_event_sequence])
  /\ UNCHANGED <<audio, completed, conn, outgoing, snapshot, workerVars, hand,
                 unsent, seen, highest, dropped>>

FinalizePartial ==
  /\ conn = "finalizing"
  /\ \E q \in OpenPartials :
       Retain([log[q] EXCEPT !.kind = "commit", !.revision = @ + 1,
                             !.sequence = next_event_sequence])
  /\ UNCHANGED <<audio, completed, conn, outgoing, snapshot, workerVars, hand,
                 unsent, seen, highest, dropped>>

\* A new worker on the audio from boundary on.
StartWorkerFrom(boundary) ==
  /\ conn = "finalizing"
  /\ conn' = "starting"
  /\ stage' = "listening"
  /\ position' = boundary /\ window_start' = boundary
  /\ input_end' = 0 /\ last_end' = 0
  /\ index' = next_segment_index /\ revision' = 1
  /\ commits' = {}
  /\ UNCHANGED <<storeVars, audio, completed, outgoing, snapshot, hand, unsent,
                 clientVars, dropped>>

StartWorker == OpenPartials = {} /\ StartWorkerFrom(transcribed_through)

-----------------------------------------------------------------------------
Transcribe ==
  \/ Consume
  \/ FinishWindow
  \/ Break
  \/ PostProcess
  \/ EndTranscript

Worker == Transcribe \/ AppendEvent \/ QueueEvent \/ WorkerFails

Handler ==
  \/ Ready
  \/ ReplayRaises
  \/ QueueReplay
  \/ ReplayDone
  \/ AcceptAudio
  \/ ClientEnds
  \/ ClientCancels
  \/ Deliver
  \/ Disconnect
  \/ Release

Reopen == Resume \/ FinalizePartial \/ StartWorker

Next == Worker \/ Handler \/ Reopen

Spec == Init /\ [][Next]_vars
-----------------------------------------------------------------------------
\* A partial of an earlier connection that fell out of the log before the resume
\* that would have committed it: replaces of the cancelled worker followed it.
Orphaned ==
  \E s \in Indexes :
    /\ produced.states[s] = "partial"
    /\ \A q \in DOMAIN log : log[q].kind = "end" \/ log[q].segment_id # s

\* The validator may refuse the terminal event, when the final window of a
\* segment with partials was silent, or when a resumed worker was given no audio
\* and its clock stayed at zero.
EndIsRefused ==
  /\ LastLogged'.kind = "end"
  /\ Logged!AcceptsOrder(produced, LastLogged')
  /\ revision > 1 \/ input_end = 0 \/ Orphaned

\* It may refuse a recovery commit, which acknowledges no more audio than its
\* partial did, when replaces of the cancelled worker acknowledged more.
CommitIsRefused ==
  /\ conn = "finalizing"
  /\ LastLogged.kind = "replace" /\ LastLogged'.kind = "commit"
  /\ LastLogged'.sequence = next_event_sequence
  /\ Logged!AcceptsSegment(produced, LastLogged')

\* What the session logs obeys the protocol, over all its connections: event
\* and segment numbers go on, revisions grow, what is committed is replaced only,
\* partials are closed before the end, save in those cases.
LogFollowsProtocol ==
  /\ Logged!Init
  /\ [][\/ Logged!Accept
        \/ /\ EndIsRefused \/ CommitIsRefused
           /\ produced' = Logged!After(produced, LastLogged')
       ]_<<produced, LastLogged>>

\* The client can read an event: the numbers it misses are of partials that met
\* a full queue, and the event goes on from what it has, as it did in the log.
Skipped(e) ==
  IF seen.last_sequence = Logged!None THEN {}
  ELSE (seen.last_sequence + 1)..(e.sequence - 1)

Reads(e) ==
  /\ e.sequence > seen.last_sequence /\ Skipped(e) \subseteq dropped
  /\ e.sequence \in refused
       \/ Logged!Accepts([seen EXCEPT !.last_sequence = Logged!None], e)

\* What the client receives over all its connections obeys the protocol as far
\* as the log does, each event once and in order, with gaps for dropped partials
\* only, until a live event is retained before the replay is queued.
ClientFollowsProtocol ==
  [][Deliver => Reads(Head(outgoing)) \/ early # {}]_vars

\* A durable event is lost behind the client's acknowledgement, from where no
\* replay can bring it back, only if a live event overtook the replay ("never
\* silently dropped" says: never).
NoDurableLoss ==
  \A q \in missing : q > highest \/ \E e \in early : e > q

\* No audio is committed twice: a new commit starts at or after the boundary
\* up to which the log had committed, in whichever connection that was.
NoAudioCommittedTwice ==
  [][\A q \in DOMAIN log' \ DOMAIN log :
       log'[q].kind = "commit" => log'[q].start >= transcribed_through]_vars

-----------------------------------------------------------------------------
(* The inductive invariant of the log.                                     *)

EventsOf(s) == {q \in DOMAIN log : log[q].kind # "end" /\ log[q].segment_id = s}

\* What the validator of the log knows is what the session's counters say.
Accounted ==
  /\ produced.last_sequence = next_event_sequence - 1
  /\ produced.last_acknowledged_sequence <= audio - 1
  /\ produced.last_commit_start <= transcribed_through
  /\ produced.max_end <= audio
  /\ transcribed_through <= audio
  /\ next_segment_index <= next_event_sequence
  /\ \A s \in Indexes : s >= next_segment_index =>
       produced.states[s] = "new" /\ produced.revisions[s] = 0

\* The log ends with the latest event and has no hole.  The last event it has of
\* a segment is the segment's state; a segment without any may be an orphan.
LogInOrder ==
  /\ next_event_sequence > 0 => next_event_sequence - 1 \in DOMAIN log
  /\ \A q \in DOMAIN log :
       /\ log[q].sequence = q
       /\ q..(next_event_sequence - 1) \subseteq DOMAIN log
       /\ log[q].kind = "end" => produced.ended
       /\ log[q].kind # "end" =>
            /\ log[q].segment_id < next_segment_index
            /\ (\A r \in EventsOf(log[q].segment_id) : r <= q) =>
                 /\ produced.states[log[q].segment_id] = log[q].kind
                 /\ produced.revisions[log[q].segment_id] = log[q].revision
  /\ \A s \in Indexes : produced.states[s] = "partial" =>
       EventsOf(s) = {} \/ \E q \in OpenPartials : log[q].segment_id = s

\* An open partial is of the latest segment, only replaces of others and the end
\* may follow it, and it can be committed as it stands.
OpenIsLatest ==
  \A q \in OpenPartials :
    LET e == log[q] IN
    /\ e.segment_id + 1 = next_segment_index
    /\ e.revision > 0
    /\ transcribed_through <= e.start /\ e.start <= e.end /\ e.end <= audio
    /\ e.acknowledged_sequence <= audio - 1
    /\ q = next_event_sequence - 1 =>
         e.acknowledged_sequence \in
           {Logged!None, produced.last_acknowledged_sequence}
    /\ \A r \in DOMAIN log : r > q => log[r].kind \in {"replace", "end"}

\* Between two connections nobody works on the session, and one that has
\* ended is not opened again.
Rests ==
  /\ conn \in {"down", "finalizing"} =>
       stage = "stopped" /\ hand = {} /\ unsent = {}
  /\ conn = "finalizing" => ~completed
  /\ produced.ended => completed /\ stage = "stopped" /\ hand = {}
  /\ stage = "post" /\ conn # "closing" => conn = "ending" /\ position = audio

\* The next event of the segment an event would open or continue.
Continues(segment_id, number) ==
  \/ next_segment_index <= segment_id
  \/ /\ segment_id + 1 = next_segment_index
     /\ produced.states[segment_id] = "partial"
     /\ produced.revisions[segment_id] < number

\* What the worker will yield goes on from what the log has, and an open partial
\* is of its segment, or of the one it is committing.
WorkerFollows ==
  stage # "stopped" =>
    /\ (\A e \in hand : e.kind = "replace") =>
         Continues(index, revision) /\ index <= next_event_sequence
    /\ revision > 0
    /\ transcribed_through <= window_start /\ window_start <= position
    /\ position <= audio
    /\ input_end # 0 => input_end = position
    /\ \A q \in OpenPartials :
         \/ log[q].segment_id = index
         \/ \E e \in hand : e.kind = "commit" /\ log[q].segment_id = e.segment_id
    /\ \A e, f \in commits : e.segment_id = f.segment_id => e = f
    /\ \A e \in commits :
         /\ e.kind = "commit"
         /\ e.segment_id < index
         /\ e.start <= e.end /\ e.end <= window_start
         /\ e \notin hand =>
              /\ e.end <= transcribed_through
              /\ produced.states[e.segment_id] = "commit"
              /\ produced.revisions[e.segment_id] = e.revision

\* The event the worker has yielded is one the log's validator will accept, or
\* the end that it may refuse.
HandFits ==
  \A e \in hand :
    /\ hand = {e}
    /\ unsent = {}
    /\ e.kind = "end" =>
         /\ completed /\ stage = "stopped"
         /\ produced.max_end <= e.start \/ input_end = 0
         /\ OpenPartials = {} \/ revision > 1
    /\ e.kind # "end" =>
         /\ stage # "stopped" /\ e.segment_id <= next_event_sequence
         /\ e.start <= e.end /\ e.end <= position
    /\ e.kind \in {"partial", "commit"} =>
         /\ Continues(e.segment_id, e.revision) /\ e.revision > 0
         /\ transcribed_through <= e.start
    /\ e.kind = "partial" => index = e.segment_id /\ e.revision < revision
    /\ e.kind = "commit" =>
         index = e.segment_id + 1 /\ e.end <= window_start /\ e \in commits
    /\ e.kind = "replace" =>
         /\ stage = "post"
         /\ e.end <= transcribed_through
         /\ produced.states[e.segment_id] = "commit"
         /\ produced.revisions[e.segment_id] < e.revision
         /\ \A f \in commits : f.segment_id # e.segment_id

LogInv ==
  /\ TypeOK
  /\ Accounted /\ LogInOrder /\ OpenIsLatest
  /\ Rests /\ WorkerFollows /\ HandFits

-----------------------------------------------------------------------------
(* The inductive invariant of the delivery.                                *)

Connected == conn \in {"replaying", "serving", "ending"}

\* What is on its way to the client is of the log, and the event the worker is
\* queueing is its latest; it is early when the replay is not queued yet.
SentIsLogged ==
  /\ highest \in -1..(next_event_sequence - 1)
  /\ \A i \in DOMAIN outgoing : outgoing[i].sequence < next_event_sequence
  /\ \A e \in snapshot : e.sequence < next_event_sequence
  /\ \A e \in unsent :
       /\ unsent = {e} /\ e.sequence = next_event_sequence - 1
       /\ Durable(e) \/ e.sequence \notin missing
       /\ conn \in {"starting", "replaying"} => e.sequence \in early
  /\ conn # "replaying" => snapshot = {}
  /\ ~Connected /\ conn # "starting" => outgoing = << >>
  /\ missing \subseteq 0..(next_event_sequence - 1)
  /\ dropped \subseteq 0..(next_event_sequence - 1)

Pending(q) ==
  \/ \E i \in DOMAIN outgoing : outgoing[i].sequence = q
  \/ \E e \in snapshot \cup unsent : e.sequence = q

\* The worker failed between retaining an event and queueing it: nothing will
\* be queued after it on this connection.
LostWithWorker(q) ==
  /\ stage = "stopped" /\ hand = {} /\ unsent = {}
  /\ \A i \in DOMAIN outgoing : outgoing[i].sequence < q
  /\ \A e \in snapshot : e.sequence < q

\* A durable event the client lacks, and no early event is after, is still to
\* come, and before everything later than it.
Due(q) ==
  /\ highest < q
  /\ Connected => Pending(q) \/ LostWithWorker(q)
  /\ \A i \in DOMAIN outgoing : outgoing[i].sequence > q =>
       \E j \in 1..(i - 1) : outgoing[j].sequence = q

NothingSkipped == \A q \in missing : (\A e \in early : e <= q) => Due(q)

DeliveryInv == SentIsLogged /\ NothingSkipped

-----------------------------------------------------------------------------
(* The inductive invariant of the client's stream, without early events.   *)

\* The client's next events are the queue, then the replay, then the event the
\* worker is queueing, and between them only dropped partials are missing.
SentInOrder ==
  /\ highest = seen.last_sequence
  /\ conn = "starting" => outgoing = << >>
  /\ \A i \in DOMAIN outgoing : highest < outgoing[i].sequence
  /\ \A i, j \in DOMAIN outgoing :
       i < j => outgoing[i].sequence < outgoing[j].sequence
  /\ \A e \in snapshot \cup unsent :
       /\ highest < e.sequence
       /\ \A i \in DOMAIN outgoing : outgoing[i].sequence < e.sequence
  /\ Connected => \A q \in (highest + 1)..(next_event_sequence - 1) :
       Pending(q) \/ q \in dropped \/ LostWithWorker(q)

\* Validator v has read what w has, but for some partials.
Behind(v, w) ==
  /\ v.ended = w.ended
  /\ v.last_commit_start = w.last_commit_start
  /\ v.max_end <= w.max_end
  /\ v.last_acknowledged_sequence <= w.last_acknowledged_sequence
  /\ \A s \in Indexes :
       /\ \/ v.states[s] = w.states[s]
          \/ v.states[s] = "new" /\ w.states[s] = "partial"
       /\ v.revisions[s] <= w.revisions[s]

\* The events ever retained, and the validators that read them.
Chain(events, readers) ==
  /\ events \in [0..(next_event_sequence - 1) -> Event]
  /\ readers \in [0..next_event_sequence -> Logged!Validator]
  /\ readers[next_event_sequence] = produced
  /\ \A q \in 0..(next_event_sequence - 1) :
       /\ readers[q + 1] = Logged!After(readers[q], events[q])
       /\ \/ Logged!Accepts(readers[q], events[q])
          \/ q \in refused /\ Durable(events[q])
       /\ q \in dropped => ~Durable(events[q])
  /\ \A q \in DOMAIN log : log[q] = events[q]
  /\ \A p, q \in 0..next_event_sequence :
       (p <= q /\ p..(q - 1) \subseteq dropped) => Behind(readers[p], readers[q])

\* The client has read them as far as it acknowledges, and is sent the others.
Carried(events, readers) ==
  /\ Behind(seen, readers[highest + 1])
  /\ \A i \in DOMAIN outgoing : outgoing[i] = events[outgoing[i].sequence]
  /\ \A e \in snapshot \cup unsent : e = events[e.sequence]

StreamInv ==
  early = {} =>
    /\ SentInOrder
    /\ \E events, readers : Chain(events, readers) /\ Carried(events, readers)

=============================================================================
