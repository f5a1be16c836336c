-------------------------- MODULE SessionTransport --------------------------
(***************************************************************************)
(* The two bounded queues of one server session: `incoming`, by which the  *)
(* asyncio handler feeds audio to the worker thread, and `outgoing`, by    *)
(* which the worker feeds the sender task.                                 *)
(*                                                                         *)
(* Flow control pauses the client when incoming is nearly full; "end" and  *)
(* every failure put a sentinel into it.  An event waits for room in       *)
(* outgoing until a timeout; a sentinel tells the sender to stop.  The     *)
(* three threads of control interleave between queue operations.  Every    *)
(* timeout of the code may fire whenever the thing it bounds is not over.  *)
(***************************************************************************)
EXTENDS Integers, Sequences, FiniteSets

CONSTANTS
  MaxChunks,        \* bound: chunks the client sends in all
  MaxFrame,         \* most internal chunks in one client frame
  InputSize, HighWater, LowWater,   \* 128, 96 and 32 in the code
  OutputSize                        \* 128 in the code

ASSUME TransportAssumption ==
  /\ {MaxChunks, MaxFrame, InputSize, HighWater, LowWater, OutputSize}
       \subseteq Nat \ {0}
  /\ LowWater < HighWater /\ HighWater < InputSize

VARIABLES
  incoming, outgoing,
  cancel_event,
  paused,           \* flow_state["paused"]
  client_paused,    \* what the client was told last
  frame,            \* chunks of the current frame not yet accepted
  accepted,         \* chunks accepted into the recovery store
  handler,          \* where session_handler is
  taken,            \* the chunks chunks() has yielded
  emitting,         \* what the worker is trying to queue
  worker,           \* where the worker is
  produced,         \* events produced, the sequence number of the last one
  owed,             \* durable events produced and not received
  highest,          \* the highest sequence number the client received
  sender            \* whether the sender task is still running

inputVars == <<incoming, paused, client_paused, frame, accepted, taken>>
outputVars == <<outgoing, emitting, produced, owed, highest, sender>>
vars == <<inputVars, outputVars, cancel_event, handler, worker>>

Chunks == 1..MaxChunks
Stop == 0               \* the sentinel None of incoming

\* Items of outgoing, by kind; seq is 0 where it means nothing.
Item == [kind : {"partial", "durable", "resume", "error", "none"}, seq : Nat]
Message(kind) == [kind |-> kind, seq |-> 0]

HandlerPC == {"receiving", "pausing", "storing", "putting", "ended",
              "cancelled", "failed", "returned"}
WorkerPC == {"listening", "flushing", "stopping", "gone"}

TypeOK ==
  /\ incoming \in Seq(Chunks \cup {Stop}) /\ Len(incoming) <= InputSize
  /\ outgoing \in Seq(Item) /\ Len(outgoing) <= OutputSize
  /\ cancel_event \in BOOLEAN /\ sender \in BOOLEAN
  /\ paused \in BOOLEAN /\ client_paused \in BOOLEAN
  /\ frame \in 0..MaxFrame
  /\ accepted \in 0..MaxChunks
  /\ handler \in HandlerPC
  /\ taken \subseteq Chunks
  /\ emitting \in Seq(Item)
  /\ worker \in WorkerPC
  /\ produced \in Nat /\ highest \in Nat
  /\ owed \subseteq 1..produced

Init ==
  /\ incoming = << >> /\ outgoing = << >>
  /\ cancel_event = FALSE
  /\ paused = FALSE /\ client_paused = FALSE
  /\ frame = 0 /\ accepted = 0 /\ taken = {}
  /\ handler = "receiving" /\ worker = "listening"
  /\ emitting = << >> /\ produced = 0 /\ owed = {} /\ highest = 0
  /\ sender = TRUE

-----------------------------------------------------------------------------
(* The handler: the receive loop and enqueue.                              *)

InputFull == Len(incoming) >= InputSize

\* A binary frame: enqueue runs once for each internal chunk in it, the rest
\* that "end" flushes included.  The client honours flow control: frames that
\* were under way when it was told to pause count as one longer frame.
ReceiveFrame(n) ==
  /\ handler = "receiving" /\ frame = 0 /\ ~client_paused
  /\ accepted + n <= MaxChunks
  /\ frame' = n
  /\ UNCHANGED <<incoming, paused, client_paused, accepted, taken, outputVars,
                 cancel_event, handler, worker>>

\* enqueue first looks at the depth of the queue, without a lock.
StartEnqueue ==
  /\ handler = "receiving" /\ frame > 0
  /\ handler' = IF Len(incoming) >= HighWater /\ ~paused
                THEN "pausing" ELSE "storing"
  /\ UNCHANGED <<inputVars, outputVars, cancel_event, worker>>

PauseClient ==
  /\ handler = "pausing"
  /\ paused' = TRUE /\ client_paused' = TRUE
  /\ handler' = "storing"
  /\ UNCHANGED <<incoming, frame, accepted, taken, outputVars, cancel_event,
                 worker>>

\* append_audio: the chunk is accepted, and will be acknowledged.
StoreChunk ==
  /\ handler = "storing"
  /\ accepted' = accepted + 1
  /\ frame' = frame - 1
  /\ handler' = "putting"
  /\ UNCHANGED <<incoming, paused, client_paused, taken, outputVars,
                 cancel_event, worker>>

PutChunk ==
  /\ handler = "putting" /\ ~InputFull
  /\ incoming' = Append(incoming, accepted)
  /\ handler' = "receiving"
  /\ UNCHANGED <<paused, client_paused, frame, accepted, taken, outputVars,
                 cancel_event, worker>>

\* Mutant: the sentinel overtakes what is queued.
WithStopFirst ==
  <<Stop>> \o (IF InputFull THEN SubSeq(incoming, 1, Len(incoming) - 1)
               ELSE incoming)

\* stop_input: a full queue loses its oldest item to make room.
WithStop == Append(IF InputFull THEN Tail(incoming) ELSE incoming, Stop)

\* Mutant: "end" does not stop the input.
ReceiveEndOnly ==
  /\ handler = "receiving" /\ frame = 0
  /\ handler' = "ended"
  /\ UNCHANGED <<inputVars, outputVars, cancel_event, worker>>

\* "end": the input stops, and the handler waits for the sender.
ReceiveEnd ==
  /\ handler = "receiving" /\ frame = 0
  /\ incoming' = WithStop
  /\ handler' = "ended"
  /\ UNCHANGED <<paused, client_paused, frame, accepted, taken, outputVars,
                 cancel_event, worker>>

\* _force_sender_stop: items go, oldest first, until the sentinel fits.
ForcedStop ==
  Append(IF Len(outgoing) >= OutputSize THEN Tail(outgoing) ELSE outgoing,
         Message("none"))

ReceiveCancel ==
  /\ handler = "receiving" /\ frame = 0
  /\ cancel_event' = TRUE
  /\ incoming' = WithStop
  /\ outgoing' = ForcedStop
  /\ handler' = "cancelled"
  /\ UNCHANGED <<paused, client_paused, frame, accepted, taken, emitting,
                 produced, owed, highest, sender, worker>>

\* The peer is gone or idle or breaks a rule, the store is full, incoming
\* stayed full: cancel, stop the input, report the error.
HandlerFails ==
  /\ handler \in {"receiving", "pausing", "storing", "putting"}
  /\ cancel_event' = TRUE
  /\ incoming' = WithStop
  /\ handler' = "failed"
  /\ UNCHANGED <<paused, client_paused, frame, accepted, taken, outputVars,
                 worker>>

\* The wait for the sender ends with the connection or with the finalization
\* timeout, and then cancels the sender, too.
FinalizationFails ==
  /\ handler = "ended" /\ sender
  /\ cancel_event' = TRUE
  /\ incoming' = WithStop
  /\ sender' = FALSE
  /\ handler' = "failed"
  /\ UNCHANGED <<paused, client_paused, frame, accepted, taken, outgoing,
                 emitting, produced, owed, highest, worker>>

\* The finally block: cancel again, stop the input again, drop the sender.
HandlerReturns ==
  /\ \/ handler = "ended" /\ ~sender
     \/ handler \in {"cancelled", "failed"}
  /\ cancel_event' = TRUE
  /\ incoming' = WithStop
  /\ sender' = FALSE
  /\ handler' = "returned"
  /\ UNCHANGED <<paused, client_paused, frame, accepted, taken, outgoing,
                 emitting, produced, owed, highest, worker>>

-----------------------------------------------------------------------------
(* The worker: chunks(), the events it makes of them, emit.                *)

Ready == emitting = << >>

\* The event with the next number, durable or not; append_event retains it.
Produces(kinds) ==
  \E kind \in kinds :
    /\ produced' = produced + 1
    /\ owed' = IF kind = "durable" THEN owed \cup {produced + 1} ELSE owed
    /\ emitting' = Append(emitting, [kind |-> kind, seq |-> produced + 1])

\* Mutant: the client is told to go on at the low-water mark exactly.
TakeChunkExactly ==
  /\ worker = "listening" /\ Ready /\ ~cancel_event
  /\ incoming # << >> /\ Head(incoming) # Stop
  /\ incoming' = Tail(incoming)
  /\ taken' = taken \cup {Head(incoming)}
  /\ IF paused /\ Len(incoming') = LowWater
     THEN paused' = FALSE /\ emitting' = <<Message("resume")>>
     ELSE UNCHANGED <<paused, emitting>>
  /\ UNCHANGED <<client_paused, frame, accepted, outgoing, produced, owed,
                 highest, sender, cancel_event, handler, worker>>

\* incoming.get() returns a chunk.  The worker tells the client to go on when
\* the queue has become short, before it looks at the chunk.
TakeChunk ==
  /\ worker = "listening" /\ Ready /\ ~cancel_event
  /\ incoming # << >> /\ Head(incoming) # Stop
  /\ incoming' = Tail(incoming)
  /\ taken' = taken \cup {Head(incoming)}
  /\ IF paused /\ Len(incoming') <= LowWater
     THEN paused' = FALSE /\ emitting' = <<Message("resume")>>
     ELSE UNCHANGED <<paused, emitting>>
  /\ UNCHANGED <<client_paused, frame, accepted, outgoing, produced, owed,
                 highest, sender, cancel_event, handler, worker>>

\* A chunk taken may complete a window that has text.
MakeEvent ==
  /\ worker = "listening" /\ Ready
  /\ produced < Cardinality(taken)
  /\ Produces({"partial", "durable"})
  /\ UNCHANGED <<inputVars, outgoing, highest, sender, cancel_event, handler,
                 worker>>

\* The sentinel, or cancellation: the input is over.
InputEnds ==
  /\ worker = "listening" /\ Ready
  /\ incoming # << >>
  /\ Head(incoming) = Stop \/ cancel_event
  /\ incoming' = Tail(incoming)
  /\ worker' = "flushing"
  /\ UNCHANGED <<paused, client_paused, frame, accepted, taken, outputVars,
                 cancel_event, handler>>

\* The terminal event, unless cancelled, and then the sentinel.
EndTranscript ==
  /\ worker = "flushing" /\ Ready
  /\ IF cancel_event THEN UNCHANGED <<produced, owed, emitting>>
                     ELSE Produces({"durable"})
  /\ worker' = "stopping"
  /\ UNCHANGED <<inputVars, outgoing, highest, sender, cancel_event, handler>>

\* The backend or the event limit raises: the error is emitted.
WorkerFails ==
  /\ worker \in {"listening", "flushing"} /\ Ready
  /\ emitting' = <<Message("error")>>
  /\ worker' = "stopping"
  /\ UNCHANGED <<inputVars, outgoing, produced, owed, highest, sender,
                 cancel_event, handler>>

OutputFull == Len(outgoing) >= OutputSize

Emit ==
  /\ emitting # << >> /\ ~cancel_event /\ ~OutputFull
  /\ outgoing' = Append(outgoing, Head(emitting))
  /\ emitting' = Tail(emitting)
  /\ UNCHANGED <<inputVars, produced, owed, highest, sender, cancel_event,
                 handler, worker>>

\* Mutant: any event gives way to a full queue.
EmitDropsAny ==
  /\ emitting # << >>
  /\ cancel_event \/ OutputFull
  /\ emitting' = Tail(emitting)
  /\ UNCHANGED <<inputVars, outgoing, produced, owed, highest, sender,
                 cancel_event, handler, worker>>

\* A partial gives way to a full queue; nothing is queued once cancelled.
EmitDrops ==
  /\ emitting # << >>
  /\ cancel_event \/ (OutputFull /\ Head(emitting).kind = "partial")
  /\ emitting' = Tail(emitting)
  /\ UNCHANGED <<inputVars, outgoing, produced, owed, highest, sender,
                 cancel_event, handler, worker>>

\* _OutputBackpressureError fails the session; for the error itself it is
\* caught, and the worker goes on to its finally block.
EmitTimesOut ==
  /\ emitting # << >> /\ ~cancel_event /\ OutputFull
  /\ emitting' = IF Head(emitting).kind = "error" THEN << >>
                 ELSE <<Message("error")>>
  /\ worker' = "stopping"
  /\ UNCHANGED <<inputVars, outgoing, produced, owed, highest, sender,
                 cancel_event, handler>>

\* emit(None), the last thing the worker does.
StopSender ==
  /\ worker = "stopping" /\ Ready
  /\ \/ cancel_event /\ outgoing' = ForcedStop
     \/ /\ ~cancel_event /\ ~OutputFull
        /\ outgoing' = Append(outgoing, Message("none"))
  /\ worker' = "gone"
  /\ UNCHANGED <<inputVars, emitting, produced, owed, highest, sender,
                 cancel_event, handler>>

\* emit(None) times out: cancel_event, and the forced stop.
StopSenderTimesOut ==
  /\ worker = "stopping" /\ Ready /\ ~cancel_event /\ OutputFull
  /\ cancel_event' = TRUE
  /\ outgoing' = ForcedStop
  /\ worker' = "gone"
  /\ UNCHANGED <<inputVars, emitting, produced, owed, highest, sender, handler>>

-----------------------------------------------------------------------------
(* The sender task, and the client that reads what it sends.               *)

Send ==
  /\ sender /\ outgoing # << >>
  /\ LET item == Head(outgoing) IN
     /\ outgoing' = Tail(outgoing)
     /\ sender' = (item.kind # "none")
     /\ client_paused' = IF item.kind = "resume" THEN FALSE ELSE client_paused
     /\ highest' = IF item.seq > highest THEN item.seq ELSE highest
     /\ owed' = owed \ {item.seq}
  /\ UNCHANGED <<incoming, paused, frame, accepted, taken, emitting, produced,
                 cancel_event, handler, worker>>

-----------------------------------------------------------------------------
Handler ==
  \/ \E n \in 1..MaxFrame : ReceiveFrame(n)
  \/ StartEnqueue
  \/ PauseClient
  \/ StoreChunk
  \/ PutChunk
  \/ ReceiveEnd
  \/ ReceiveCancel
  \/ HandlerFails
  \/ FinalizationFails
  \/ HandlerReturns

WorkerRuns ==
  \/ TakeChunk
  \/ MakeEvent
  \/ InputEnds
  \/ EndTranscript
  \/ Emit
  \/ EmitDrops
  \/ EmitTimesOut
  \/ StopSender
  \/ StopSenderTimesOut

Worker == WorkerRuns \/ WorkerFails

Next == Handler \/ Worker \/ Send

(***************************************************************************)
(* Fairness.  The threads run, the backend returns, and a peer that is     *)
(* connected reads what is sent; timeouts are what the code has for peers  *)
(* that do not.  Nothing need fail, and a client need not send anything,   *)
(* nor end its session.                                                    *)
(***************************************************************************)
Fairness ==
  /\ WF_vars(WorkerRuns) /\ WF_vars(Send)
  /\ WF_vars(StartEnqueue \/ PauseClient \/ StoreChunk \/ PutChunk)
  /\ WF_vars(HandlerReturns)

Spec == Init /\ [][Next]_vars
FairSpec == Spec /\ Fairness
-----------------------------------------------------------------------------
\* When the worker sees the end of the input it has had every accepted chunk,
\* unless the session was cancelled (its audio is then replayed when it is
\* resumed).  The session is to fail "instead of silently dropping PCM"; yet when
\* "end" finds the queue full, its sentinel takes the place of the oldest chunk.
NoAudioDropped ==
  worker = "flushing" /\ ~cancel_event => taken = 1..accepted

\* What does hold: all the worker may have missed is one chunk, and only the
\* one that headed a full queue when "end" came, InputSize from the last.
Displaced == accepted + 1 - InputSize
OnlyDisplacedIsDropped ==
  worker = "flushing" /\ ~cancel_event =>
    /\ taken \subseteq 1..accepted
    /\ (1..accepted) \ taken \subseteq {Displaced}

\* "commit, replace and end are never silently dropped": a client that has an
\* event has every durable event before it, so to acknowledge it is safe; until
\* the session is cancelled, no timeout of the output, and no failure of the
\* worker, opens a gap.
NoGapWhileRunning == ~cancel_event => \A n \in owed : n > highest

\* A paused client is told to go on, or its session is over: the resumption is
\* not lost between the two threads that read the queue's depth and the flag.
PausedClientResumes ==
  client_paused ~> \/ ~client_paused
                   \/ worker = "gone"
                   \/ handler \in {"ended", "cancelled", "failed", "returned"}

\* Nobody waits for ever on anybody: after "end" the handler returns: what it
\* waits for, the worker and the sender, ends or is timed out.
EndReturns == handler = "ended" ~> handler = "returned"

-----------------------------------------------------------------------------
(* The inductive invariants, one for each queue                            *)

\* The rest of the frame fits: the chunk that is stored is one of Chunks.
FrameFits ==
  /\ accepted + frame <= MaxChunks
  /\ handler \in {"pausing", "storing"} => frame > 0
  /\ handler = "putting" => accepted > 0

\* One event at a time waits to be queued, the last one produced.
EmittingIsLast ==
  /\ Len(emitting) <= 1
  /\ emitting # << >> =>
       /\ emitting[1].seq \in {0, produced}
       /\ emitting[1].kind = "partial" => emitting[1].seq \notin owed
  /\ \A i \in 1..Len(outgoing) : outgoing[i].seq <= produced
  /\ highest <= produced

\* A durable event is in outgoing or next for it, or it was given up, and then
\* the worker is on its way out and no event comes after it.
OnItsWay ==
  ~cancel_event =>
    \A n \in owed :
      \/ \E i \in 1..Len(outgoing) : outgoing[i].seq = n
      \/ emitting # << >> /\ emitting[1].seq = n
      \/ /\ worker \in {"stopping", "gone"}
         /\ emitting # << >> => emitting[1].seq = 0

\* Neither in outgoing nor at the client is there an event that passed it.
NothingOvertakes ==
  ~cancel_event =>
    \A n \in owed :
      /\ n > highest
      /\ \A i \in 1..Len(outgoing) :
           outgoing[i].seq > n => \E j \in 1..(i - 1) : outgoing[j].seq = n

OutputInv ==
  /\ TypeOK
  /\ FrameFits
  /\ EmittingIsLast
  /\ OnItsWay
  /\ NothingOvertakes

\* The last chunk put into incoming, and how many are waiting there.
LastPut == IF handler = "putting" THEN accepted - 1 ELSE accepted
Waiting == IF handler = "ended" THEN Len(incoming) - 1 ELSE Len(incoming)

\* The worker has had a prefix of the audio and the queue continues it, up to
\* the sentinel if the client has sent "end", which may have cost one chunk.
InputInOrder ==
  ~cancel_event /\ worker = "listening" =>
    /\ 0 <= Waiting /\ Waiting <= LastPut
    /\ taken \subseteq 1..(LastPut - Waiting)
    /\ (1..(LastPut - Waiting)) \ taken
         \subseteq (IF handler = "ended" THEN {Displaced} ELSE {})
    /\ \A i \in 1..Waiting : incoming[i] = LastPut - Waiting + i
    /\ handler = "ended" => incoming[Len(incoming)] = Stop

\* Whoever ends the session otherwise sets cancel_event first.
EndedOrRunning ==
  ~cancel_event =>
    handler \in {"receiving", "pausing", "storing", "putting", "ended"}

\* Only the sentinel of "end" makes the worker flush.
EndedBeforeFlush ==
  worker = "flushing" /\ ~cancel_event => handler = "ended"

InputInv ==
  /\ TypeOK
  /\ FrameFits
  /\ EndedOrRunning
  /\ InputInOrder
  /\ OnlyDisplacedIsDropped
  /\ EndedBeforeFlush

=============================================================================
