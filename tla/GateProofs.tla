----------------------------- MODULE GateProofs -----------------------------
(***************************************************************************)
(* What the verdicts of the two gates are evidence of.                     *)
(*                                                                         *)
(* Of RecoveryProbe: for any audio, frames, chunks, limits and faults, a   *)
(* passed result of the WebSocket gate's client means that nothing of the  *)
(* session was lost, and a failed one has a cause.                         *)
(*                                                                         *)
(* Then, of ProductionGate: for every host, every clock and any number of  *)
(* disturbances, a passing gate is about a release that was live as a      *)
(* whole, with every part the verdict names.                               *)
(***************************************************************************)
EXTENDS RecoveryProbe, ProductionGate, TLAPS

-----------------------------------------------------------------------------
(* Strengthenings, first those that hold whatever goes wrong.              *)

Replies == {"ready", "conflict"}
FromServer == {"ready", "error", "conflict", "audio_ack", "pause", "resume"} \cup EventTypes
Talking == {"sending", "permitted", "waiting", "ending"}
Arriving == {"starting", "resuming"}

\* Where the coroutine is, by what it runs.
ClientShape ==
  /\ client.stage = "done" <=> client.outcome # "none"
  /\ client.kind = "session" =>
       client.leg = 1 /\ client.stage \in {"starting", "sending", "permitted", "ending", "done"}
  /\ client.kind = "probe" => client.stage # "permitted" /\ client.receiver = "running"
  /\ client.leg = 2 => client.first_ack \in Nat
  /\ client.stage \in {"retrying", "resuming"} => client.leg = 2
  /\ client.stage = "starting" => client.leg = 1 /\ client.sent = 0
  /\ client.stage = "permitted" => client.sent < total_samples
  /\ client.stage = "ending" =>
       client.sent = total_samples /\ (client.kind = "probe" => client.leg = 2)
  /\ client.receiver = "done" => client.ended
  /\ client.outcome = "passed" => client.ended

\* A connection the gate has closed is closed for both.
Gone ==
  client.stage \in {"done", "retrying"} =>
    ~connected /\ to_server = << >> /\ to_client = << >> /\ ~handler.attached

\* What is on its way to the server.  A request comes first and alone, before
\* there is an answer; audio only once the session is served, and nothing
\* after "end".
ToServer ==
  /\ to_server # << >> => connected
  /\ \A i \in 1..Len(to_server) :
       LET m == to_server[i] IN
       /\ m.type \in {"start", "continue", "frame", "end"}
       /\ m.type = "start" =>
            /\ Len(to_server) = 1 /\ client.stage = "starting"
            /\ handler.at = "idle"
            /\ Len(to_client) = 0
       /\ m.type = "continue" =>
            /\ Len(to_server) = 1 /\ client.stage = "resuming" /\ ~handler.attached
            /\ Len(to_client) = 0 /\ m.value = client.last_sequence
       /\ m.type \in {"frame", "end"} =>
            /\ client.stage \in Talking
            /\ handler.attached /\ handler.at \in {"replaying", "serving"}
       /\ m.type = "frame" => m.value \in Nat \ {0}
       /\ m.type = "end" => i = Len(to_server) /\ client.stage = "ending"

\* What is on its way to the gate, of which the answer to a request comes first.
Only(q, types) == \A i \in 1..Len(q) : q[i].type \in types
ToClient ==
  /\ Only(to_client, FromServer)
  /\ Only(outgoing, {"resume"} \cup EventTypes)
  /\ Only(handler.replay, EventTypes)
AnswerFirst ==
  \A i \in 1..Len(to_client) :
    to_client[i].type \in Replies => i = 1 /\ client.stage \in Arriving

\* Whom the handler serves.
Attached ==
  /\ handler.at = "idle" => ~handler.attached
  /\ handler.at = "closing" => ~connected \/ ~handler.attached
  /\ handler.attached /\ handler.at # "closing" => connected
  /\ client.stage \in Talking =>
       /\ connected => handler.attached
       /\ handler.attached => handler.at # "starting"
  /\ client.stage \in {"sending", "permitted", "waiting"} /\ handler.attached =>
       handler.at \in {"replaying", "serving"}
  /\ handler.at \in {"finishing", "ended"} =>
       client.stage \in {"ending", "done"} /\ to_server = << >>

\* A request that has been accepted is answered before anything else is sent.
Answered ==
  /\ client.stage \in Arriving /\ handler.attached =>
       /\ Len(to_server) = 0
       /\ \/ handler.at = "starting" /\ Len(to_client) = 0
          \/ /\ handler.at \in {"replaying", "serving"}
             /\ Len(to_client) > 0 /\ to_client[1].type = "ready"
  /\ connected /\ Len(to_client) > 0 => handler.attached

Wired ==
  TypeOK /\ ClientShape /\ Gone /\ ToServer /\ ToClient /\ AnswerFirst /\ Attached
  /\ Answered


ClientType ==
  [kind : {"session", "probe"}, frame : frame_samples,
   stage : Stages, leg : {1, 2}, sent : 0..total_samples, allowed : BOOLEAN,
   last_ack : Nat \cup {None}, buffered : Nat \cup {None},
   first_ack : Nat \cup {None},
   last_sequence : Nat \cup {None}, ended : BOOLEAN,
   receiver : {"running", "failed", "done"},
   outcome : {"none", "passed", "failed"}]
HandlerType ==
  [at : {"idle", "starting", "replaying", "serving", "finishing", "ended", "closing"},
   attached : BOOLEAN, buffer : Nat, paused : BOOLEAN,
   acknowledged : Nat \cup {None}, replay : Seq(Message), taken : Nat, base : Nat]
SessionType ==
  [known : BOOLEAN, chunks : Nat, stored : Nat, boundary : Nat, log : Seq(EventTypes)]

LEMMA Types ==
  TypeOK => client \in ClientType /\ handler \in HandlerType /\ session \in SessionType
            /\ connected \in BOOLEAN /\ to_server \in Seq(Message)
            /\ to_client \in Seq(Message) /\ outgoing \in Seq(Message)
            /\ faults \in 0..MaxFaults /\ excuse \in Excuses
  BY DEF TypeOK, ClientType, HandlerType, SessionType

LEMMA Numbers ==
  /\ total_samples \in Nat \ {0} /\ internal_size \in Nat \ {0}
  /\ \A f \in frame_samples : f \in Nat \ {0}
  /\ High \in Nat /\ Low \in Nat /\ QueueSize \in Nat \ {0} /\ MaxEvents \in Nat
  /\ MaxFaults \in Nat
  BY ProbeAssumption

-----------------------------------------------------------------------------
(* Queues, element by element.                                             *)

\* r is q without its head; r is q with m behind it.
Dropped(q, r) ==
  /\ Len(q) \in Nat \ {0} /\ Len(r) = Len(q) - 1
  /\ \A i \in 1..Len(r) : r[i] = q[i + 1]
Added(q, r, m) ==
  /\ Len(q) \in Nat /\ Len(r) = Len(q) + 1
  /\ r[Len(q) + 1] = m /\ \A i \in 1..Len(q) : r[i] = q[i]

LEMMA Elements ==
  ASSUME NEW M, NEW q \in Seq(M)
  PROVE  /\ Len(q) \in Nat /\ (q = << >> <=> Len(q) = 0)
         /\ \A i \in 1..Len(q) : q[i] \in M
  OBVIOUS

LEMMA TailDrops ==
  ASSUME NEW M, NEW q \in Seq(M), q # << >>
  PROVE  Tail(q) \in Seq(M) /\ Dropped(q, Tail(q)) /\ Head(q) = q[1] /\ q[1] \in M
  BY DEF Dropped

LEMMA AppendAdds ==
  ASSUME NEW M, NEW q \in Seq(M), NEW m \in M
  PROVE  Append(q, m) \in Seq(M) /\ Added(q, Append(q, m), m)
  BY DEF Added

LEMMA OneMore ==
  ASSUME NEW M, NEW q \in Seq(M), NEW m \in M
  PROVE  q \o <<m>> = Append(q, m) /\ q \o << >> \o <<m>> = Append(q, m)
         /\ q \o << >> = q /\ q \o << >> \o << >> = q
  OBVIOUS

LEMMA TwoMore ==
  ASSUME NEW M, NEW q \in Seq(M), NEW m \in M, NEW n \in M
  PROVE  q \o <<m>> \o <<n>> = Append(Append(q, m), n)
         /\ q \o <<m>> \o << >> = Append(q, m)
  OBVIOUS

LEMMA EmptyQueue == Len(<< >>) = 0 /\ \A M : << >> \in Seq(M)
  OBVIOUS

LEMMA OnlyKept ==
  ASSUME NEW types, NEW q, NEW r, Only(q, types)
  PROVE  /\ Dropped(q, r) => Only(r, types) /\ q[1].type \in types
         /\ \A m : Added(q, r, m) /\ m.type \in types => Only(r, types)
  BY DEF Dropped, Added, Only

LEMMA OnlyEmpty == \A types : Only(<< >>, types)
  BY EmptyQueue DEF Only

LEMMA Messages ==
  /\ \A type \in {"start", "continue", "frame", "end", "ready", "error", "conflict",
                  "audio_ack", "pause", "resume", "partial", "commit", "final"},
        value \in Nat \cup {None} :
       Msg(type, value) \in Message /\ Msg(type, value).type = type
       /\ Msg(type, value).value = value /\ Msg(type, value).buffered = 0
  /\ \A value \in Nat \cup {None}, buffered \in Nat :
       Ack(value, buffered) \in Message /\ Ack(value, buffered).type = "audio_ack"
       /\ Ack(value, buffered).value = value
       /\ Ack(value, buffered).buffered = buffered
  BY DEF Message, Msg, Ack

LEMMA Chunks ==
  ASSUME NEW a \in Nat, NEW b \in Nat \ {0}
  PROVE  /\ a \div b \in Nat /\ a % b \in Nat
         /\ a = (a \div b) * b + (a % b)
<1>1. a \div b \in Nat
  OBVIOUS
<1>2. a % b \in Nat
  OBVIOUS
<1>3. a = (a \div b) * b + (a % b)
  BY SMT
<1>4. QED
  BY <1>1, <1>2, <1>3

LEMMA Products ==
  ASSUME NEW a \in Nat, NEW b \in Nat \ {0}
  PROVE  a * b \in Nat /\ (a * b = 0 <=> a = 0)
  BY SMT

-----------------------------------------------------------------------------
(* What the steps do.                                                      *)

LEMMA ConsumeEffect ==
  ASSUME Wired, Consume
  PROVE  LET m == to_client[1]
             ack == m.type = "audio_ack"
             event == m.type \in EventTypes
         IN
         /\ client' \in ClientType /\ to_client' \in Seq(Message)
         /\ Dropped(to_client, to_client') /\ m \in Message
         /\ ack \/ event \/ m.type \in {"pause", "resume"}
         /\ ack => m.value = None \/ client.last_ack <= m.value
         /\ event => /\ ~client.ended
                     /\ client.last_sequence = None \/ m.value = client.last_sequence + 1
         /\ client.stage \in Talking /\ client.outcome = "none" 
         /\ client'.kind = client.kind /\ client'.leg = client.leg
         /\ client'.sent = client.sent
         /\ client'.first_ack = client.first_ack /\ client'.outcome = client.outcome
         /\ client'.frame = client.frame
         /\ client'.stage = IF ack /\ client.stage = "waiting" THEN "sending" ELSE client.stage
         /\ client'.last_ack = IF ack /\ m.value # None THEN m.value ELSE client.last_ack
         /\ client'.buffered = IF ack THEN m.buffered ELSE client.buffered
         /\ client'.last_sequence = IF event THEN m.value ELSE client.last_sequence
         /\ client'.ended = IF event THEN m.type = "final" ELSE client.ended
         /\ client'.receiver = IF client.kind = "session" /\ client'.ended THEN "done"
                               ELSE client.receiver
         /\ UNCHANGED <<connected, to_server, handler, outgoing, session, faults, excuse>>
<1> DEFINE m == to_client[1]
           next == Consumed(m)
<1>1. /\ client \in ClientType /\ to_client \in Seq(Message) /\ to_client # << >>
      /\ client.outcome = "none" /\ Reading /\ ~Rejected(m)
      /\ client' = [next EXCEPT !.receiver = IF next.kind = "session" /\ next.ended
                                             THEN "done" ELSE @]
      /\ to_client' = Tail(to_client)
      /\ UNCHANGED <<connected, to_server, handler, outgoing, session, faults, excuse>>
  <2>1. to_client \in Seq(Message) /\ to_client # << >> /\ client \in ClientType
    BY Types DEF Wired, Consume
  <2>2. Head(to_client) = m
    BY <2>1, TailDrops
  <2>3. QED
    BY <2>1, <2>2 DEF Consume, Raises, serverVars
<1>2. Dropped(to_client, to_client') /\ to_client' \in Seq(Message) /\ m \in Message
  BY <1>1, TailDrops
<1>3. client.stage \in Talking
  BY <1>1 DEF Wired, ClientShape, Reading, Talking, ClientType, Stages
<1>4. m.type \in FromServer \ Replies /\ m.type # "error"
  <2>1. 1 \in 1..Len(to_client)
    BY <1>2 DEF Dropped
  <2>2. QED
    BY <1>1, <1>3, <2>1
       DEF Wired, ToClient, Only, AnswerFirst, Rejected, Talking, Arriving
<1>5. /\ m.type \in {"audio_ack", "pause", "resume"} \cup EventTypes
      /\ m.value \in Nat \cup {None} /\ m.buffered \in Nat
  BY <1>2, <1>4 DEF FromServer, Replies, Message
<1>6. /\ m.type = "audio_ack" => m.value = None \/ client.last_ack <= m.value
      /\ m.type \in EventTypes =>
           ~client.ended /\ (client.last_sequence = None \/ m.value = client.last_sequence + 1)
  <2>1. client.last_ack \in Int
    BY <1>1 DEF ClientType, None
  <2>2. QED
    BY <1>1, <1>5, <2>1 DEF Rejected, None
<1> HIDE DEF m
<1>7. CASE m.type = "audio_ack"
  <2>1. m.type \notin EventTypes
    BY <1>7 DEF EventTypes
  <2>2. next = [client EXCEPT !.buffered = m.buffered,
                   !.last_ack = IF m.value = None THEN @ ELSE m.value,
                   !.stage = IF @ = "waiting" THEN "sending" ELSE @]
    BY <1>7 DEF Consumed, EventTypes
  <2>3. client' = [client EXCEPT !.buffered = m.buffered,
                      !.last_ack = IF m.value = None THEN @ ELSE m.value,
                      !.stage = IF @ = "waiting" THEN "sending" ELSE @,
                      !.receiver = IF client.kind = "session" /\ client.ended
                                   THEN "done" ELSE @]
    BY <1>1, <2>2 DEF ClientType
  <2>4. client' \in ClientType
    BY <1>1, <1>5, <2>3, ZenonT(30) DEF ClientType, Stages
  <2>5. QED
    BY <1>1, <1>2, <1>3, <1>6, <1>7, <2>1, <2>3, <2>4 DEF ClientType, m
<1>8. CASE m.type \in {"pause", "resume"}
  <2>1. m.type \notin EventTypes /\ m.type # "audio_ack"
    BY <1>8 DEF EventTypes
  <2>2. PICK allowed \in BOOLEAN : next = [client EXCEPT !.allowed = allowed]
    <3>1. CASE m.type = "pause"
      BY <3>1 DEF Consumed, EventTypes
    <3>2. CASE m.type = "resume"
      BY <3>2 DEF Consumed, EventTypes
    <3>3. QED
      BY <1>8, <3>1, <3>2
  <2>3. client' = [client EXCEPT !.allowed = allowed,
                      !.receiver = IF client.kind = "session" /\ client.ended
                                   THEN "done" ELSE @]
    BY <1>1, <2>2 DEF ClientType
  <2>4. client' \in ClientType
    BY <1>1, <2>3 DEF ClientType
  <2>5. QED
    BY <1>1, <1>2, <1>3, <1>8, <2>1, <2>3, <2>4 DEF ClientType, m
<1>9. CASE m.type \in EventTypes
  <2>1. m.type # "audio_ack"
    BY <1>9 DEF EventTypes
  <2>2. next = [client EXCEPT !.last_sequence = m.value, !.ended = (m.type = "final")]
    BY <1>9 DEF Consumed, EventTypes
  <2>3. client' = [client EXCEPT !.last_sequence = m.value, !.ended = (m.type = "final"),
                      !.receiver = IF client.kind = "session" /\ m.type = "final"
                                   THEN "done" ELSE @]
    BY <1>1, <2>2 DEF ClientType
  <2>4. client' \in ClientType
    BY <1>1, <1>5, <2>3 DEF ClientType
  <2>5. QED
    BY <1>1, <1>2, <1>3, <1>6, <1>9, <2>1, <2>3, <2>4 DEF ClientType, m
<1>10. QED
  BY <1>5, <1>7, <1>8, <1>9

\* What reading a message leaves of the client.
SameBut(c, d) ==
  /\ d.kind = c.kind /\ d.leg = c.leg /\ d.sent = c.sent
  /\ d.first_ack = c.first_ack /\ d.outcome = c.outcome /\ d.frame = c.frame

LEMMA ReceiveReadyEffect ==
  ASSUME Wired, ReceiveReady
  PROVE  /\ client.stage \in Arriving
         /\ to_client' \in Seq(Message) /\ Dropped(to_client, to_client')
         /\ to_client[1] \in Message /\ to_client[1].type = "ready"
         /\ client.leg = 1 \/ to_client[1].value = client.first_ack + 1
         /\ client' \in ClientType
         /\ client'.stage = "sending" /\ SameBut(client, client')
         /\ client'.last_ack = client.last_ack /\ client'.buffered = client.buffered
         /\ client'.last_sequence = client.last_sequence
         /\ client'.ended = client.ended
         /\ client'.receiver = client.receiver
         /\ UNCHANGED <<connected, to_server, handler, outgoing, session, faults, excuse>>
<1>1. client \in ClientType /\ to_client \in Seq(Message)
  BY Types DEF Wired
<1>2. to_client # << >> /\ to_client' = Tail(to_client)
  BY DEF ReceiveReady
<1>3. /\ Tail(to_client) \in Seq(Message) /\ Dropped(to_client, Tail(to_client))
      /\ Head(to_client) = to_client[1] /\ to_client[1] \in Message
  BY <1>1, <1>2, TailDrops
<1>4. client' = [client EXCEPT !.stage = "sending", !.allowed = TRUE]
  BY DEF ReceiveReady
<1>5. client' \in ClientType
  BY <1>1, <1>4 DEF ClientType, Stages
<1>6. /\ client'.stage = "sending" /\ SameBut(client, client')
      /\ client'.last_ack = client.last_ack /\ client'.buffered = client.buffered
      /\ client'.last_sequence = client.last_sequence
      /\ client'.ended = client.ended
      /\ client'.receiver = client.receiver
  BY <1>1, <1>4 DEF ClientType, SameBut
<1>7. QED
  BY <1>2, <1>3, <1>5, <1>6 DEF ReceiveReady, ReadyFits, Arriving, serverVars

\* What a frame sent changes; the client is at the given stage then.
FrameSent(stage) ==
  \E samples \in Nat \ {0} :
    /\ client.sent + samples <= total_samples
    /\ samples <= client.frame
    /\ client' = [client EXCEPT !.stage = stage, !.sent = @ + samples]
    /\ Added(to_server, to_server', Msg("frame", samples))
    /\ Msg("frame", samples) \in Message /\ Msg("frame", samples).type = "frame"
    /\ Msg("frame", samples).value = samples

LEMMA FrameEffect ==
  ASSUME TypeOK, client.sent < total_samples, NEW stage \in Stages,
         LET samples == Shorter(client.frame, total_samples - client.sent)
         IN /\ to_server' = Append(to_server, Msg("frame", samples))
            /\ client' = [client EXCEPT !.stage = stage, !.sent = @ + samples]
  PROVE  FrameSent(stage) /\ client' \in ClientType /\ to_server' \in Seq(Message)
<1> DEFINE samples == Shorter(client.frame, total_samples - client.sent)
<1>1. client \in ClientType /\ to_server \in Seq(Message)
  BY Types
<1>2. /\ client.sent \in 0..total_samples /\ client.frame \in Nat \ {0}
      /\ total_samples \in Nat
  BY <1>1, Numbers DEF ClientType
<1>3. /\ samples \in Nat \ {0} /\ client.sent + samples <= total_samples
      /\ samples <= client.frame
  BY <1>2 DEF Shorter
<1>4. /\ to_server' = Append(to_server, Msg("frame", samples))
      /\ client' = [client EXCEPT !.stage = stage, !.sent = @ + samples]
  OBVIOUS
<1> HIDE DEF samples
<1>5. Msg("frame", samples) \in Message /\ Msg("frame", samples).type = "frame"
      /\ Msg("frame", samples).value = samples
  BY <1>3, Messages
<1>6. Added(to_server, to_server', Msg("frame", samples)) /\ to_server' \in Seq(Message)
  BY <1>1, <1>4, <1>5, AppendAdds
<1>7. client.sent + samples \in 0..total_samples
  BY <1>2, <1>3
<1>8. client' \in ClientType
  BY <1>1, <1>4, <1>7 DEF ClientType
<1>9. QED
  BY <1>3, <1>4, <1>5, <1>6, <1>8 DEF FrameSent

LEMMA SendBlockEffect ==
  ASSUME Wired, SendBlock, connected
  PROVE  /\ client.kind = "session" /\ client.stage = "permitted" /\ client.allowed
         /\ FrameSent("sending") /\ client' \in ClientType
         /\ to_server' \in Seq(Message)
         /\ UNCHANGED <<connected, to_client, handler, outgoing, session, faults, excuse>>
<1>1. TypeOK /\ client.sent < total_samples
  BY DEF Wired, ClientShape, SendBlock
<1>2. /\ to_server' = Append(to_server,
            Msg("frame", Shorter(client.frame, total_samples - client.sent)))
      /\ client' = [client EXCEPT !.stage = "sending",
            !.sent = @ + Shorter(client.frame, total_samples - client.sent)]
  BY DEF SendBlock
<1>3. "sending" \in Stages
  BY DEF Stages
<1>4. FrameSent("sending") /\ client' \in ClientType /\ to_server' \in Seq(Message)
  BY <1>1, <1>2, <1>3, FrameEffect
<1>5. QED
  BY <1>4 DEF SendBlock, serverVars

LEMMA SendFrameEffect ==
  ASSUME Wired, SendFrame, connected
  PROVE  /\ client.kind = "probe" /\ client.stage = "sending" /\ client.allowed
         /\ NeedsMore /\ client.sent < total_samples
         /\ client.leg = 1 => total_samples - client.sent > client.frame
         /\ FrameSent("waiting") /\ client' \in ClientType
         /\ to_server' \in Seq(Message)
         /\ UNCHANGED <<connected, to_client, handler, outgoing, session, faults, excuse>>
<1>1. TypeOK /\ client \in ClientType
  BY Types DEF Wired
<1>2. client.sent < total_samples
  BY <1>1, Numbers DEF SendFrame, NeedsMore, ClientType
<1>3. /\ to_server' = Append(to_server,
            Msg("frame", Shorter(client.frame, total_samples - client.sent)))
      /\ client' = [client EXCEPT !.stage = "waiting",
            !.sent = @ + Shorter(client.frame, total_samples - client.sent)]
  BY DEF SendFrame
<1>4. "waiting" \in Stages
  BY DEF Stages
<1>5. FrameSent("waiting") /\ client' \in ClientType /\ to_server' \in Seq(Message)
  BY <1>1, <1>2, <1>3, <1>4, FrameEffect
<1>6. QED
  BY <1>2, <1>5 DEF SendFrame, serverVars

LEMMA SendEndEffect ==
  ASSUME Wired, SendEnd, connected
  PROVE  /\ client.stage = "sending" /\ client.sent = total_samples
         /\ client.kind = "probe" => client.leg = 2
         /\ client' = [client EXCEPT !.stage = "ending"] /\ client' \in ClientType
         /\ to_server' \in Seq(Message)
         /\ Added(to_server, to_server', Msg("end", None))
         /\ Msg("end", None) \in Message /\ Msg("end", None).type = "end"
         /\ UNCHANGED <<connected, to_client, handler, outgoing, session, faults, excuse>>
<1>1. client \in ClientType /\ to_server \in Seq(Message)
  BY Types DEF Wired
<1>2. Msg("end", None) \in Message /\ Msg("end", None).type = "end"
  BY DEF Msg, Message
<1>3. to_server' = Append(to_server, Msg("end", None))
      /\ client' = [client EXCEPT !.stage = "ending"]
  BY DEF SendEnd
<1>4. client' \in ClientType
  BY <1>1, <1>3 DEF ClientType, Stages
<1>5. Added(to_server, to_server', Msg("end", None)) /\ to_server' \in Seq(Message)
  BY <1>1, <1>2, <1>3, AppendAdds
<1>6. QED
  BY <1>2, <1>3, <1>4, <1>5 DEF SendEnd, serverVars

LEMMA AskResumeEffect ==
  ASSUME Wired, AskResume
  PROVE  /\ client.stage = "retrying"
         /\ client' = [client EXCEPT !.stage = "resuming"] /\ client' \in ClientType
         /\ connected' = TRUE
         /\ to_server' \in Seq(Message) /\ Len(to_server') = 1
         /\ to_server'[1].type = "continue"
         /\ to_server'[1].value = client.last_sequence
         /\ to_client' = << >>
         /\ UNCHANGED <<handler, outgoing, session, faults, excuse>>
<1>1. client \in ClientType
  BY Types DEF Wired
<1>2. client' = [client EXCEPT !.stage = "resuming"] /\ client.stage = "retrying"
  BY DEF AskResume
<1>3. client' \in ClientType
  BY <1>1, <1>2 DEF ClientType, Stages
<1>4. client.last_sequence \in Nat \cup {None}
  BY <1>1 DEF ClientType
<1> DEFINE m == Msg("continue", client.last_sequence)
<1>5. m \in Message /\ m.type = "continue" /\ m.value = client.last_sequence
  BY <1>4 DEF Msg, Message
<1>6. to_server' = <<m>>
  BY DEF AskResume
<1> HIDE DEF m
<1>7. to_server' \in Seq(Message) /\ Len(to_server') = 1 /\ to_server'[1] = m
  BY <1>5, <1>6
<1>8. QED
  BY <1>2, <1>3, <1>5, <1>7 DEF AskResume, serverVars

LEMMA StartEffect ==
  ASSUME Wired, StartSession
  PROVE  /\ handler.at = "idle" /\ to_server # << >> /\ to_server[1].type = "start"
         /\ to_server' \in Seq(Message) /\ Dropped(to_server, to_server')
         /\ to_client' \in Seq(Message)
         /\ Added(to_client, to_client', Msg("ready", 0))
         /\ Msg("ready", 0).type = "ready" /\ Msg("ready", 0).value = 0
         /\ handler' \in HandlerType
         /\ handler'.at = "serving" /\ handler'.attached = TRUE
         /\ handler'.buffer = 0
         /\ handler'.paused = FALSE /\ handler'.replay = << >>
         /\ session' = [session EXCEPT !.known = TRUE] /\ session' \in SessionType
         /\ outgoing' = << >>
         /\ UNCHANGED <<client, connected, faults, excuse>>
<1>1. /\ session \in SessionType /\ to_server \in Seq(Message)
      /\ to_client \in Seq(Message)
  BY Types DEF Wired
<1>2. to_server # << >> /\ to_server' = Tail(to_server) /\ Head(to_server).type = "start"
  BY DEF StartSession
<1>3. /\ to_server' \in Seq(Message) /\ Dropped(to_server, to_server')
      /\ Head(to_server) = to_server[1]
  BY <1>1, <1>2, TailDrops
<1>4. Msg("ready", 0) \in Message /\ Msg("ready", 0).type = "ready"
      /\ Msg("ready", 0).value = 0
  BY DEF Msg, Message
<1>5. to_client' = Append(to_client, Msg("ready", 0))
  BY DEF StartSession
<1>6. to_client' \in Seq(Message) /\ Added(to_client, to_client', Msg("ready", 0))
  BY <1>1, <1>4, <1>5, AppendAdds
<1>7. /\ handler' = [Idle EXCEPT !.at = "serving", !.attached = TRUE]
      /\ session' = [session EXCEPT !.known = TRUE]
  BY DEF StartSession
<1>8. handler' \in HandlerType
  BY <1>7, EmptyQueue DEF Idle, HandlerType, None
<1>9. session' \in SessionType
  BY <1>1, <1>7 DEF SessionType
<1>10. /\ handler'.at = "serving" /\ handler'.attached = TRUE /\ handler'.buffer = 0
       /\ handler'.paused = FALSE /\ handler'.replay = << >>
  BY <1>7 DEF Idle
<1>11. QED
  BY <1>2, <1>3, <1>4, <1>6, <1>7, <1>8, <1>9, <1>10 DEF StartSession, clientSide

LEMMA RefuseEffect ==
  ASSUME Wired, RefuseResume
  PROVE  \E m \in Message :
         /\ to_server # << >> /\ to_server[1].type = "continue"
         /\ handler.at # "idle" \/ ~session.known
         /\ m.type = IF session.known THEN "conflict" ELSE "error"
         /\ to_client' \in Seq(Message) /\ Added(to_client, to_client', m)
         /\ connected' = FALSE /\ to_server' = << >>
         /\ UNCHANGED <<client, handler, outgoing, session, faults, excuse>>
<1>1. /\ to_server \in Seq(Message) /\ to_client \in Seq(Message)
  BY Types DEF Wired
<1>2. to_server # << >> /\ Head(to_server).type = "continue"
  BY DEF RefuseResume
<1>3. Head(to_server) = to_server[1]
  BY <1>1, <1>2, TailDrops
<1> DEFINE m == Msg(IF session.known THEN "conflict" ELSE "error", None)
<1>4. m \in Message /\ m.type = IF session.known THEN "conflict" ELSE "error"
  BY DEF Msg, Message
<1>5. to_client' = Append(to_client, m)
  BY DEF RefuseResume
<1> HIDE DEF m
<1>6. to_client' \in Seq(Message) /\ Added(to_client, to_client', m)
  BY <1>1, <1>4, <1>5, AppendAdds
<1>7. QED
  BY <1>2, <1>3, <1>4, <1>6 DEF RefuseResume, serverVars

LEMMA OpenEffect ==
  ASSUME Wired, OpenResume
  PROVE  /\ handler.at = "idle" /\ session.known
         /\ to_server # << >> /\ to_server[1] \in Message
         /\ to_server[1].type = "continue"
         /\ to_server' \in Seq(Message) /\ Dropped(to_server, to_server')
         /\ handler' \in HandlerType /\ session' \in SessionType
         /\ handler'.at = "starting" /\ handler'.attached = TRUE
         /\ handler'.buffer = 0 /\ handler'.paused = FALSE
         /\ handler'.replay = << >>
         /\ handler'.acknowledged = to_server[1].value
         /\ session'.known = session.known /\ session'.chunks = session.chunks
         /\ session'.stored = session.stored
         /\ OpenPartial => Added(session.log, session'.log, "commit")
         /\ ~OpenPartial => session'.log = session.log
         /\ outgoing' = << >>
         /\ UNCHANGED <<client, connected, to_client, faults, excuse>>
<1>1. /\ session \in SessionType /\ to_server \in Seq(Message)
  BY Types DEF Wired
<1>2. to_server # << >> /\ to_server' = Tail(to_server) /\ Head(to_server).type = "continue"
  BY DEF OpenResume
<1>3. /\ to_server' \in Seq(Message) /\ Dropped(to_server, to_server')
      /\ Head(to_server) = to_server[1] /\ to_server[1] \in Message
  BY <1>1, <1>2, TailDrops
<1>4. PICK boundary \in session.boundary..session.chunks :
        /\ session' = [session EXCEPT
             !.boundary = boundary,
             !.log = IF OpenPartial THEN Append(@, "commit") ELSE @]
        /\ handler' = [Idle EXCEPT
             !.at = "starting", !.attached = TRUE,
             !.acknowledged = to_server[1].value,
             !.taken = boundary, !.base = session.chunks]
  BY <1>3 DEF OpenResume
<1>5. boundary \in Nat /\ session.chunks \in Nat /\ session.log \in Seq(EventTypes)
  BY <1>1 DEF SessionType
<1>6. to_server[1].value \in Nat \cup {None}
  BY <1>3 DEF Message
<1>7. /\ Append(session.log, "commit") \in Seq(EventTypes)
      /\ Added(session.log, Append(session.log, "commit"), "commit")
  <2>1. "commit" \in EventTypes
    BY DEF EventTypes
  <2>2. QED
    BY <1>5, <2>1, AppendAdds
<1>8. handler' \in HandlerType
  BY <1>4, <1>5, <1>6, EmptyQueue DEF Idle, HandlerType
<1>9. session' \in SessionType
  BY <1>1, <1>4, <1>5, <1>7 DEF SessionType
<1>10. /\ handler'.at = "starting" /\ handler'.attached = TRUE
       /\ handler'.buffer = 0 /\ handler'.paused = FALSE /\ handler'.replay = << >>
       /\ handler'.acknowledged = to_server[1].value
  BY <1>4 DEF Idle
<1>11. /\ session'.known = session.known /\ session'.chunks = session.chunks
       /\ session'.stored = session.stored
       /\ session'.log = IF OpenPartial THEN Append(session.log, "commit") ELSE session.log
  BY <1>1, <1>4 DEF SessionType
<1>12. QED
  BY <1>2, <1>3, <1>7, <1>8, <1>9, <1>10, <1>11 DEF OpenResume, clientSide

LEMMA ReadyEffect ==
  ASSUME Wired, Ready
  PROVE  /\ handler.at = "starting" /\ handler.attached
         /\ to_client' \in Seq(Message)
         /\ Added(to_client, to_client', Msg("ready", session.chunks))
         /\ Msg("ready", session.chunks).type = "ready"
         /\ Msg("ready", session.chunks).value = session.chunks
         /\ handler'.at = "replaying" /\ handler'.attached = handler.attached
         /\ handler'.buffer = handler.buffer /\ handler'.paused = handler.paused
         /\ handler' \in HandlerType /\ handler'.replay \in Seq(Message)
         /\ LET acknowledged == handler.acknowledged
                r == handler'.replay
            IN /\ Len(r) = IF acknowledged + 1 <= Len(session.log)
                           THEN Len(session.log) - 1 - acknowledged ELSE 0
               /\ \A i \in 1..Len(r) :
                    /\ acknowledged + 1 + i \in 1..Len(session.log)
                    /\ r[i].value = acknowledged + i
                    /\ r[i].type = session.log[acknowledged + 1 + i]
                    /\ r[i].type \in EventTypes
         /\ UNCHANGED <<client, connected, to_server, outgoing, session, faults, excuse>>
<1> DEFINE n == Len(session.log) - 1 - handler.acknowledged
           k == IF handler.acknowledged + 1 <= Len(session.log) THEN n ELSE 0
           m(i) == Msg(session.log[handler.acknowledged + i + 1], handler.acknowledged + i)
           r == [i \in 1..k |-> m(i)]
<1>1. /\ handler \in HandlerType /\ session \in SessionType
      /\ to_client \in Seq(Message)
  BY Types DEF Wired
<1>2. /\ session.chunks \in Nat /\ session.log \in Seq(EventTypes)
      /\ handler.acknowledged \in Nat \cup {None}
  BY <1>1 DEF HandlerType, SessionType
<1>3. /\ Len(session.log) \in Nat
      /\ \A i \in 1..Len(session.log) : session.log[i] \in EventTypes
  BY <1>2, Elements
<1>4. /\ k \in Nat /\ 1..n = 1..k
      /\ \A i \in 1..k : /\ handler.acknowledged + 1 + i \in 1..Len(session.log)
                         /\ handler.acknowledged + i + 1 = handler.acknowledged + 1 + i
                         /\ handler.acknowledged + i \in Nat
  <2> DEFINE a == handler.acknowledged
             L == Len(session.log)
  <2>1. a \in Int /\ a >= -1 /\ L \in Nat
    BY <1>2, <1>3 DEF None
  <2>2. n = L - 1 - a /\ k = IF a + 1 <= L THEN L - 1 - a ELSE 0
    OBVIOUS
  <2> HIDE DEF n, k, a, L
  <2>3. k \in Nat /\ 1..n = 1..k
    BY <2>1, <2>2
  <2>4. \A i \in 1..k : a + 1 + i \in 1..L /\ a + i + 1 = a + 1 + i /\ a + i \in Nat
    BY <2>1, <2>2
  <2>5. QED
    BY <2>3, <2>4 DEF a, L
<1>5. handler' = [handler EXCEPT !.at = "replaying", !.replay = [i \in 1..n |-> m(i)]]
  BY DEF Ready
<1>6. handler' = [handler EXCEPT !.at = "replaying", !.replay = r]
  BY <1>4, <1>5
<1>8. \A i \in 1..k : /\ m(i) \in Message /\ m(i).type \in EventTypes
                      /\ m(i).type = session.log[handler.acknowledged + 1 + i]
                      /\ m(i).value = handler.acknowledged + i
  <2>1. TAKE i \in 1..k
  <2> DEFINE type == session.log[handler.acknowledged + i + 1]
             value == handler.acknowledged + i
  <2>2. type \in EventTypes /\ value \in Nat
        /\ type = session.log[handler.acknowledged + 1 + i]
    BY <1>3, <1>4
  <2>3. m(i) = Msg(type, value)
    OBVIOUS
  <2> HIDE DEF type, value, m
  <2>4. QED
    BY <2>2, <2>3 DEF Msg, Message, EventTypes, value
<1> HIDE DEF m, k
<1>9. r \in Seq(Message) /\ Len(r) = k /\ \A i \in 1..k : r[i] = m(i)
  BY <1>4, <1>8
<1> HIDE DEF r
<1>10. /\ handler'.replay = r /\ handler'.at = "replaying"
       /\ handler'.attached = handler.attached
       /\ handler'.buffer = handler.buffer /\ handler'.paused = handler.paused
  BY <1>1, <1>6 DEF HandlerType
<1>11. handler' \in HandlerType
  BY <1>1, <1>6, <1>9 DEF HandlerType
<1>12. /\ Msg("ready", session.chunks) \in Message
       /\ Msg("ready", session.chunks).type = "ready"
       /\ Msg("ready", session.chunks).value = session.chunks
  BY <1>2 DEF Msg, Message
<1>13. to_client' = Append(to_client, Msg("ready", session.chunks))
  BY DEF Ready
<1>14. /\ to_client' \in Seq(Message)
       /\ Added(to_client, to_client', Msg("ready", session.chunks))
  BY <1>1, <1>12, <1>13, AppendAdds
<1>15. LET acknowledged == handler.acknowledged
       IN /\ Len(r) = IF acknowledged + 1 <= Len(session.log)
                      THEN Len(session.log) - 1 - acknowledged ELSE 0
          /\ \A i \in 1..Len(r) :
               /\ acknowledged + 1 + i \in 1..Len(session.log)
               /\ r[i].value = acknowledged + i
               /\ r[i].type = session.log[acknowledged + 1 + i]
               /\ r[i].type \in EventTypes
  BY <1>4, <1>8, <1>9 DEF k
<1>16. QED
  BY <1>9, <1>10, <1>11, <1>12, <1>14, <1>15 DEF Ready, clientSide

LEMMA QueueReplayEffect ==
  ASSUME Wired, QueueReplay
  PROVE  /\ handler.at = "replaying"
         /\ \/ /\ handler.replay = << >> /\ UNCHANGED outgoing
               /\ handler'.at = "serving" /\ handler'.replay = << >>
            \/ /\ handler.replay # << >> /\ handler.replay[1] \in Message
               /\ Dropped(handler.replay, handler'.replay)
               /\ Added(outgoing, outgoing', handler.replay[1])
               /\ handler'.at = "replaying"
         /\ handler'.attached = handler.attached
         /\ handler'.buffer = handler.buffer /\ handler'.paused = handler.paused
         /\ handler' \in HandlerType /\ outgoing' \in Seq(Message)
         /\ UNCHANGED <<client, connected, to_server, to_client, session, faults, excuse>>
<1>1. handler \in HandlerType /\ outgoing \in Seq(Message) /\ handler.replay \in Seq(Message)
  BY Types DEF Wired, HandlerType
<1>2. CASE handler.replay = << >>
  <2>1. handler' = [handler EXCEPT !.at = "serving"] /\ UNCHANGED outgoing
    BY <1>2 DEF QueueReplay
  <2>2. /\ handler' \in HandlerType /\ handler'.at = "serving"
        /\ handler'.replay = << >>
        /\ handler'.attached = handler.attached
        /\ handler'.buffer = handler.buffer /\ handler'.paused = handler.paused
    BY <1>1, <1>2, <2>1 DEF HandlerType
  <2>3. QED
    BY <1>1, <1>2, <2>1, <2>2 DEF QueueReplay, clientSide
<1>3. CASE handler.replay # << >>
  <2>1. /\ handler' = [handler EXCEPT !.replay = Tail(@)]
        /\ outgoing' = Append(outgoing, Head(handler.replay))
    BY <1>3 DEF QueueReplay
  <2>2. /\ Tail(handler.replay) \in Seq(Message)
        /\ Dropped(handler.replay, Tail(handler.replay))
        /\ Head(handler.replay) = handler.replay[1] /\ handler.replay[1] \in Message
    BY <1>1, <1>3, TailDrops
  <2>3. outgoing' \in Seq(Message) /\ Added(outgoing, outgoing', handler.replay[1])
    BY <1>1, <2>1, <2>2, AppendAdds
  <2>4. handler' = [handler EXCEPT !.replay = Tail(handler.replay)]
    BY <1>1, <2>1 DEF HandlerType
  <2>5. /\ handler' \in HandlerType /\ handler'.replay = Tail(handler.replay)
        /\ handler'.at = handler.at /\ handler'.attached = handler.attached
        /\ handler'.buffer = handler.buffer /\ handler'.paused = handler.paused
    BY <1>1, <2>2, <2>4 DEF HandlerType
  <2>6. QED
    BY <1>3, <2>2, <2>3, <2>5 DEF QueueReplay, clientSide
<1>4. QED
  BY <1>2, <1>3

\* A frame stored as so many whole chunks; a pause and an acknowledgement are
\* sent, over q.
Stores(whole, rest, pauses, q, p, ack) ==
  /\ handler.at = "serving" /\ handler.attached
  /\ to_server[1].type = "frame" /\ to_server[1].value \in Nat \ {0}
  /\ to_server' \in Seq(Message) /\ Dropped(to_server, to_server')
  /\ handler.buffer + to_server[1].value = whole * internal_size + rest
  /\ whole * internal_size \in Nat /\ (whole * internal_size = 0 <=> whole = 0)
  /\ session' = [session EXCEPT !.chunks = @ + whole,
                                !.stored = @ + whole * internal_size]
  /\ session' \in SessionType
  /\ handler' = [handler EXCEPT !.buffer = rest, !.paused = @ \/ pauses]
  /\ handler' \in HandlerType
  /\ p.type = "pause" /\ ack.type = "audio_ack"
  /\ ack.value = session.chunks + whole - 1 /\ ack.buffered = rest
  /\ pauses => Added(to_client, q, p)
  /\ ~pauses => q = to_client
  /\ Added(q, to_client', ack) /\ to_client' \in Seq(Message)
  /\ UNCHANGED <<client, connected, outgoing, faults, excuse>>

LEMMA HandleFrameEffect ==
  ASSUME Wired, HandleFrame
  PROVE  \E whole \in Nat, rest \in Nat, pauses \in BOOLEAN, q \in Seq(Message),
            p \in Message, ack \in Message : Stores(whole, rest, pauses, q, p, ack)
<1> DEFINE filled == handler.buffer + Head(to_server).value
           whole == filled \div internal_size
           pauses == whole > 0 /\ ~handler.paused /\ Depth + whole - 1 >= High
           rest == filled % internal_size
           last == session.chunks + whole - 1
           p == Msg("pause", None)
           ack == Ack(last, rest)
           q == IF pauses THEN Append(to_client, p) ELSE to_client
<1>1. /\ handler \in HandlerType /\ session \in SessionType
      /\ to_server \in Seq(Message) /\ to_client \in Seq(Message)
  BY Types DEF Wired
<1>2. to_server # << >> /\ to_server' = Tail(to_server) /\ Head(to_server).type = "frame"
  BY DEF HandleFrame
<1>3. /\ to_server' \in Seq(Message) /\ Dropped(to_server, to_server')
      /\ Head(to_server) = to_server[1]
  BY <1>1, <1>2, TailDrops
<1>4. to_server[1].type = "frame" /\ to_server[1].value \in Nat \ {0}
  <2>1. 1 \in 1..Len(to_server)
    BY <1>3 DEF Dropped
  <2>2. QED
    BY <1>2, <1>3, <2>1 DEF Wired, ToServer
<1>5. handler.buffer \in Nat /\ session.chunks \in Nat /\ session.stored \in Nat
  BY <1>1 DEF HandlerType, SessionType
<1>6. filled \in Nat
  BY <1>3, <1>4, <1>5
<1>7. /\ session' = [session EXCEPT !.chunks = @ + whole,
                                    !.stored = @ + whole * internal_size]
      /\ handler' = [handler EXCEPT !.buffer = rest, !.paused = @ \/ pauses]
      /\ to_client' = to_client \o (IF pauses THEN <<p>> ELSE << >>) \o <<ack>>
  BY DEF HandleFrame
<1>8. pauses \in BOOLEAN
  OBVIOUS
<1> HIDE DEF pauses
<1>9. /\ whole \in Nat /\ rest \in Nat /\ filled = whole * internal_size + rest
      /\ whole * internal_size \in Nat /\ (whole * internal_size = 0 <=> whole = 0)
  <2> HIDE DEF filled
  <2>1. internal_size \in Nat \ {0}
    BY Numbers
  <2>2. /\ filled \div internal_size \in Nat /\ filled % internal_size \in Nat
        /\ filled = (filled \div internal_size) * internal_size + (filled % internal_size)
    BY <1>6, <2>1, Chunks
  <2>3. whole \in Nat /\ rest \in Nat /\ filled = whole * internal_size + rest
    BY <2>2
  <2> HIDE DEF whole, rest
  <2>4. whole * internal_size \in Nat /\ (whole * internal_size = 0 <=> whole = 0)
    BY <2>1, <2>3, Products
  <2>5. QED
    BY <2>3, <2>4
<1>10. handler.buffer + to_server[1].value = whole * internal_size + rest
  BY <1>3, <1>9
<1> HIDE DEF filled, whole, rest
<1>11. last \in Nat \cup {None}
  BY <1>5, <1>9 DEF None
<1>12. p \in Message /\ p.type = "pause"
  BY DEF Msg, Message
<1>13. ack \in Message /\ ack.type = "audio_ack" /\ ack.value = last /\ ack.buffered = rest
  BY <1>9, <1>11 DEF Ack, Message
<1> HIDE DEF p, ack
<1>14. q \in Seq(Message) /\ (pauses => Added(to_client, q, p)) /\ (~pauses => q = to_client)
  BY <1>1, <1>12, AppendAdds
<1>15. to_client' = Append(q, ack)
  <2>1. CASE pauses
    <3>1. to_client' = to_client \o <<p>> \o <<ack>>
      BY <1>7, <2>1
    <3>2. to_client \o <<p>> \o <<ack>> = Append(Append(to_client, p), ack)
      BY <1>1, <1>12, <1>13, TwoMore
    <3>3. q = Append(to_client, p)
      BY <2>1
    <3>4. QED
      BY <3>1, <3>2, <3>3
  <2>2. CASE ~pauses
    BY <1>1, <1>7, <1>12, <1>13, <2>2, OneMore
  <2>3. QED
    BY <2>1, <2>2
<1> HIDE DEF q
<1>16. to_client' \in Seq(Message) /\ Added(q, to_client', ack)
  BY <1>13, <1>14, <1>15, AppendAdds
<1>17. session' \in SessionType
  <2>1. session.chunks + whole \in Nat /\ session.stored + whole * internal_size \in Nat
    BY <1>5, <1>9
  <2>2. QED
    BY <1>1, <1>7, <2>1 DEF SessionType
<1>18. handler' \in HandlerType
  BY <1>1, <1>7, <1>8, <1>9 DEF HandlerType
<1>19. /\ handler.at = "serving" /\ handler.attached
       /\ UNCHANGED <<client, connected, outgoing, faults, excuse>>
  BY DEF HandleFrame, clientSide
<1>20. Stores(whole, rest, pauses, q, p, ack)
  BY <1>3, <1>4, <1>7, <1>8, <1>9, <1>10, <1>12, <1>13, <1>14, <1>16, <1>17, <1>18,
     <1>19, Zenon
     DEF Stores
<1>21. QED
  BY <1>8, <1>9, <1>12, <1>13, <1>14, <1>20

LEMMA HandleEndEffect ==
  ASSUME Wired, HandleEnd
  PROVE  /\ handler.at = "serving" /\ handler.attached
         /\ to_server # << >> /\ to_server[1].type = "end"
         /\ to_server' \in Seq(Message) /\ Dropped(to_server, to_server')
         /\ handler'.at = "finishing" /\ handler'.buffer = 0
         /\ handler'.attached = handler.attached /\ handler'.paused = handler.paused
         /\ handler'.replay = handler.replay
         /\ handler' \in HandlerType /\ session' \in SessionType
         /\ to_client' \in Seq(Message)
         /\ \/ handler.buffer = 0 /\ UNCHANGED <<session, to_client>>
            \/ \E ack \in Message :
                 /\ handler.buffer > 0
                 /\ session' = [session EXCEPT !.chunks = @ + 1,
                                               !.stored = @ + handler.buffer]
                 /\ ack.type = "audio_ack" /\ ack.value = session.chunks
                 /\ ack.buffered = 0
                 /\ Added(to_client, to_client', ack)
         /\ UNCHANGED <<client, connected, outgoing, faults, excuse>>
<1>1. /\ handler \in HandlerType /\ session \in SessionType
      /\ to_server \in Seq(Message) /\ to_client \in Seq(Message)
  BY Types DEF Wired
<1>2. to_server # << >> /\ to_server' = Tail(to_server) /\ Head(to_server).type = "end"
  BY DEF HandleEnd
<1>3. /\ to_server' \in Seq(Message) /\ Dropped(to_server, to_server')
      /\ Head(to_server) = to_server[1]
  BY <1>1, <1>2, TailDrops
<1>4. /\ handler' = [handler EXCEPT !.at = "finishing", !.buffer = 0]
      /\ handler.at = "serving" /\ handler.attached
      /\ UNCHANGED <<client, connected, outgoing, faults, excuse>>
  BY DEF HandleEnd, clientSide
<1>5. /\ handler' \in HandlerType /\ handler.buffer \in Nat
      /\ handler'.at = "finishing" /\ handler'.buffer = 0
      /\ handler'.attached = handler.attached /\ handler'.paused = handler.paused
      /\ handler'.replay = handler.replay
  BY <1>1, <1>4 DEF HandlerType
<1>6. CASE handler.buffer = 0
  <2>1. UNCHANGED <<session, to_client>>
    BY <1>6 DEF HandleEnd
  <2>2. QED
    BY <1>1, <1>2, <1>3, <1>4, <1>5, <1>6, <2>1
<1>7. CASE handler.buffer > 0
  <2> DEFINE ack == Ack(session.chunks, 0)
  <2>1. /\ session' = [session EXCEPT !.chunks = @ + 1, !.stored = @ + handler.buffer]
        /\ to_client' = Append(to_client, ack)
    BY <1>7 DEF HandleEnd
  <2>2. session.chunks \in Nat /\ session.stored \in Nat
    BY <1>1 DEF SessionType
  <2>3. /\ ack \in Message /\ ack.type = "audio_ack" /\ ack.value = session.chunks
        /\ ack.buffered = 0
    BY <2>2 DEF Ack, Message
  <2> HIDE DEF ack
  <2>4. to_client' \in Seq(Message) /\ Added(to_client, to_client', ack)
    BY <1>1, <2>1, <2>3, AppendAdds
  <2>5. session' \in SessionType
    <3>1. session.chunks + 1 \in Nat /\ session.stored + handler.buffer \in Nat
      BY <1>5, <2>2
    <3>2. QED
      BY <1>1, <2>1, <3>1 DEF SessionType
  <2>6. QED
    BY <1>2, <1>3, <1>4, <1>5, <1>7, <2>1, <2>3, <2>4, <2>5
<1>8. QED
  BY <1>5, <1>6, <1>7

\* What taking a chunk may do: to outgoing in two steps, over q.
Takes(q, flow, event, kind, drops) ==
  /\ Running /\ handler.attached
  /\ handler' = [handler EXCEPT !.taken = @ + 1, !.paused = @ /\ ~Resumes]
  /\ handler' \in HandlerType /\ session' \in SessionType
  /\ q = outgoing \/ (handler.paused /\ Added(outgoing, q, flow))
  /\ flow.type = "resume"
  /\ session'.known = session.known /\ session'.chunks = session.chunks
  /\ session'.stored = session.stored
  /\ outgoing' \in Seq(Message)
  /\ \/ kind = "nothing" /\ session'.log = session.log /\ outgoing' = q
     \/ /\ kind # "nothing" /\ Added(session.log, session'.log, kind)
        /\ event.type = kind /\ event.value = Len(session.log)
        /\ handler.at \in {"starting", "replaying"} => excuse' # "none"
        /\ \/ drops /\ outgoing' = q /\ excuse' # "none"
           \/ ~drops /\ Added(q, outgoing', event)
  /\ excuse' \in Excuses /\ (excuse # "none" => excuse' # "none")
  /\ UNCHANGED <<client, connected, to_server, to_client, faults>>

LEMMA TakeEffect ==
  ASSUME Wired, TakeChunk
  PROVE  \E q \in Seq(Message), flow \in Message, event \in Message,
            kind \in {"nothing", "partial", "commit"}, drops \in BOOLEAN :
           Takes(q, flow, event, kind, drops)
<1> DEFINE flow == Msg("resume", None)
           flows == IF Resumes THEN <<flow>> ELSE << >>
           q == IF Resumes THEN Append(outgoing, flow) ELSE outgoing
           room == QueueSize - Len(outgoing) - Len(flows)
           n == Len(session.log)
<1>1. /\ handler \in HandlerType /\ session \in SessionType
      /\ outgoing \in Seq(Message)
      /\ excuse \in Excuses
  BY Types DEF Wired
<1>2. /\ Running /\ handler.attached
      /\ handler' = [handler EXCEPT !.taken = @ + 1, !.paused = @ /\ ~Resumes]
      /\ UNCHANGED <<client, connected, to_server, to_client, faults>>
  BY DEF TakeChunk, clientSide
<1>3. PICK kind \in {"nothing", "partial", "commit"} :
        LET drops == kind = "partial" /\ room = 0 IN
        /\ session' =
             CASE kind = "nothing" -> session
               [] kind = "partial" -> [session EXCEPT !.log = Append(@, kind)]
               [] kind = "commit"  -> [session EXCEPT
                                         !.log = Append(@, kind),
                                         !.boundary = handler.taken + 1]
        /\ outgoing' = outgoing \o flows \o
             (IF kind = "nothing" \/ drops THEN << >>
              ELSE <<Msg(kind, Len(session.log))>>)
        /\ Note(kind # "nothing", drops)
  BY DEF TakeChunk
<1> DEFINE drops == kind = "partial" /\ room = 0
           event == Msg(IF kind = "nothing" THEN "commit" ELSE kind, n)
<1>4. /\ outgoing' = outgoing \o flows \o
             (IF kind = "nothing" \/ drops THEN << >> ELSE <<Msg(kind, n)>>)
      /\ Note(kind # "nothing", drops)
  BY <1>3
<1>5. drops \in BOOLEAN
  OBVIOUS
<1> HIDE DEF drops, n, room
<1>6. flow \in Message /\ flow.type = "resume"
  BY DEF Msg, Message
<1>7. n \in Nat /\ session.log \in Seq(EventTypes) /\ session.boundary \in Nat
      /\ handler.taken \in Nat /\ handler.paused \in BOOLEAN
  BY <1>1 DEF n, SessionType, HandlerType
<1>8. event \in Message /\ (kind # "nothing" => event = Msg(kind, n))
      /\ (kind # "nothing" => event.type = kind /\ event.value = n)
  BY <1>7 DEF Msg, Message
<1> HIDE DEF event, flow
<1>9. /\ q \in Seq(Message)
      /\ Resumes => q = Append(outgoing, flow) /\ Added(outgoing, q, flow)
      /\ ~Resumes => q = outgoing
  BY <1>1, <1>6, AppendAdds
<1>10. Resumes => handler.paused
  BY DEF Resumes
<1>11. handler' \in HandlerType
  <2>1. handler.taken + 1 \in Nat
    BY <1>7
  <2>2. PICK paused \in BOOLEAN : paused <=> handler.paused /\ ~Resumes
    OBVIOUS
  <2>3. handler' = [handler EXCEPT !.taken = handler.taken + 1, !.paused = paused]
    BY <1>1, <1>2, <2>2 DEF HandlerType
  <2>4. QED
    BY <1>1, <2>1, <2>3 DEF HandlerType
<1>12. /\ excuse' \in Excuses /\ (excuse # "none" => excuse' # "none")
       /\ drops => excuse' # "none"
       /\ kind # "nothing" /\ handler.at \in {"starting", "replaying"} => excuse' # "none"
  BY <1>1, <1>4 DEF Note, Excused, Excuses
<1>13. outgoing \o flows = q /\ outgoing \o flows \o << >> = q
  <2>1. CASE Resumes
    BY <1>1, <1>6, <1>9, <2>1, TwoMore
  <2>2. CASE ~Resumes
    BY <1>1, <1>6, <1>9, <2>2, OneMore
  <2>3. QED
    BY <2>1, <2>2
<1>14. outgoing \o flows \o <<event>> = Append(q, event)
  BY <1>8, <1>9, <1>13, OneMore
<1> HIDE DEF q, flows
<1>15. CASE kind = "nothing"
  <2>1. session' = session /\ outgoing' = q
    BY <1>3, <1>4, <1>13, <1>15
  <2>2. Takes(q, flow, event, kind, drops)
    <3>1. q = outgoing \/ (handler.paused /\ Added(outgoing, q, flow))
      BY <1>9, <1>10
    <3>2. session' \in SessionType /\ session'.known = session.known
          /\ session'.chunks = session.chunks /\ session'.stored = session.stored
          /\ session'.log = session.log /\ outgoing' \in Seq(Message)
      BY <1>1, <1>9, <2>1
    <3>3. QED
      BY <1>2, <1>6, <1>11, <1>12, <1>15, <2>1, <3>1, <3>2, Zenon DEF Takes
  <2>3. QED
    BY <1>5, <1>6, <1>8, <1>9, <2>2
<1>16. CASE kind # "nothing"
  <2>1. /\ Append(session.log, kind) \in Seq(EventTypes)
        /\ Added(session.log, Append(session.log, kind), kind)
    <3>1. kind \in EventTypes
      BY <1>16 DEF EventTypes
    <3>2. QED
      BY <1>7, <3>1, AppendAdds
  <2>2. /\ session'.known = session.known /\ session'.chunks = session.chunks
        /\ session'.stored = session.stored
        /\ session'.log = Append(session.log, kind)
        /\ session' \in SessionType
    <3>1. CASE kind = "partial"
      <4>1. session' = [session EXCEPT !.log = Append(session.log, kind)]
        BY <1>3, <3>1
      <4>2. QED
        BY <1>1, <2>1, <4>1 DEF SessionType
    <3>2. CASE kind = "commit"
      <4>1. session' = [session EXCEPT !.log = Append(session.log, kind),
                                       !.boundary = handler.taken + 1]
        BY <1>3, <3>2
      <4>2. QED
        <5>1. handler.taken + 1 \in Nat
          BY <1>7
        <5>2. QED
          BY <1>1, <2>1, <4>1, <5>1 DEF SessionType
    <3>3. QED
      BY <1>16, <3>1, <3>2
  <2>3. /\ drops => outgoing' = q
        /\ ~drops => outgoing' = Append(q, event)
    BY <1>4, <1>8, <1>13, <1>14, <1>16
  <2>4. /\ outgoing' \in Seq(Message)
        /\ ~drops => Added(q, outgoing', event)
    BY <1>8, <1>9, <2>3, AppendAdds
  <2>5. event.type = kind /\ event.value = Len(session.log)
    BY <1>8, <1>16 DEF n
  <2>6. Takes(q, flow, event, kind, drops)
    <3>1. q = outgoing \/ (handler.paused /\ Added(outgoing, q, flow))
      BY <1>9, <1>10
    <3>2. Added(session.log, session'.log, kind)
      BY <2>1, <2>2
    <3>3. (drops /\ outgoing' = q /\ excuse' # "none") \/ (~drops /\ Added(q, outgoing', event))
      BY <1>12, <2>3, <2>4
    <3>4. QED
      BY <1>2, <1>6, <1>11, <1>12, <1>16, <2>2, <2>4, <2>5, <3>1, <3>2, <3>3, Zenon
         DEF Takes
  <2>7. QED
    BY <1>5, <1>6, <1>8, <1>9, <2>6
<1>17. QED
  BY <1>15, <1>16

Ends(event) ==
  /\ handler.at = "finishing" /\ handler.attached
  /\ event.type = (IF OpenPartial THEN "commit" ELSE "final")
  /\ event.value = Len(session.log)
  /\ session' \in SessionType /\ Added(session.log, session'.log, event.type)
  /\ session'.known = (event.type # "final")
  /\ session'.chunks = session.chunks /\ session'.stored = session.stored
  /\ outgoing' \in Seq(Message) /\ Added(outgoing, outgoing', event)
  /\ handler' = [handler EXCEPT !.at = IF event.type = "final" THEN "ended" ELSE @]
  /\ handler' \in HandlerType
  /\ UNCHANGED <<client, connected, to_server, to_client, faults, excuse>>

LEMMA EndsEffect ==
  ASSUME Wired, WorkerEnds
  PROVE  \E event \in Message : Ends(event)
<1> DEFINE kind == IF OpenPartial THEN "commit" ELSE "final"
           event == Msg(kind, Len(session.log))
<1>1. /\ handler \in HandlerType /\ session \in SessionType
      /\ outgoing \in Seq(Message)
  BY Types DEF Wired
<1>2. /\ handler.at = "finishing" /\ handler.attached
      /\ session' = [session EXCEPT
           !.log = Append(@, kind),
           !.boundary = IF kind = "commit" THEN session.chunks ELSE @,
           !.known = (kind # "final")]
      /\ outgoing' = Append(outgoing, event)
      /\ handler' = IF kind = "final" THEN [handler EXCEPT !.at = "ended"] ELSE handler
      /\ UNCHANGED <<client, connected, to_server, to_client, faults, excuse>>
  BY DEF WorkerEnds, clientSide
<1>3. kind \in {"commit", "final"} /\ kind = IF OpenPartial THEN "commit" ELSE "final"
  OBVIOUS
<1>4. session.log \in Seq(EventTypes) /\ Len(session.log) \in Nat /\ session.chunks \in Nat
      /\ session.boundary \in Nat
  BY <1>1 DEF SessionType
<1> HIDE DEF kind
<1>5. event \in Message /\ event.type = kind /\ event.value = Len(session.log)
  BY <1>3, <1>4 DEF Msg, Message
<1>6. /\ Append(session.log, kind) \in Seq(EventTypes)
      /\ Added(session.log, Append(session.log, kind), kind)
  <2>1. kind \in EventTypes
    BY <1>3 DEF EventTypes
  <2>2. QED
    BY <1>4, <2>1, AppendAdds
<1> HIDE DEF event
<1>7. outgoing' \in Seq(Message) /\ Added(outgoing, outgoing', event)
  BY <1>1, <1>2, <1>5, AppendAdds
<1>8. /\ session' \in SessionType /\ session'.log = Append(session.log, kind)
      /\ session'.known = (kind # "final") /\ session'.chunks = session.chunks
      /\ session'.stored = session.stored
  BY <1>1, <1>2, <1>4, <1>6 DEF SessionType
<1>9. /\ handler' = [handler EXCEPT !.at = IF kind = "final" THEN "ended" ELSE @]
      /\ handler' \in HandlerType
  BY <1>1, <1>2 DEF HandlerType
<1>10. Ends(event)
  <2>1. Added(session.log, session'.log, event.type)
    BY <1>5, <1>6, <1>8
  <2>2. session'.known = (event.type # "final")
    BY <1>5, <1>8
  <2>3. handler' = [handler EXCEPT !.at = IF event.type = "final" THEN "ended" ELSE @]
    BY <1>5, <1>9
  <2>4. event.type = (IF OpenPartial THEN "commit" ELSE "final")
    BY <1>3, <1>5
  <2>5. QED
    BY <1>2, <1>5, <1>7, <1>8, <1>9, <2>1, <2>2, <2>3, <2>4, Zenon DEF Ends
<1>11. QED
  BY <1>5, <1>10

LEMMA SendEffect ==
  ASSUME Wired, Send
  PROVE  /\ handler.at \in {"replaying", "serving", "finishing", "ended"}
         /\ handler.attached
         /\ outgoing' \in Seq(Message) /\ Dropped(outgoing, outgoing')
         /\ to_client' \in Seq(Message) /\ Added(to_client, to_client', outgoing[1])
         /\ outgoing[1] \in Message
         /\ UNCHANGED <<client, connected, to_server, handler, session, faults, excuse>>
<1>1. outgoing \in Seq(Message) /\ to_client \in Seq(Message)
  BY Types DEF Wired
<1>2. /\ outgoing # << >> /\ outgoing' = Tail(outgoing)
      /\ to_client' = Append(to_client, Head(outgoing))
  BY DEF Send
<1>3. /\ outgoing' \in Seq(Message) /\ Dropped(outgoing, outgoing')
      /\ Head(outgoing) = outgoing[1] /\ outgoing[1] \in Message
  BY <1>1, <1>2, TailDrops
<1>4. to_client' \in Seq(Message) /\ Added(to_client, to_client', outgoing[1])
  BY <1>1, <1>2, <1>3, AppendAdds
<1>5. QED
  BY <1>3, <1>4 DEF Send, clientSide

LEMMA ServerFailsEffect ==
  ASSUME Wired, ServerFails
  PROVE  \E m \in Message :
         /\ Running /\ handler.attached /\ excuse' # "none" /\ excuse' \in Excuses
         /\ m.type = "error"
         /\ to_client' \in Seq(Message) /\ Added(to_client, to_client', m)
         /\ connected' = FALSE /\ to_server' = << >> /\ faults' \in 0..MaxFaults
         /\ handler' = [handler EXCEPT !.at = "closing", !.attached = FALSE]
         /\ handler' \in HandlerType
         /\ UNCHANGED <<client, outgoing, session>>
<1> DEFINE m == Msg("error", None)
<1>1. /\ handler \in HandlerType /\ to_client \in Seq(Message) /\ excuse \in Excuses
      /\ faults \in 0..MaxFaults
  BY Types DEF Wired
<1>2. m \in Message /\ m.type = "error"
  BY DEF Msg, Message
<1>3. to_client' = Append(to_client, m)
  BY DEF ServerFails
<1> HIDE DEF m
<1>4. to_client' \in Seq(Message) /\ Added(to_client, to_client', m)
  BY <1>1, <1>2, <1>3, AppendAdds
<1>5. excuse' # "none" /\ excuse' \in Excuses
  BY <1>1 DEF ServerFails, Excused, Excuses
<1>6. faults' \in 0..MaxFaults
  <2>1. MaxFaults \in Nat /\ faults < MaxFaults /\ faults' = faults + 1
    BY Numbers DEF ServerFails
  <2>2. QED
    BY <1>1, <2>1
<1>7. handler' = [handler EXCEPT !.at = "closing", !.attached = FALSE]
  BY DEF ServerFails
<1>8. handler' \in HandlerType
  BY <1>1, <1>7 DEF HandlerType
<1>9. QED
  BY <1>2, <1>4, <1>5, <1>6, <1>7, <1>8 DEF ServerFails

-----------------------------------------------------------------------------
(* The steps: a failure of the gate, or one of these.                      *)

ReceiverBreaks ==
  /\ client.outcome = "none" /\ client.kind = "session" /\ Reading /\ Raises
  /\ client' = [client EXCEPT !.receiver = "failed"]
  /\ UNCHANGED <<connected, to_server, to_client, handler, outgoing, session, faults, excuse>>

Disconnects ==
  /\ client.kind = "probe" /\ client.stage = "sending" /\ client.leg = 1
  /\ ~NeedsMore /\ Drained
  /\ client' = [client EXCEPT !.stage = "retrying", !.leg = 2,
                              !.first_ack = client.last_ack]
  /\ Close /\ UNCHANGED <<outgoing, session, faults, excuse>>

Retries ==
  /\ client.stage = "resuming" /\ to_client # << >>
  /\ Head(to_client).type = "conflict"
  /\ client' = [client EXCEPT !.stage = "retrying"]
  /\ Close /\ UNCHANGED <<outgoing, session, faults, excuse>>

GateStep ==
  \/ Fails
  \/ Consume \/ ReceiverBreaks \/ ReceiveReady \/ CheckReceiver
  \/ (SendBlock /\ connected) \/ (SendEnd /\ connected) \/ SessionResult
  \/ (SendFrame /\ connected) \/ Disconnects \/ AskResume \/ Retries \/ ProbeResult

LEMMA GateSteps ==
  ASSUME Wired, Gate
  PROVE  GateStep
<1>1. ConsumeRaises => Fails \/ ReceiverBreaks
  <2>1. client.kind \in {"session", "probe"}
    BY Types DEF Wired, ClientType
  <2>2. QED
    BY <2>1 DEF ConsumeRaises, ReceiverBreaks, serverVars
<1>2. StartRejected \/ ReceiverFailed \/ TooShort => Fails
  BY DEF StartRejected, ReceiverFailed, TooShort
<1>3. /\ SendBlock => Fails \/ (SendBlock /\ connected)
      /\ SendEnd => Fails \/ (SendEnd /\ connected)
      /\ SendFrame => Fails \/ (SendFrame /\ connected)
  BY DEF SendBlock, SendEnd, SendFrame
<1>4. Disconnect => Fails \/ Disconnects
  BY DEF Disconnect, Disconnects
<1>5. StillActive => Fails \/ Retries
  BY DEF StillActive, Retries
<1>6. QED
  BY <1>1, <1>2, <1>3, <1>4, <1>5 DEF Gate, GateStep

LEMMA ExcuseKept ==
  ASSUME TypeOK, Next
  PROVE  excuse' \in Excuses /\ (excuse # "none" => excuse' # "none")
<1>1. excuse \in Excuses
  BY Types
<1>2. CASE UNCHANGED excuse
  BY <1>1, <1>2
<1>3. ASSUME NEW reason \in Excuses \ {"none"}, Excused(reason)
      PROVE  excuse' \in Excuses /\ excuse' # "none"
  BY <1>1, <1>3 DEF Excused
<1>4. CASE Gate
  <2>1. UNCHANGED excuse \/ Excused("gave up") \/ Excused("too short")
        \/ Excused("below threshold")
    BY <1>4
       DEF Gate, Consume, ConsumeRaises, ReceiveReady, StartRejected,
           CheckReceiver, SendBlock, SendEnd, ReceiverFailed, SessionResult,
           SendFrame, TooShort, Disconnect, AskResume, StillActive, ProbeResult
  <2>2. QED
    BY <1>2, <1>3, <2>1 DEF Excuses
<1>5. CASE Server
  <2>1. TakeChunk => UNCHANGED excuse \/ Excused("partial dropped")
                     \/ Excused("replay overtaken")
    BY DEF TakeChunk, Note
  <2>2. UNCHANGED excuse \/ Excused("partial dropped") \/ Excused("replay overtaken")
    BY <1>5, <2>1
       DEF Server, StartSession, RefuseResume, OpenResume, Ready, QueueReplay,
           HandleFrame, HandleEnd, WorkerEnds, Send, Detach, Release
  <2>3. QED
    BY <1>2, <1>3, <2>2 DEF Excuses
<1>6. CASE ServerFails \/ ServerRestarts
  BY <1>3, <1>6 DEF ServerFails, ServerRestarts, Excuses
<1>7. QED
  BY <1>4, <1>5, <1>6 DEF Next

\* What a closing of the gate does.
LEMMA CloseEffect ==
  ASSUME Wired, Close
  PROVE  /\ connected' = FALSE /\ to_server' = << >> /\ to_client' = << >>
         /\ handler' \in HandlerType /\ handler'.attached = FALSE
         /\ handler'.at = handler.at /\ handler'.buffer = handler.buffer
         /\ handler'.replay = handler.replay /\ handler'.paused = handler.paused
         /\ Len(to_server') = 0 /\ Len(to_client') = 0
  BY Types DEF Wired, Close, HandlerType

LEMMA ClientMoves ==
  ASSUME Wired,
         Fails \/ ReceiverBreaks \/ CheckReceiver \/ SessionResult \/ Disconnects
         \/ Retries \/ ProbeResult
  PROVE  client' \in ClientType
<1>1. client \in ClientType
  BY Types DEF Wired
<1>2. CASE Fails
  BY <1>1, <1>2 DEF Fails, ClientType, Stages
<1>3. CASE ReceiverBreaks \/ CheckReceiver
  BY <1>1, <1>3 DEF ReceiverBreaks, CheckReceiver, ClientType, Stages
<1>4. CASE Disconnects \/ Retries
  BY <1>1, <1>4, ZenonT(30) DEF Disconnects, Retries, ClientType, Stages
<1>5. CASE SessionResult \/ ProbeResult
  <2>1. PICK outcome \in {"passed", "failed"} :
          client' = [client EXCEPT !.stage = "done", !.outcome = outcome]
    BY <1>5 DEF SessionResult, ProbeResult
  <2>2. QED
    BY <1>1, <2>1 DEF ClientType, Stages
<1>6. QED
  BY <1>2, <1>3, <1>4, <1>5

LEMMA IdleType == Idle \in HandlerType
  BY EmptyQueue DEF Idle, HandlerType

LEMMA TypeKept ==
  ASSUME Wired, Next
  PROVE  TypeOK'
<1>1. /\ client \in ClientType /\ handler \in HandlerType /\ session \in SessionType
      /\ connected \in BOOLEAN /\ to_server \in Seq(Message)
      /\ to_client \in Seq(Message) /\ outgoing \in Seq(Message)
      /\ faults \in 0..MaxFaults /\ << >> \in Seq(Message) /\ TypeOK
  BY Types, EmptyQueue DEF Wired
<1>2. excuse' \in Excuses
  BY <1>1, ExcuseKept
<1> DEFINE Rest ==
      /\ client' \in ClientType /\ handler' \in HandlerType
      /\ session' \in SessionType
      /\ connected' \in BOOLEAN /\ to_server' \in Seq(Message)
      /\ to_client' \in Seq(Message) /\ outgoing' \in Seq(Message)
      /\ faults' \in 0..MaxFaults
<1>3. ASSUME Gate PROVE Rest
  <2>1. CASE Consume
    BY <1>1, <2>1, ConsumeEffect
  <2>2. CASE ReceiveReady
    BY <1>1, <2>2, ReceiveReadyEffect
  <2>3. CASE SendBlock /\ connected
    BY <1>1, <2>3, SendBlockEffect
  <2>4. CASE SendFrame /\ connected
    BY <1>1, <2>4, SendFrameEffect
  <2>5. CASE SendEnd /\ connected
    BY <1>1, <2>5, SendEndEffect
  <2>6. CASE AskResume
    BY <1>1, <2>6, AskResumeEffect
  <2>7. CASE Fails \/ ReceiverBreaks \/ CheckReceiver \/ SessionResult \/ Disconnects
             \/ Retries \/ ProbeResult
    <3>1. client' \in ClientType
      BY <2>7, ClientMoves
    <3>2. Close => connected' = FALSE /\ to_server' = << >> /\ to_client' = << >>
                   /\ handler' \in HandlerType
      BY CloseEffect
    <3>3. QED
      BY <1>1, <2>7, <3>1, <3>2
         DEF Fails, ReceiverBreaks, CheckReceiver, SessionResult, Disconnects,
             Retries, ProbeResult, serverVars
  <2>8. QED
    BY <1>3, <2>1, <2>2, <2>3, <2>4, <2>5, <2>6, <2>7, GateSteps DEF GateStep
<1>4. ASSUME Server PROVE Rest
  <2>1. CASE StartSession
    BY <1>1, <2>1, StartEffect
  <2>2. CASE RefuseResume
    BY <1>1, <2>2, RefuseEffect
  <2>3. CASE OpenResume
    BY <1>1, <2>3, OpenEffect
  <2>4. CASE Ready
    BY <1>1, <2>4, ReadyEffect
  <2>5. CASE QueueReplay
    BY <1>1, <2>5, QueueReplayEffect
  <2>6. CASE HandleFrame
    <3>1. PICK whole \in Nat, rest \in Nat, pauses \in BOOLEAN, q \in Seq(Message),
               p \in Message, ack \in Message : Stores(whole, rest, pauses, q, p, ack)
      BY <2>6, HandleFrameEffect
    <3>2. QED
      BY <1>1, <3>1 DEF Stores
  <2>7. CASE HandleEnd
    BY <1>1, <2>7, HandleEndEffect
  <2>8. CASE TakeChunk
    BY <1>1, <2>8, TakeEffect DEF Takes
  <2>9. CASE WorkerEnds
    BY <1>1, <2>9, EndsEffect DEF Ends
  <2>10. CASE Send
    BY <1>1, <2>10, SendEffect
  <2>11. CASE Detach
    <3>1. handler' \in HandlerType
      BY <1>1, <2>11 DEF Detach, HandlerType
    <3>2. QED
      BY <1>1, <2>11, <3>1 DEF Detach
  <2>12. CASE Release
    BY <1>1, <2>12, IdleType DEF Release, clientSide
  <2>13. QED
    BY <1>4, <2>1, <2>2, <2>3, <2>4, <2>5, <2>6, <2>7, <2>8, <2>9, <2>10, <2>11,
       <2>12
       DEF Server
<1>5. ASSUME ServerFails PROVE Rest
  BY <1>1, <1>5, ServerFailsEffect
<1>6. ASSUME ServerRestarts PROVE Rest
  <2>1. faults' \in 0..MaxFaults
    <3>1. MaxFaults \in Nat /\ faults < MaxFaults /\ faults' = faults + 1
      BY <1>6, Numbers DEF ServerRestarts
    <3>2. QED
      BY <1>1, <3>1
  <2>2. session' \in SessionType
    BY <1>1, <1>6 DEF ServerRestarts, SessionType
  <2>3. QED
    BY <1>1, <1>6, <2>1, <2>2, IdleType DEF ServerRestarts
<1>7. Rest
  BY <1>3, <1>4, <1>5, <1>6 DEF Next
<1>8. QED
  BY <1>2, <1>7 DEF TypeOK, ClientType, HandlerType, SessionType

LEMMA PrimedQueues ==
  ASSUME Wired, Next
  PROVE  /\ Len(to_server') \in Nat /\ (Len(to_server') = 0 <=> to_server' = << >>)
         /\ Len(to_client') \in Nat /\ (Len(to_client') = 0 <=> to_client' = << >>)
         /\ Len(outgoing') \in Nat /\ (Len(outgoing') = 0 <=> outgoing' = << >>)
<1>1. /\ to_server' \in Seq(Message) /\ to_client' \in Seq(Message)
      /\ outgoing' \in Seq(Message)
  BY TypeKept DEF TypeOK
<1>2. QED
  BY <1>1, Elements

\* The message that the handler, or the gate, reads next.
LEMMA FirstRequest ==
  ASSUME Wired, to_server # << >>
  PROVE  LET m == to_server[1] IN
         /\ connected
         /\ m.type \in {"start", "continue", "frame", "end"}
         /\ m.type = "start" =>
              /\ Len(to_server) = 1 /\ client.stage = "starting"
              /\ handler.at = "idle"
              /\ Len(to_client) = 0
         /\ m.type = "continue" =>
              /\ Len(to_server) = 1 /\ client.stage = "resuming"
              /\ ~handler.attached
              /\ Len(to_client) = 0 /\ m.value = client.last_sequence
         /\ m.type \in {"frame", "end"} =>
              /\ client.stage \in Talking
              /\ handler.attached /\ handler.at \in {"replaying", "serving"}
         /\ m.type = "end" => Len(to_server) = 1 /\ client.stage = "ending"
<1>1. 1 \in 1..Len(to_server)
  <2>1. Len(to_server) \in Nat /\ Len(to_server) # 0
    BY Types, Elements DEF Wired
  <2>2. QED
    BY <2>1
<1>2. QED
  BY <1>1 DEF Wired, ToServer

LEMMA ClientShapeKept ==
  ASSUME Wired, Next
  PROVE  ClientShape'
<1>1. /\ client \in ClientType /\ handler \in HandlerType
      /\ to_server \in Seq(Message) /\ to_client \in Seq(Message)
  BY Types DEF Wired
<1>2. ClientShape /\ Gone
  BY DEF Wired
<1>3. total_samples \in Nat
  BY Numbers
<1>4. CASE Fails
  BY <1>1, <1>2, <1>3, <1>4, CloseEffect
     DEF ClientType, ClientShape, Gone, Stages, Talking, Arriving, EventTypes, Fails
<1>5. CASE Consume
  BY <1>1, <1>2, <1>3, <1>5, ConsumeEffect
     DEF ClientType, ClientShape, Gone, Stages, Talking, Arriving, EventTypes,
         Dropped
<1>6. CASE ReceiverBreaks
  BY <1>1, <1>2, <1>3, <1>6
     DEF ClientType, ClientShape, Gone, Stages, Talking, Arriving, EventTypes,
         ReceiverBreaks, Reading
<1>7. CASE ReceiveReady
  BY <1>1, <1>2, <1>3, <1>7, ReceiveReadyEffect
     DEF ClientType, ClientShape, Gone, Stages, Talking, Arriving, EventTypes,
         Dropped, SameBut
<1>8. CASE CheckReceiver
  BY <1>1, <1>2, <1>3, <1>8
     DEF ClientType, ClientShape, Gone, Stages, Talking, Arriving, EventTypes,
         CheckReceiver, serverVars
<1>9. CASE SendBlock /\ connected
  <2>1. PICK samples \in Nat \ {0} :
          /\ client.sent + samples <= total_samples /\ samples <= client.frame
          /\ client' = [client EXCEPT !.stage = "sending", !.sent = @ + samples]
          /\ Added(to_server, to_server', Msg("frame", samples))
          /\ Msg("frame", samples).type = "frame"
          /\ Msg("frame", samples).value = samples
    BY <1>1, <1>9, SendBlockEffect DEF FrameSent
  <2>2. QED
    BY <1>1, <1>2, <1>3, <1>9, <2>1, SendBlockEffect
       DEF ClientType, ClientShape, Gone, Stages, Talking, Arriving, EventTypes,
           Dropped
<1>10. CASE SendEnd /\ connected
  BY <1>1, <1>2, <1>3, <1>10, SendEndEffect
     DEF ClientType, ClientShape, Gone, Stages, Talking, Arriving, EventTypes,
         Dropped
<1>11. CASE SessionResult
  BY <1>1, <1>2, <1>3, <1>11, CloseEffect, ZenonT(30)
     DEF ClientType, ClientShape, Gone, Stages, Talking, Arriving, EventTypes,
         SessionResult
<1>12. CASE SendFrame /\ connected
  <2>1. PICK samples \in Nat \ {0} :
          /\ client.sent + samples <= total_samples /\ samples <= client.frame
          /\ client' = [client EXCEPT !.stage = "waiting", !.sent = @ + samples]
          /\ Added(to_server, to_server', Msg("frame", samples))
          /\ Msg("frame", samples).type = "frame"
          /\ Msg("frame", samples).value = samples
    BY <1>1, <1>12, SendFrameEffect DEF FrameSent
  <2>2. QED
    BY <1>1, <1>2, <1>3, <1>12, <2>1, SendFrameEffect
       DEF ClientType, ClientShape, Gone, Stages, Talking, Arriving, EventTypes,
           Dropped
<1>13. CASE Disconnects
  BY <1>1, <1>2, <1>3, <1>13, CloseEffect
     DEF ClientType, ClientShape, Gone, Stages, Talking, Arriving, EventTypes,
         Disconnects, Drained
<1>14. CASE AskResume
  BY <1>1, <1>2, <1>3, <1>14, AskResumeEffect
     DEF ClientType, ClientShape, Gone, Stages, Talking, Arriving, EventTypes,
         Dropped
<1>15. CASE Retries
  BY <1>1, <1>2, <1>3, <1>15, CloseEffect
     DEF ClientType, ClientShape, Gone, Stages, Talking, Arriving, EventTypes,
         Retries
<1>16. CASE ProbeResult
  BY <1>1, <1>2, <1>3, <1>16, CloseEffect
     DEF ClientType, ClientShape, Gone, Stages, Talking, Arriving, EventTypes,
         ProbeResult
<1>17. CASE StartSession
  BY <1>1, <1>2, <1>3, <1>17, StartEffect, FirstRequest
     DEF ClientType, ClientShape, Gone, Stages, Talking, Arriving, EventTypes,
         Dropped, Idle
<1>18. CASE RefuseResume
  BY <1>1, <1>2, <1>3, <1>18, RefuseEffect, FirstRequest
     DEF ClientType, ClientShape, Gone, Stages, Talking, Arriving, EventTypes,
         Dropped
<1>19. CASE OpenResume
  BY <1>1, <1>2, <1>3, <1>19, OpenEffect, FirstRequest
     DEF ClientType, ClientShape, Gone, Stages, Talking, Arriving, EventTypes,
         Dropped
<1>20. CASE Ready
  BY <1>1, <1>2, <1>3, <1>20, ReadyEffect
     DEF ClientType, ClientShape, Gone, Stages, Talking, Arriving, EventTypes,
         Dropped
<1>21. CASE QueueReplay
  BY <1>1, <1>2, <1>3, <1>21, QueueReplayEffect
     DEF ClientType, ClientShape, Gone, Stages, Talking, Arriving, EventTypes,
         Dropped
<1>22. CASE HandleFrame
  <2>1. PICK whole \in Nat, rest \in Nat, pauses \in BOOLEAN, q \in Seq(Message),
             p \in Message, ack \in Message : Stores(whole, rest, pauses, q, p, ack)
    BY <1>1, <1>22, HandleFrameEffect, FirstRequest
  <2>2. QED
    BY <1>1, <1>2, <1>3, <2>1
       DEF ClientType, ClientShape, Gone, Stages, Talking, Arriving, EventTypes,
           Dropped, Stores
<1>23. CASE HandleEnd
  BY <1>1, <1>2, <1>3, <1>23, HandleEndEffect, FirstRequest
     DEF ClientType, ClientShape, Gone, Stages, Talking, Arriving, EventTypes,
         Dropped
<1>24. CASE TakeChunk
  <2>1. PICK q \in Seq(Message), flow \in Message, event \in Message,
             kind \in {"nothing", "partial", "commit"}, drops \in BOOLEAN :
               Takes(q, flow, event, kind, drops)
    BY <1>1, <1>24, TakeEffect
  <2>2. QED
    BY <1>1, <1>2, <1>3, <2>1
       DEF ClientType, ClientShape, Gone, Stages, Talking, Arriving, EventTypes,
           Dropped, Takes, Running
<1>25. CASE WorkerEnds
  BY <1>1, <1>2, <1>3, <1>25, EndsEffect
     DEF ClientType, ClientShape, Gone, Stages, Talking, Arriving, EventTypes,
         Dropped, Ends
<1>26. CASE Send
  BY <1>1, <1>2, <1>3, <1>26, SendEffect
     DEF ClientType, ClientShape, Gone, Stages, Talking, Arriving, EventTypes,
         Dropped
<1>27. CASE Detach
  BY <1>1, <1>2, <1>3, <1>27
     DEF ClientType, ClientShape, Gone, Stages, Talking, Arriving, EventTypes,
         Detach, Running
<1>28. CASE Release
  BY <1>1, <1>2, <1>3, <1>28
     DEF ClientType, ClientShape, Gone, Stages, Talking, Arriving, EventTypes,
         Release, Idle, clientSide
<1>29. CASE ServerFails
  BY <1>1, <1>2, <1>3, <1>29, ServerFailsEffect, ZenonT(30)
     DEF ClientType, ClientShape, Gone, Stages, Talking, Arriving, EventTypes,
         Dropped, Running
<1>30. CASE ServerRestarts
  BY <1>1, <1>2, <1>3, <1>30
     DEF ClientType, ClientShape, Gone, Stages, Talking, Arriving, EventTypes,
         ServerRestarts, Idle
<1>31. QED
  BY <1>4, <1>5, <1>6, <1>7, <1>8, <1>9, <1>10, <1>11, <1>12, <1>13, <1>14, <1>15,
     <1>16, <1>17, <1>18, <1>19, <1>20, <1>21, <1>22, <1>23, <1>24, <1>25, <1>26,
     <1>27, <1>28, <1>29, <1>30, GateSteps
     DEF Next, GateStep, Server

LEMMA GoneKept ==
  ASSUME Wired, Next
  PROVE  Gone'
<1>1. /\ client \in ClientType /\ handler \in HandlerType
      /\ to_server \in Seq(Message) /\ to_client \in Seq(Message)
  BY Types DEF Wired
<1>2. ClientShape /\ Gone /\ ToServer
  BY DEF Wired
<1>3. Len(to_server) = 0 <=> to_server = << >>
  BY <1>1, Elements
<1>4. CASE Fails
  BY <1>1, <1>2, <1>3, <1>4, CloseEffect
     DEF ClientType, HandlerType, ClientShape, Gone, Stages, Talking, Arriving,
         ToServer, Fails
<1>5. CASE Consume
  BY <1>1, <1>2, <1>3, <1>5, ConsumeEffect
     DEF ClientType, HandlerType, ClientShape, Gone, Stages, Talking, Arriving,
         ToServer, Dropped
<1>6. CASE ReceiverBreaks
  BY <1>1, <1>2, <1>3, <1>6
     DEF ClientType, HandlerType, ClientShape, Gone, Stages, Talking, Arriving,
         ToServer, ReceiverBreaks, Reading
<1>7. CASE ReceiveReady
  BY <1>1, <1>2, <1>3, <1>7, ReceiveReadyEffect
     DEF ClientType, HandlerType, ClientShape, Gone, Stages, Talking, Arriving,
         ToServer, Dropped, SameBut
<1>8. CASE CheckReceiver
  BY <1>1, <1>2, <1>3, <1>8
     DEF ClientType, HandlerType, ClientShape, Gone, Stages, Talking, Arriving,
         ToServer, CheckReceiver, serverVars
<1>9. CASE SendBlock /\ connected
  <2>1. PICK samples \in Nat \ {0} :
          /\ client.sent + samples <= total_samples /\ samples <= client.frame
          /\ client' = [client EXCEPT !.stage = "sending", !.sent = @ + samples]
          /\ Added(to_server, to_server', Msg("frame", samples))
          /\ Msg("frame", samples).type = "frame"
          /\ Msg("frame", samples).value = samples
    BY <1>1, <1>9, SendBlockEffect DEF FrameSent
  <2>2. QED
    BY <1>1, <1>2, <1>3, <1>9, <2>1, SendBlockEffect
       DEF ClientType, HandlerType, ClientShape, Gone, Stages, Talking, Arriving,
           ToServer, Dropped
<1>10. CASE SendEnd /\ connected
  BY <1>1, <1>2, <1>3, <1>10, SendEndEffect
     DEF ClientType, HandlerType, ClientShape, Gone, Stages, Talking, Arriving,
         ToServer, Dropped
<1>11. CASE SessionResult
  BY <1>1, <1>2, <1>3, <1>11, CloseEffect
     DEF ClientType, HandlerType, ClientShape, Gone, Stages, Talking, Arriving,
         ToServer, SessionResult
<1>12. CASE SendFrame /\ connected
  <2>1. PICK samples \in Nat \ {0} :
          /\ client.sent + samples <= total_samples /\ samples <= client.frame
          /\ client' = [client EXCEPT !.stage = "waiting", !.sent = @ + samples]
          /\ Added(to_server, to_server', Msg("frame", samples))
          /\ Msg("frame", samples).type = "frame"
          /\ Msg("frame", samples).value = samples
    BY <1>1, <1>12, SendFrameEffect DEF FrameSent
  <2>2. QED
    BY <1>1, <1>2, <1>3, <1>12, <2>1, SendFrameEffect
       DEF ClientType, HandlerType, ClientShape, Gone, Stages, Talking, Arriving,
           ToServer, Dropped
<1>13. CASE Disconnects
  BY <1>1, <1>2, <1>3, <1>13, CloseEffect
     DEF ClientType, HandlerType, ClientShape, Gone, Stages, Talking, Arriving,
         ToServer, Disconnects, Drained
<1>14. CASE AskResume
  BY <1>1, <1>2, <1>3, <1>14, AskResumeEffect
     DEF ClientType, HandlerType, ClientShape, Gone, Stages, Talking, Arriving,
         ToServer, Dropped
<1>15. CASE Retries
  BY <1>1, <1>2, <1>3, <1>15, CloseEffect
     DEF ClientType, HandlerType, ClientShape, Gone, Stages, Talking, Arriving,
         ToServer, Retries
<1>16. CASE ProbeResult
  BY <1>1, <1>2, <1>3, <1>16, CloseEffect
     DEF ClientType, HandlerType, ClientShape, Gone, Stages, Talking, Arriving,
         ToServer, ProbeResult
<1>17. CASE StartSession
  BY <1>1, <1>2, <1>3, <1>17, StartEffect, FirstRequest
     DEF ClientType, HandlerType, ClientShape, Gone, Stages, Talking, Arriving,
         ToServer, Dropped, Idle
<1>18. CASE RefuseResume
  BY <1>1, <1>2, <1>3, <1>18, RefuseEffect, FirstRequest
     DEF ClientType, HandlerType, ClientShape, Gone, Stages, Talking, Arriving,
         ToServer, Dropped
<1>19. CASE OpenResume
  BY <1>1, <1>2, <1>3, <1>19, OpenEffect, FirstRequest
     DEF ClientType, HandlerType, ClientShape, Gone, Stages, Talking, Arriving,
         ToServer, Dropped
<1>20. CASE Ready
  BY <1>1, <1>2, <1>3, <1>20, ReadyEffect
     DEF ClientType, HandlerType, ClientShape, Gone, Stages, Talking, Arriving,
         ToServer, Dropped
<1>21. CASE QueueReplay
  BY <1>1, <1>2, <1>3, <1>21, QueueReplayEffect
     DEF ClientType, HandlerType, ClientShape, Gone, Stages, Talking, Arriving,
         ToServer, Dropped
<1>22. CASE HandleFrame
  <2>1. PICK whole \in Nat, rest \in Nat, pauses \in BOOLEAN, q \in Seq(Message),
             p \in Message, ack \in Message : Stores(whole, rest, pauses, q, p, ack)
    BY <1>1, <1>22, HandleFrameEffect, FirstRequest
  <2>2. QED
    BY <1>1, <1>2, <1>3, <2>1
       DEF ClientType, HandlerType, ClientShape, Gone, Stages, Talking, Arriving,
           ToServer, Dropped, Stores
<1>23. CASE HandleEnd
  BY <1>1, <1>2, <1>3, <1>23, HandleEndEffect, FirstRequest
     DEF ClientType, HandlerType, ClientShape, Gone, Stages, Talking, Arriving,
         ToServer, Dropped
<1>24. CASE TakeChunk
  <2>1. PICK q \in Seq(Message), flow \in Message, event \in Message,
             kind \in {"nothing", "partial", "commit"}, drops \in BOOLEAN :
               Takes(q, flow, event, kind, drops)
    BY <1>1, <1>24, TakeEffect
  <2>2. QED
    BY <1>1, <1>2, <1>3, <2>1
       DEF ClientType, HandlerType, ClientShape, Gone, Stages, Talking, Arriving,
           ToServer, Dropped, Takes, Running
<1>25. CASE WorkerEnds
  BY <1>1, <1>2, <1>3, <1>25, EndsEffect
     DEF ClientType, HandlerType, ClientShape, Gone, Stages, Talking, Arriving,
         ToServer, Dropped, Ends
<1>26. CASE Send
  BY <1>1, <1>2, <1>3, <1>26, SendEffect
     DEF ClientType, HandlerType, ClientShape, Gone, Stages, Talking, Arriving,
         ToServer, Dropped
<1>27. CASE Detach
  BY <1>1, <1>2, <1>3, <1>27
     DEF ClientType, HandlerType, ClientShape, Gone, Stages, Talking, Arriving,
         ToServer, Detach, Running
<1>28. CASE Release
  BY <1>1, <1>2, <1>3, <1>28
     DEF ClientType, HandlerType, ClientShape, Gone, Stages, Talking, Arriving,
         ToServer, Release, Idle, clientSide
<1>29. CASE ServerFails
  BY <1>1, <1>2, <1>3, <1>29, ServerFailsEffect
     DEF ClientType, HandlerType, ClientShape, Gone, Stages, Talking, Arriving,
         ToServer, Dropped, Running
<1>30. CASE ServerRestarts
  BY <1>1, <1>2, <1>3, <1>30
     DEF ClientType, HandlerType, ClientShape, Gone, Stages, Talking, Arriving,
         ToServer, ServerRestarts, Idle
<1>31. QED
  BY <1>4, <1>5, <1>6, <1>7, <1>8, <1>9, <1>10, <1>11, <1>12, <1>13, <1>14, <1>15,
     <1>16, <1>17, <1>18, <1>19, <1>20, <1>21, <1>22, <1>23, <1>24, <1>25, <1>26,
     <1>27, <1>28, <1>29, <1>30, GateSteps
     DEF Next, GateStep, Server

LEMMA AttachedKept ==
  ASSUME Wired, Next
  PROVE  Attached'
<1>1. /\ client \in ClientType /\ handler \in HandlerType
      /\ to_server \in Seq(Message) /\ to_client \in Seq(Message)
  BY Types DEF Wired
<1>2. ClientShape /\ Gone /\ Attached /\ Answered
  BY DEF Wired
<1>3. /\ Len(to_server) = 0 <=> to_server = << >>
      /\ Len(to_client) \in Nat /\ (Len(to_client) = 0 <=> to_client = << >>)
      /\ Len(to_server') \in Nat /\ (Len(to_server') = 0 <=> to_server' = << >>)
  BY <1>1, Elements, PrimedQueues
<1>4. CASE Fails
  BY <1>1, <1>2, <1>3, <1>4, CloseEffect
     DEF ClientType, HandlerType, ClientShape, Gone, Attached, Answered, Stages,
         Talking, Arriving, Fails
<1>5. CASE Consume
  BY <1>1, <1>2, <1>3, <1>5, ConsumeEffect
     DEF ClientType, HandlerType, ClientShape, Gone, Attached, Answered, Stages,
         Talking, Arriving, Dropped
<1>6. CASE ReceiverBreaks
  BY <1>1, <1>2, <1>3, <1>6
     DEF ClientType, HandlerType, ClientShape, Gone, Attached, Answered, Stages,
         Talking, Arriving, ReceiverBreaks, Reading
<1>7. CASE ReceiveReady
  <2>1. /\ client.stage \in Arriving /\ client'.stage = "sending"
        /\ Len(to_client) > 0
        /\ UNCHANGED <<connected, to_server, handler>>
    BY <1>7, ReceiveReadyEffect DEF Dropped
  <2>2. QED
    BY <1>1, <1>2, <1>3, <2>1 DEF Attached, Answered, Talking, Arriving, HandlerType
<1>8. CASE CheckReceiver
  BY <1>1, <1>2, <1>3, <1>8
     DEF ClientType, HandlerType, ClientShape, Gone, Attached, Answered, Stages,
         Talking, Arriving, CheckReceiver, serverVars
<1>9. CASE SendBlock /\ connected
  <2>1. PICK samples \in Nat \ {0} :
          /\ client.sent + samples <= total_samples /\ samples <= client.frame
          /\ client' = [client EXCEPT !.stage = "sending", !.sent = @ + samples]
          /\ Added(to_server, to_server', Msg("frame", samples))
          /\ Msg("frame", samples).type = "frame"
          /\ Msg("frame", samples).value = samples
    BY <1>1, <1>9, SendBlockEffect DEF FrameSent
  <2>2. QED
    BY <1>1, <1>2, <1>3, <1>9, <2>1, SendBlockEffect
       DEF ClientType, HandlerType, ClientShape, Gone, Attached, Answered, Stages,
           Talking, Arriving, Dropped
<1>10. CASE SendEnd /\ connected
  BY <1>1, <1>2, <1>3, <1>10, SendEndEffect
     DEF ClientType, HandlerType, ClientShape, Gone, Attached, Answered, Stages,
         Talking, Arriving, Dropped
<1>11. CASE SessionResult
  BY <1>1, <1>2, <1>3, <1>11, CloseEffect
     DEF ClientType, HandlerType, ClientShape, Gone, Attached, Answered, Stages,
         Talking, Arriving, SessionResult
<1>12. CASE SendFrame /\ connected
  <2>1. PICK samples \in Nat \ {0} :
          /\ client.sent + samples <= total_samples /\ samples <= client.frame
          /\ client' = [client EXCEPT !.stage = "waiting", !.sent = @ + samples]
          /\ Added(to_server, to_server', Msg("frame", samples))
          /\ Msg("frame", samples).type = "frame"
          /\ Msg("frame", samples).value = samples
    BY <1>1, <1>12, SendFrameEffect DEF FrameSent
  <2>2. QED
    BY <1>1, <1>2, <1>3, <1>12, <2>1, SendFrameEffect
       DEF ClientType, HandlerType, ClientShape, Gone, Attached, Answered, Stages,
           Talking, Arriving, Dropped
<1>13. CASE Disconnects
  BY <1>1, <1>2, <1>3, <1>13, CloseEffect
     DEF ClientType, HandlerType, ClientShape, Gone, Attached, Answered, Stages,
         Talking, Arriving, Disconnects, Drained
<1>14. CASE AskResume
  BY <1>1, <1>2, <1>3, <1>14, AskResumeEffect
     DEF ClientType, HandlerType, ClientShape, Gone, Attached, Answered, Stages,
         Talking, Arriving, Dropped
<1>15. CASE Retries
  BY <1>1, <1>2, <1>3, <1>15, CloseEffect
     DEF ClientType, HandlerType, ClientShape, Gone, Attached, Answered, Stages,
         Talking, Arriving, Retries
<1>16. CASE ProbeResult
  BY <1>1, <1>2, <1>3, <1>16, CloseEffect
     DEF ClientType, HandlerType, ClientShape, Gone, Attached, Answered, Stages,
         Talking, Arriving, ProbeResult
<1>17. CASE StartSession
  BY <1>1, <1>2, <1>3, <1>17, StartEffect, FirstRequest
     DEF ClientType, HandlerType, ClientShape, Gone, Attached, Answered, Stages,
         Talking, Arriving, Dropped, Idle
<1>18. CASE RefuseResume
  BY <1>1, <1>2, <1>3, <1>18, RefuseEffect, FirstRequest
     DEF ClientType, HandlerType, ClientShape, Gone, Attached, Answered, Stages,
         Talking, Arriving, Dropped
<1>19. CASE OpenResume
  BY <1>1, <1>2, <1>3, <1>19, OpenEffect, FirstRequest, SMTT(30)
     DEF ClientType, HandlerType, ClientShape, Gone, Attached, Answered, Stages,
         Talking, Arriving, Dropped
<1>20. CASE Ready
  BY <1>1, <1>2, <1>3, <1>20, ReadyEffect
     DEF ClientType, HandlerType, ClientShape, Gone, Attached, Answered, Stages,
         Talking, Arriving, Dropped
<1>21. CASE QueueReplay
  BY <1>1, <1>2, <1>3, <1>21, QueueReplayEffect, SMTT(30)
     DEF ClientType, HandlerType, ClientShape, Gone, Attached, Answered, Stages,
         Talking, Arriving, Dropped
<1>22. CASE HandleFrame
  <2>1. PICK whole \in Nat, rest \in Nat, pauses \in BOOLEAN, q \in Seq(Message),
             p \in Message, ack \in Message : Stores(whole, rest, pauses, q, p, ack)
    BY <1>1, <1>22, HandleFrameEffect, FirstRequest
  <2>2. QED
    BY <1>1, <1>2, <1>3, <2>1, ZenonT(30)
       DEF ClientType, HandlerType, ClientShape, Gone, Attached, Answered, Stages,
           Talking, Arriving, Dropped, Stores
<1>23. CASE HandleEnd
  <2>1. /\ handler.attached /\ handler.at = "serving" /\ client.stage = "ending"
        /\ handler'.at = "finishing" /\ handler'.attached /\ Len(to_server') = 0
        /\ UNCHANGED <<client, connected>>
    BY <1>23, HandleEndEffect, FirstRequest DEF Dropped
  <2>2. QED
    BY <1>2, <1>3, <2>1 DEF Attached, Talking
<1>24. CASE TakeChunk
  <2>1. PICK q \in Seq(Message), flow \in Message, event \in Message,
             kind \in {"nothing", "partial", "commit"}, drops \in BOOLEAN :
               Takes(q, flow, event, kind, drops)
    BY <1>1, <1>24, TakeEffect
  <2>2. QED
    BY <1>1, <1>2, <1>3, <2>1
       DEF ClientType, HandlerType, ClientShape, Gone, Attached, Answered, Stages,
           Talking, Arriving, Dropped, Takes, Running
<1>25. CASE WorkerEnds
  BY <1>1, <1>2, <1>3, <1>25, EndsEffect, ZenonT(30)
     DEF ClientType, HandlerType, ClientShape, Gone, Attached, Answered, Stages,
         Talking, Arriving, Dropped, Ends
<1>26. CASE Send
  BY <1>1, <1>2, <1>3, <1>26, SendEffect
     DEF ClientType, HandlerType, ClientShape, Gone, Attached, Answered, Stages,
         Talking, Arriving, Dropped
<1>27. CASE Detach
  BY <1>1, <1>2, <1>3, <1>27
     DEF ClientType, HandlerType, ClientShape, Gone, Attached, Answered, Stages,
         Talking, Arriving, Detach, Running
<1>28. CASE Release
  BY <1>1, <1>2, <1>3, <1>28
     DEF ClientType, HandlerType, ClientShape, Gone, Attached, Answered, Stages,
         Talking, Arriving, Release, Idle, clientSide
<1>29. CASE ServerFails
  BY <1>1, <1>2, <1>3, <1>29, ServerFailsEffect, ZenonT(30)
     DEF ClientType, HandlerType, ClientShape, Gone, Attached, Answered, Stages,
         Talking, Arriving, Dropped, Running
<1>30. CASE ServerRestarts
  BY <1>1, <1>2, <1>3, <1>30
     DEF ClientType, HandlerType, ClientShape, Gone, Attached, Answered, Stages,
         Talking, Arriving, ServerRestarts, Idle
<1>31. QED
  BY <1>4, <1>5, <1>6, <1>7, <1>8, <1>9, <1>10, <1>11, <1>12, <1>13, <1>14, <1>15,
     <1>16, <1>17, <1>18, <1>19, <1>20, <1>21, <1>22, <1>23, <1>24, <1>25, <1>26,
     <1>27, <1>28, <1>29, <1>30, GateSteps
     DEF Next, GateStep, Server

LEMMA AnsweredKept ==
  ASSUME Wired, Next
  PROVE  Answered'
<1>1. /\ client \in ClientType /\ handler \in HandlerType
      /\ to_server \in Seq(Message) /\ to_client \in Seq(Message)
  BY Types DEF Wired
<1>2. ClientShape /\ Gone /\ Attached /\ Answered
  BY DEF Wired
<1>3. /\ Len(to_server) \in Nat /\ (Len(to_server) = 0 <=> to_server = << >>)
      /\ Len(to_client) \in Nat /\ (Len(to_client) = 0 <=> to_client = << >>)
  BY <1>1, Elements
<1>4. Len(to_server') \in Nat /\ Len(to_client') \in Nat
  BY PrimedQueues
<1>5. CASE Fails
  BY <1>1, <1>2, <1>3, <1>4, <1>5, CloseEffect
     DEF ClientType, HandlerType, ClientShape, Gone, Attached, Answered, Stages,
         Talking, Arriving, Fails
<1>6. CASE Consume
  BY <1>1, <1>2, <1>3, <1>4, <1>6, ConsumeEffect, SMTT(30)
     DEF ClientType, HandlerType, ClientShape, Gone, Attached, Answered, Stages,
         Talking, Arriving, Dropped, Added
<1>7. CASE ReceiverBreaks
  BY <1>1, <1>2, <1>3, <1>4, <1>7
     DEF ClientType, HandlerType, ClientShape, Gone, Attached, Answered, Stages,
         Talking, Arriving, ReceiverBreaks, Reading
<1>8. CASE ReceiveReady
  BY <1>1, <1>2, <1>3, <1>4, <1>8, ReceiveReadyEffect
     DEF ClientType, HandlerType, ClientShape, Gone, Attached, Answered, Stages,
         Talking, Arriving, Dropped, Added, SameBut
<1>9. CASE CheckReceiver
  BY <1>1, <1>2, <1>3, <1>4, <1>9
     DEF ClientType, HandlerType, ClientShape, Gone, Attached, Answered, Stages,
         Talking, Arriving, CheckReceiver, serverVars
<1>10. CASE SendBlock /\ connected
  <2>1. PICK samples \in Nat \ {0} :
          /\ client.sent + samples <= total_samples /\ samples <= client.frame
          /\ client' = [client EXCEPT !.stage = "sending", !.sent = @ + samples]
          /\ Added(to_server, to_server', Msg("frame", samples))
          /\ Msg("frame", samples).type = "frame"
          /\ Msg("frame", samples).value = samples
    BY <1>1, <1>10, SendBlockEffect DEF FrameSent
  <2>2. QED
    BY <1>1, <1>2, <1>3, <1>4, <1>10, <2>1, SendBlockEffect
       DEF ClientType, HandlerType, ClientShape, Gone, Attached, Answered, Stages,
           Talking, Arriving, Dropped, Added
<1>11. CASE SendEnd /\ connected
  BY <1>1, <1>2, <1>3, <1>4, <1>11, SendEndEffect
     DEF ClientType, HandlerType, ClientShape, Gone, Attached, Answered, Stages,
         Talking, Arriving, Dropped, Added
<1>12. CASE SessionResult
  BY <1>1, <1>2, <1>3, <1>4, <1>12, CloseEffect
     DEF ClientType, HandlerType, ClientShape, Gone, Attached, Answered, Stages,
         Talking, Arriving, SessionResult
<1>13. CASE SendFrame /\ connected
  <2>1. PICK samples \in Nat \ {0} :
          /\ client.sent + samples <= total_samples /\ samples <= client.frame
          /\ client' = [client EXCEPT !.stage = "waiting", !.sent = @ + samples]
          /\ Added(to_server, to_server', Msg("frame", samples))
          /\ Msg("frame", samples).type = "frame"
          /\ Msg("frame", samples).value = samples
    BY <1>1, <1>13, SendFrameEffect DEF FrameSent
  <2>2. QED
    BY <1>1, <1>2, <1>3, <1>4, <1>13, <2>1, SendFrameEffect
       DEF ClientType, HandlerType, ClientShape, Gone, Attached, Answered, Stages,
           Talking, Arriving, Dropped, Added
<1>14. CASE Disconnects
  BY <1>1, <1>2, <1>3, <1>4, <1>14, CloseEffect
     DEF ClientType, HandlerType, ClientShape, Gone, Attached, Answered, Stages,
         Talking, Arriving, Disconnects, Drained
<1>15. CASE AskResume
  BY <1>1, <1>2, <1>3, <1>4, <1>15, AskResumeEffect
     DEF ClientType, HandlerType, ClientShape, Gone, Attached, Answered, Stages,
         Talking, Arriving, Dropped, Added
<1>16. CASE Retries
  BY <1>1, <1>2, <1>3, <1>4, <1>16, CloseEffect
     DEF ClientType, HandlerType, ClientShape, Gone, Attached, Answered, Stages,
         Talking, Arriving, Retries
<1>17. CASE ProbeResult
  BY <1>1, <1>2, <1>3, <1>4, <1>17, CloseEffect
     DEF ClientType, HandlerType, ClientShape, Gone, Attached, Answered, Stages,
         Talking, Arriving, ProbeResult
<1>18. CASE StartSession
  <2>1. /\ to_server # << >> /\ to_server[1].type = "start"
        /\ Dropped(to_server, to_server')
        /\ handler'.at = "serving" /\ handler'.attached = TRUE
        /\ Added(to_client, to_client', Msg("ready", 0))
        /\ Msg("ready", 0).type = "ready"
    BY <1>18, StartEffect
  <2>2. Len(to_client) = 0 /\ Len(to_server') = 0
    <3>1. Len(to_client) = 0 /\ Len(to_server) = 1
      BY <2>1, FirstRequest
    <3>2. QED
      BY <2>1, <3>1 DEF Dropped
  <2>3. Len(to_client') > 0 /\ to_client'[1].type = "ready"
    BY <2>1, <2>2 DEF Added
  <2>4. QED
    BY <1>4, <2>1, <2>2, <2>3 DEF Answered
<1>19. CASE RefuseResume
  BY <1>1, <1>2, <1>3, <1>4, <1>19, RefuseEffect, FirstRequest
     DEF ClientType, HandlerType, ClientShape, Gone, Attached, Answered, Stages,
         Talking, Arriving, Dropped, Added
<1>20. CASE OpenResume
  <2>1. /\ Len(to_client) = 0 /\ Len(to_server') = 0 /\ handler'.at = "starting"
        /\ UNCHANGED <<client, to_client>>
    BY <1>20, OpenEffect, FirstRequest DEF Dropped
  <2>2. QED
    BY <1>4, <2>1 DEF Answered
<1>21. CASE Ready
  <2>1. /\ handler.at = "starting" /\ handler.attached /\ handler'.at = "replaying"
        /\ handler'.attached
        /\ Added(to_client, to_client', Msg("ready", session.chunks))
        /\ Msg("ready", session.chunks).type = "ready"
        /\ UNCHANGED <<client, to_server>>
    BY <1>21, ReadyEffect
  <2>2. client.stage \in Arriving =>
          Len(to_server) = 0 /\ Len(to_client') > 0 /\ to_client'[1].type = "ready"
    BY <1>2, <1>1, <1>2, <1>3, <1>4, <2>1 DEF Answered, Added
  <2>3. QED
    BY <1>4, <2>1, <2>2 DEF Answered
<1>22. CASE QueueReplay
  BY <1>1, <1>2, <1>3, <1>4, <1>22, QueueReplayEffect
     DEF ClientType, HandlerType, ClientShape, Gone, Attached, Answered, Stages,
         Talking, Arriving, Dropped, Added
<1>23. CASE HandleFrame
  <2>1. PICK whole \in Nat, rest \in Nat, pauses \in BOOLEAN, q \in Seq(Message),
             p \in Message, ack \in Message : Stores(whole, rest, pauses, q, p, ack)
    BY <1>1, <1>23, HandleFrameEffect, FirstRequest
  <2>2. QED
    BY <1>1, <1>2, <1>3, <1>4, <2>1
       DEF ClientType, HandlerType, ClientShape, Gone, Attached, Answered, Stages,
           Talking, Arriving, Dropped, Added, Stores
<1>24. CASE HandleEnd
  BY <1>1, <1>2, <1>3, <1>4, <1>24, HandleEndEffect, FirstRequest
     DEF ClientType, HandlerType, ClientShape, Gone, Attached, Answered, Stages,
         Talking, Arriving, Dropped, Added
<1>25. CASE TakeChunk
  <2>1. PICK q \in Seq(Message), flow \in Message, event \in Message,
             kind \in {"nothing", "partial", "commit"}, drops \in BOOLEAN :
               Takes(q, flow, event, kind, drops)
    BY <1>1, <1>25, TakeEffect
  <2>2. QED
    BY <1>1, <1>2, <1>3, <1>4, <2>1
       DEF ClientType, HandlerType, ClientShape, Gone, Attached, Answered, Stages,
           Talking, Arriving, Dropped, Added, Takes, Running
<1>26. CASE WorkerEnds
  BY <1>1, <1>2, <1>3, <1>4, <1>26, EndsEffect, ZenonT(30)
     DEF ClientType, HandlerType, ClientShape, Gone, Attached, Answered, Stages,
         Talking, Arriving, Dropped, Added, Ends
<1>27. CASE Send
  <2>1. /\ handler.attached /\ handler.at # "starting"
        /\ Added(to_client, to_client', outgoing[1])
        /\ UNCHANGED <<client, to_server, handler>>
    BY <1>27, SendEffect
  <2>2. Len(to_client) > 0 => Len(to_client') > 0 /\ to_client'[1] = to_client[1]
    BY <1>3, <2>1 DEF Added
  <2>3. QED
    BY <1>2, <1>4, <2>1, <2>2 DEF Answered
<1>28. CASE Detach
  BY <1>1, <1>2, <1>3, <1>4, <1>28
     DEF ClientType, HandlerType, ClientShape, Gone, Attached, Answered, Stages,
         Talking, Arriving, Detach, Running
<1>29. CASE Release
  BY <1>1, <1>2, <1>3, <1>4, <1>29
     DEF ClientType, HandlerType, ClientShape, Gone, Attached, Answered, Stages,
         Talking, Arriving, Release, Idle, clientSide
<1>30. CASE ServerFails
  BY <1>1, <1>2, <1>3, <1>4, <1>30, ServerFailsEffect
     DEF ClientType, HandlerType, ClientShape, Gone, Attached, Answered, Stages,
         Talking, Arriving, Dropped, Added, Running
<1>31. CASE ServerRestarts
  BY <1>1, <1>2, <1>3, <1>4, <1>31
     DEF ClientType, HandlerType, ClientShape, Gone, Attached, Answered, Stages,
         Talking, Arriving, ServerRestarts, Idle
<1>32. QED
  BY <1>5, <1>6, <1>7, <1>8, <1>9, <1>10, <1>11, <1>12, <1>13, <1>14, <1>15, <1>16,
     <1>17, <1>18, <1>19, <1>20, <1>21, <1>22, <1>23, <1>24, <1>25, <1>26, <1>27,
     <1>28, <1>29, <1>30, <1>31, GateSteps
     DEF Next, GateStep, Server

LEMMA ToServerKept ==
  ASSUME Wired, Next
  PROVE  ToServer'
<1>1. /\ client \in ClientType /\ handler \in HandlerType
      /\ to_server \in Seq(Message) /\ to_client \in Seq(Message)
  BY Types DEF Wired
<1>2. ClientShape /\ Gone /\ ToServer /\ Attached /\ Answered
  BY DEF Wired
<1>3. /\ Len(to_server) \in Nat /\ (Len(to_server) = 0 <=> to_server = << >>)
      /\ Len(to_client) \in Nat /\ (Len(to_client) = 0 <=> to_client = << >>)
      /\ Len(to_server') \in Nat /\ (Len(to_server') = 0 <=> to_server' = << >>)
  BY <1>1, Elements, PrimedQueues
<1>4. Len(to_server') = 0 => ToServer'
  BY <1>3 DEF ToServer
<1>5. CASE Fails
  BY <1>4, <1>5, CloseEffect DEF Fails
<1>6. CASE Consume
  BY <1>1, <1>2, <1>3, <1>4, <1>6, ConsumeEffect
     DEF ClientType, HandlerType, ClientShape, Gone, ToServer, Attached, Answered,
         Stages, Talking, Arriving, Dropped
<1>7. CASE ReceiverBreaks
  BY <1>1, <1>2, <1>3, <1>4, <1>7
     DEF ClientType, HandlerType, ClientShape, Gone, ToServer, Attached, Answered,
         Stages, Talking, Arriving, ReceiverBreaks, Reading
<1>8. CASE ReceiveReady
  BY <1>1, <1>2, <1>3, <1>4, <1>8, ReceiveReadyEffect
     DEF ClientType, HandlerType, ClientShape, Gone, ToServer, Attached, Answered,
         Stages, Talking, Arriving, Dropped, SameBut
<1>9. CASE CheckReceiver
  BY <1>1, <1>2, <1>3, <1>4, <1>9
     DEF ClientType, HandlerType, ClientShape, Gone, ToServer, Attached, Answered,
         Stages, Talking, Arriving, CheckReceiver, serverVars
<1>10. CASE SendBlock /\ connected
  <2>1. PICK samples \in Nat \ {0} :
          /\ client.sent + samples <= total_samples /\ samples <= client.frame
          /\ client' = [client EXCEPT !.stage = "sending", !.sent = @ + samples]
          /\ Added(to_server, to_server', Msg("frame", samples))
          /\ Msg("frame", samples).type = "frame"
          /\ Msg("frame", samples).value = samples
    BY <1>10, SendBlockEffect DEF FrameSent
  <2>2. /\ client'.stage \in {"sending", "waiting"}
        /\ client.stage \in {"sending", "permitted"}
        /\ connected /\ UNCHANGED <<connected, handler, to_client>>
    BY <1>1, <1>10, <2>1, SendBlockEffect DEF ClientType
  <2>3. handler.attached /\ handler.at \in {"replaying", "serving"}
    BY <1>2, <2>2 DEF Attached, Talking
  <2>4. \A i \in 1..Len(to_server) :
          to_server[i].type = "frame" /\ to_server[i].value \in Nat \ {0}
    BY <1>2, <2>2 DEF ToServer
  <2>5. \A i \in 1..Len(to_server') :
          \/ i \in 1..Len(to_server) /\ to_server'[i] = to_server[i]
          \/ i = Len(to_server') /\ to_server'[i] = Msg("frame", samples)
    BY <1>3, <2>1 DEF Added
  <2>6. QED
    BY <2>1, <2>2, <2>3, <2>4, <2>5 DEF ToServer, Talking
<1>11. CASE SendEnd /\ connected
  <2>1. Added(to_server, to_server', Msg("end", None)) /\ Msg("end", None).type = "end"
    BY <1>11, SendEndEffect
  <2>2. /\ client'.stage = "ending" /\ client.stage = "sending"
        /\ connected /\ UNCHANGED <<connected, handler, to_client>>
    BY <1>1, <1>11, SendEndEffect DEF ClientType
  <2>3. handler.attached /\ handler.at \in {"replaying", "serving"}
    BY <1>2, <2>2 DEF Attached, Talking
  <2>4. \A i \in 1..Len(to_server) :
          to_server[i].type = "frame" /\ to_server[i].value \in Nat \ {0}
    BY <1>2, <2>2 DEF ToServer
  <2>5. \A i \in 1..Len(to_server') :
          \/ i \in 1..Len(to_server) /\ to_server'[i] = to_server[i]
          \/ i = Len(to_server') /\ to_server'[i] = Msg("end", None)
    BY <1>3, <2>1 DEF Added
  <2>6. QED
    BY <2>1, <2>2, <2>3, <2>4, <2>5 DEF ToServer, Talking
<1>12. CASE SessionResult
  BY <1>4, <1>12, CloseEffect DEF SessionResult
<1>13. CASE SendFrame /\ connected
  <2>1. PICK samples \in Nat \ {0} :
          /\ client.sent + samples <= total_samples /\ samples <= client.frame
          /\ client' = [client EXCEPT !.stage = "waiting", !.sent = @ + samples]
          /\ Added(to_server, to_server', Msg("frame", samples))
          /\ Msg("frame", samples).type = "frame"
          /\ Msg("frame", samples).value = samples
    BY <1>13, SendFrameEffect DEF FrameSent
  <2>2. /\ client'.stage \in {"sending", "waiting"}
        /\ client.stage \in {"sending", "permitted"}
        /\ connected /\ UNCHANGED <<connected, handler, to_client>>
    BY <1>1, <1>13, <2>1, SendFrameEffect DEF ClientType
  <2>3. handler.attached /\ handler.at \in {"replaying", "serving"}
    BY <1>2, <2>2 DEF Attached, Talking
  <2>4. \A i \in 1..Len(to_server) :
          to_server[i].type = "frame" /\ to_server[i].value \in Nat \ {0}
    BY <1>2, <2>2 DEF ToServer
  <2>5. \A i \in 1..Len(to_server') :
          \/ i \in 1..Len(to_server) /\ to_server'[i] = to_server[i]
          \/ i = Len(to_server') /\ to_server'[i] = Msg("frame", samples)
    BY <1>3, <2>1 DEF Added
  <2>6. QED
    BY <2>1, <2>2, <2>3, <2>4, <2>5 DEF ToServer, Talking
<1>14. CASE Disconnects
  BY <1>4, <1>14, CloseEffect DEF Disconnects
<1>15. CASE AskResume
  <2>1. /\ connected' /\ client'.stage = "resuming" /\ Len(to_server') = 1
        /\ to_server'[1].type = "continue"
        /\ to_server'[1].value = client'.last_sequence
        /\ Len(to_client') = 0 /\ ~handler.attached /\ UNCHANGED handler
    BY <1>1, <1>2, <1>15, AskResumeEffect, EmptyQueue DEF ClientType, Gone
  <2>2. QED
    BY <2>1 DEF ToServer
<1>16. CASE Retries
  BY <1>4, <1>16, CloseEffect DEF Retries
<1>17. CASE ProbeResult
  BY <1>4, <1>17, CloseEffect DEF ProbeResult
<1>18. CASE StartSession
  <2>1. Len(to_server') = 0
    BY <1>18, StartEffect, FirstRequest DEF Dropped
  <2>2. QED
    BY <1>4, <2>1
<1>19. CASE RefuseResume
  BY <1>4, <1>19, RefuseEffect, EmptyQueue
<1>20. CASE OpenResume
  <2>1. Len(to_server') = 0
    BY <1>20, OpenEffect, FirstRequest DEF Dropped
  <2>2. QED
    BY <1>4, <2>1
<1>21. CASE Ready
  BY <1>1, <1>2, <1>3, <1>4, <1>21, ReadyEffect
     DEF ClientType, HandlerType, ClientShape, Gone, ToServer, Attached, Answered,
         Stages, Talking, Arriving, Dropped
<1>22. CASE QueueReplay
  BY <1>1, <1>2, <1>3, <1>4, <1>22, QueueReplayEffect
     DEF ClientType, HandlerType, ClientShape, Gone, ToServer, Attached, Answered,
         Stages, Talking, Arriving, Dropped
<1>23. CASE HandleFrame
  <2>1. PICK whole \in Nat, rest \in Nat, pauses \in BOOLEAN, q \in Seq(Message),
             p \in Message, ack \in Message : Stores(whole, rest, pauses, q, p, ack)
    BY <1>23, HandleFrameEffect
  <2>2. /\ Dropped(to_server, to_server') /\ UNCHANGED <<client, connected>>
        /\ handler'.at = handler.at /\ handler'.attached = handler.attached
        /\ to_server[1].type = "frame"
    BY <1>1, <2>1 DEF Stores, HandlerType
  <2>3. \A i \in 1..Len(to_server') :
          i + 1 \in 1..Len(to_server) /\ to_server'[i] = to_server[i + 1]
    BY <1>3, <2>2 DEF Dropped
  <2>4. 1 \in 1..Len(to_server) /\ connected /\ Len(to_server') = Len(to_server) - 1
    BY <1>2, <1>3, <2>2 DEF Dropped, ToServer
  <2>5. \A i \in 1..Len(to_server) : to_server[i].type \in {"frame", "end"}
    BY <1>2, <2>2, <2>4 DEF ToServer, Talking
  <2>6. \A i \in 1..Len(to_server') :
          LET m == to_server[i + 1] IN
          /\ m.type \in {"frame", "end"}
          /\ client.stage \in Talking
          /\ handler.attached /\ handler.at \in {"replaying", "serving"}
          /\ m.type = "frame" => m.value \in Nat \ {0}
          /\ m.type = "end" => i + 1 = Len(to_server) /\ client.stage = "ending"
    BY <1>2, <2>3, <2>5 DEF ToServer
  <2>7. \A i \in 1..Len(to_server') :
          LET m == to_server'[i] IN
          /\ m.type \in {"frame", "end"}
          /\ client'.stage \in Talking
          /\ handler'.attached /\ handler'.at \in {"replaying", "serving"}
          /\ m.type = "frame" => m.value \in Nat \ {0}
          /\ m.type = "end" => i = Len(to_server') /\ client'.stage = "ending"
    <3>1. TAKE i \in 1..Len(to_server')
    <3>2. to_server'[i] = to_server[i + 1] /\ (i + 1 = Len(to_server) => i = Len(to_server'))
      BY <1>3, <2>3, <2>4
    <3>3. QED
      BY <2>2, <2>6, <3>2
  <2>8. connected'
    BY <2>2, <2>4
  <2>9. QED
    BY <2>7, <2>8 DEF ToServer
<1>24. CASE HandleEnd
  BY <1>1, <1>2, <1>3, <1>4, <1>24, HandleEndEffect, FirstRequest
     DEF ClientType, HandlerType, ClientShape, Gone, ToServer, Attached, Answered,
         Stages, Talking, Arriving, Dropped
<1>25. CASE TakeChunk
  <2>1. PICK q \in Seq(Message), flow \in Message, event \in Message,
             kind \in {"nothing", "partial", "commit"}, drops \in BOOLEAN :
               Takes(q, flow, event, kind, drops)
    BY <1>1, <1>25, TakeEffect
  <2>2. QED
    BY <1>1, <1>2, <1>3, <1>4, <2>1
       DEF ClientType, HandlerType, ClientShape, Gone, ToServer, Attached,
           Answered, Stages, Talking, Arriving, Dropped, Takes, Running
<1>26. CASE WorkerEnds
  BY <1>1, <1>2, <1>3, <1>4, <1>26, EndsEffect
     DEF ClientType, HandlerType, ClientShape, Gone, ToServer, Attached, Answered,
         Stages, Talking, Arriving, Dropped, Ends
<1>27. CASE Send
  BY <1>1, <1>2, <1>3, <1>4, <1>27, SendEffect
     DEF ClientType, HandlerType, ClientShape, Gone, ToServer, Attached, Answered,
         Stages, Talking, Arriving, Dropped
<1>28. CASE Detach
  BY <1>1, <1>2, <1>3, <1>4, <1>28
     DEF ClientType, HandlerType, ClientShape, Gone, ToServer, Attached, Answered,
         Stages, Talking, Arriving, Detach, Running
<1>29. CASE Release
  BY <1>1, <1>2, <1>3, <1>4, <1>29
     DEF ClientType, HandlerType, ClientShape, Gone, ToServer, Attached, Answered,
         Stages, Talking, Arriving, Release, Idle, clientSide
<1>30. CASE ServerFails
  BY <1>4, <1>30, ServerFailsEffect, EmptyQueue
<1>31. CASE ServerRestarts
  BY <1>4, <1>31, EmptyQueue DEF ServerRestarts
<1>32. QED
  BY <1>5, <1>6, <1>7, <1>8, <1>9, <1>10, <1>11, <1>12, <1>13, <1>14, <1>15, <1>16,
     <1>17, <1>18, <1>19, <1>20, <1>21, <1>22, <1>23, <1>24, <1>25, <1>26, <1>27,
     <1>28, <1>29, <1>30, <1>31, GateSteps
     DEF Next, GateStep, Server

LEMMA ToClientKept ==
  ASSUME Wired, Next
  PROVE  ToClient'
<1>1. /\ client \in ClientType /\ handler \in HandlerType
      /\ to_server \in Seq(Message) /\ to_client \in Seq(Message)
  BY Types DEF Wired
<1>2. ToClient
  BY DEF Wired
<1>3. /\ \A type \in {"partial", "commit", "final"} :
           type \in EventTypes /\ type \in {"resume"} \cup EventTypes
      /\ {"resume"} \cup EventTypes \subseteq FromServer
      /\ \A type \in {"ready", "error", "conflict", "audio_ack", "pause", "resume"} :
           type \in FromServer
  BY DEF EventTypes, FromServer
<1>4. CASE Fails
  <2>1. to_client' = << >> /\ outgoing' = outgoing /\ handler'.replay = handler.replay
    BY <1>1, <1>4, CloseEffect DEF Fails, HandlerType
  <2>2. QED
    BY <1>2, <2>1, OnlyEmpty DEF ToClient
<1>5. CASE Consume
  BY <1>1, <1>2, <1>3, <1>5, ConsumeEffect, OnlyKept, OnlyEmpty
     DEF ToClient, HandlerType
<1>6. CASE ReceiverBreaks
  BY <1>1, <1>2, <1>3, <1>6
     DEF ToClient, HandlerType, ReceiverBreaks, Reading
<1>7. CASE ReceiveReady
  BY <1>1, <1>2, <1>3, <1>7, ReceiveReadyEffect, OnlyKept, OnlyEmpty
     DEF ToClient, HandlerType
<1>8. CASE CheckReceiver
  BY <1>1, <1>2, <1>3, <1>8
     DEF ToClient, HandlerType, CheckReceiver, serverVars
<1>9. CASE SendBlock /\ connected
  <2>1. PICK samples \in Nat \ {0} :
          /\ client.sent + samples <= total_samples /\ samples <= client.frame
          /\ client' = [client EXCEPT !.stage = "sending", !.sent = @ + samples]
          /\ Added(to_server, to_server', Msg("frame", samples))
          /\ Msg("frame", samples).type = "frame"
          /\ Msg("frame", samples).value = samples
    BY <1>1, <1>9, SendBlockEffect DEF FrameSent
  <2>2. QED
    BY <1>1, <1>2, <1>3, <1>9, <2>1, SendBlockEffect
       DEF ToClient, HandlerType, Dropped, Added
<1>10. CASE SendEnd /\ connected
  BY <1>1, <1>2, <1>3, <1>10, SendEndEffect
     DEF ToClient, HandlerType, Dropped, Added
<1>11. CASE SessionResult
  <2>1. to_client' = << >> /\ outgoing' = outgoing /\ handler'.replay = handler.replay
    BY <1>1, <1>11, CloseEffect DEF SessionResult, HandlerType
  <2>2. QED
    BY <1>2, <2>1, OnlyEmpty DEF ToClient
<1>12. CASE SendFrame /\ connected
  <2>1. PICK samples \in Nat \ {0} :
          /\ client.sent + samples <= total_samples /\ samples <= client.frame
          /\ client' = [client EXCEPT !.stage = "waiting", !.sent = @ + samples]
          /\ Added(to_server, to_server', Msg("frame", samples))
          /\ Msg("frame", samples).type = "frame"
          /\ Msg("frame", samples).value = samples
    BY <1>1, <1>12, SendFrameEffect DEF FrameSent
  <2>2. QED
    BY <1>1, <1>2, <1>3, <1>12, <2>1, SendFrameEffect
       DEF ToClient, HandlerType, Dropped, Added
<1>13. CASE Disconnects
  <2>1. to_client' = << >> /\ outgoing' = outgoing /\ handler'.replay = handler.replay
    BY <1>1, <1>13, CloseEffect DEF Disconnects, HandlerType
  <2>2. QED
    BY <1>2, <2>1, OnlyEmpty DEF ToClient
<1>14. CASE AskResume
  BY <1>1, <1>2, <1>3, <1>14, AskResumeEffect, OnlyKept, OnlyEmpty
     DEF ToClient, HandlerType
<1>15. CASE Retries
  <2>1. to_client' = << >> /\ outgoing' = outgoing /\ handler'.replay = handler.replay
    BY <1>1, <1>15, CloseEffect DEF Retries, HandlerType
  <2>2. QED
    BY <1>2, <2>1, OnlyEmpty DEF ToClient
<1>16. CASE ProbeResult
  <2>1. to_client' = << >> /\ outgoing' = outgoing /\ handler'.replay = handler.replay
    BY <1>1, <1>16, CloseEffect DEF ProbeResult, HandlerType
  <2>2. QED
    BY <1>2, <2>1, OnlyEmpty DEF ToClient
<1>17. CASE StartSession
  <2>1. /\ Added(to_client, to_client', Msg("ready", 0))
        /\ Msg("ready", 0).type = "ready"
        /\ outgoing' = << >> /\ handler'.replay = << >>
    BY <1>17, StartEffect
  <2>2. Msg("ready", 0).type \in FromServer
    BY <1>3, <2>1
  <2>3. Only(to_client', FromServer)
    BY <1>2, <2>1, <2>2, OnlyKept DEF ToClient
  <2>4. QED
    BY <2>1, <2>3, OnlyEmpty DEF ToClient
<1>18. CASE RefuseResume
  BY <1>1, <1>2, <1>3, <1>18, RefuseEffect, OnlyKept, OnlyEmpty
     DEF ToClient, HandlerType
<1>19. CASE OpenResume
  BY <1>1, <1>2, <1>3, <1>19, OpenEffect, OnlyKept, OnlyEmpty
     DEF ToClient, HandlerType
<1>20. CASE Ready
  <2>1. Only(handler'.replay, EventTypes)
    BY <1>20, ReadyEffect DEF Only
  <2>2. Only(to_client', FromServer) /\ UNCHANGED outgoing
    BY <1>2, <1>3, <1>20, ReadyEffect, OnlyKept DEF ToClient
  <2>3. QED
    BY <1>2, <2>1, <2>2 DEF ToClient
<1>21. CASE QueueReplay
  BY <1>1, <1>2, <1>3, <1>21, QueueReplayEffect, OnlyKept, OnlyEmpty
     DEF ToClient, HandlerType
<1>22. CASE HandleFrame
  <2>1. PICK whole \in Nat, rest \in Nat, pauses \in BOOLEAN, q \in Seq(Message),
             p \in Message, ack \in Message : Stores(whole, rest, pauses, q, p, ack)
    BY <1>22, HandleFrameEffect
  <2>2. Only(q, FromServer)
    BY <1>2, <1>3, <2>1, OnlyKept DEF Stores, ToClient
  <2>3. Only(to_client', FromServer)
    BY <1>3, <2>1, <2>2, OnlyKept DEF Stores
  <2>4. UNCHANGED outgoing /\ handler'.replay = handler.replay
    BY <1>1, <2>1 DEF Stores, HandlerType
  <2>5. QED
    BY <1>2, <2>3, <2>4 DEF ToClient
<1>23. CASE HandleEnd
  <2>1. Only(to_client', FromServer)
    BY <1>2, <1>3, <1>23, HandleEndEffect, OnlyKept DEF ToClient
  <2>2. UNCHANGED outgoing /\ handler'.replay = handler.replay
    BY <1>23, HandleEndEffect
  <2>3. QED
    BY <1>2, <2>1, <2>2 DEF ToClient
<1>24. CASE TakeChunk
  <2>1. PICK q \in Seq(Message), flow \in Message, event \in Message,
             kind \in {"nothing", "partial", "commit"}, drops \in BOOLEAN :
               Takes(q, flow, event, kind, drops)
    BY <1>24, TakeEffect
  <2>2. Only(q, {"resume"} \cup EventTypes)
    BY <1>2, <2>1, OnlyKept DEF Takes, ToClient
  <2>3. Only(outgoing', {"resume"} \cup EventTypes)
    <3>1. CASE outgoing' = q
      BY <2>2, <3>1
    <3>2. CASE kind # "nothing" /\ Added(q, outgoing', event) /\ event.type = kind
      <4>1. event.type \in {"resume"} \cup EventTypes
        BY <1>3, <3>2
      <4>2. QED
        BY <2>2, <3>2, <4>1, OnlyKept
    <3>3. QED
      BY <2>1, <3>1, <3>2 DEF Takes
  <2>4. UNCHANGED to_client /\ handler'.replay = handler.replay
    BY <1>1, <2>1 DEF Takes, HandlerType
  <2>5. QED
    BY <1>2, <2>3, <2>4 DEF ToClient
<1>25. CASE WorkerEnds
  <2>1. PICK event \in Message : Ends(event)
    BY <1>25, EndsEffect
  <2>2. event.type \in {"resume"} \cup EventTypes
    BY <1>3, <2>1 DEF Ends
  <2>3. Only(outgoing', {"resume"} \cup EventTypes)
    BY <1>2, <2>1, <2>2, OnlyKept DEF Ends, ToClient
  <2>4. UNCHANGED to_client /\ handler'.replay = handler.replay
    BY <1>1, <2>1 DEF Ends, HandlerType
  <2>5. QED
    BY <1>2, <2>3, <2>4 DEF ToClient
<1>26. CASE Send
  BY <1>1, <1>2, <1>3, <1>26, SendEffect, OnlyKept, OnlyEmpty
     DEF ToClient, HandlerType
<1>27. CASE Detach
  BY <1>1, <1>2, <1>3, <1>27
     DEF ToClient, HandlerType, Detach, Running
<1>28. CASE Release
  <2>1. UNCHANGED to_client /\ outgoing' = << >> /\ handler'.replay = << >>
    BY <1>28 DEF Release, Idle, clientSide
  <2>2. QED
    BY <1>2, <2>1, OnlyEmpty DEF ToClient
<1>29. CASE ServerFails
  BY <1>1, <1>2, <1>3, <1>29, ServerFailsEffect, OnlyKept, OnlyEmpty, ZenonT(30)
     DEF ToClient, HandlerType
<1>30. CASE ServerRestarts
  <2>1. UNCHANGED to_client /\ outgoing' = << >> /\ handler'.replay = << >>
    BY <1>30 DEF ServerRestarts, Idle
  <2>2. QED
    BY <1>2, <2>1, OnlyEmpty DEF ToClient
<1>31. QED
  BY <1>4, <1>5, <1>6, <1>7, <1>8, <1>9, <1>10, <1>11, <1>12, <1>13, <1>14, <1>15,
     <1>16, <1>17, <1>18, <1>19, <1>20, <1>21, <1>22, <1>23, <1>24, <1>25, <1>26,
     <1>27, <1>28, <1>29, <1>30, GateSteps
     DEF Next, GateStep, Server

LEMMA AnswerFirstKept ==
  ASSUME Wired, Next
  PROVE  AnswerFirst'
<1>1. /\ client \in ClientType /\ handler \in HandlerType
      /\ to_server \in Seq(Message) /\ to_client \in Seq(Message)
  BY Types DEF Wired
<1>2. ToClient /\ AnswerFirst /\ Answered /\ Attached /\ Gone
  BY DEF Wired
<1>3. /\ Len(to_server) = 0 <=> to_server = << >>
      /\ Len(to_client) \in Nat /\ Len(to_client') \in Nat
  BY <1>1, Elements, PrimedQueues
<1>4. Len(to_client') = 0 => AnswerFirst'
  BY DEF AnswerFirst
<1>5. CASE Fails
  BY <1>4, <1>5, CloseEffect DEF Fails
<1>6. CASE Consume
  <2>1. Dropped(to_client, to_client')
    BY <1>6, ConsumeEffect
  <2>2. \A i \in 1..Len(to_client') :
          to_client'[i].type \notin Replies
    <3>1. TAKE i \in 1..Len(to_client')
    <3>2. i + 1 \in 1..Len(to_client) /\ to_client'[i] = to_client[i + 1] /\ i + 1 # 1
      BY <1>3, <2>1 DEF Dropped
    <3>3. QED
      BY <1>2, <3>2 DEF AnswerFirst
  <2>3. QED
    BY <2>2 DEF AnswerFirst
<1>7. CASE ReceiverBreaks
  BY <1>1, <1>2, <1>3, <1>4, <1>7
     DEF ClientType, AnswerFirst, Talking, Arriving, ReceiverBreaks, Reading
<1>8. CASE ReceiveReady
  <2>1. Dropped(to_client, to_client')
    BY <1>8, ReceiveReadyEffect
  <2>2. \A i \in 1..Len(to_client') :
          to_client'[i].type \notin Replies
    <3>1. TAKE i \in 1..Len(to_client')
    <3>2. i + 1 \in 1..Len(to_client) /\ to_client'[i] = to_client[i + 1] /\ i + 1 # 1
      BY <1>3, <2>1 DEF Dropped
    <3>3. QED
      BY <1>2, <3>2 DEF AnswerFirst
  <2>3. QED
    BY <2>2 DEF AnswerFirst
<1>9. CASE CheckReceiver
  BY <1>1, <1>2, <1>3, <1>4, <1>9
     DEF ClientType, AnswerFirst, Talking, Arriving, CheckReceiver, serverVars
<1>10. CASE SendBlock /\ connected
  <2>1. PICK samples \in Nat \ {0} :
          /\ client.sent + samples <= total_samples /\ samples <= client.frame
          /\ client' = [client EXCEPT !.stage = "sending", !.sent = @ + samples]
          /\ Added(to_server, to_server', Msg("frame", samples))
          /\ Msg("frame", samples).type = "frame"
          /\ Msg("frame", samples).value = samples
    BY <1>1, <1>10, SendBlockEffect DEF FrameSent
  <2>2. QED
    BY <1>1, <1>2, <1>3, <1>4, <1>10, <2>1, SendBlockEffect
       DEF ClientType, AnswerFirst, Talking, Arriving, Dropped, Added
<1>11. CASE SendEnd /\ connected
  BY <1>1, <1>2, <1>3, <1>4, <1>11, SendEndEffect
     DEF ClientType, AnswerFirst, Talking, Arriving, Dropped, Added
<1>12. CASE SessionResult
  BY <1>4, <1>12, CloseEffect DEF SessionResult
<1>13. CASE SendFrame /\ connected
  <2>1. PICK samples \in Nat \ {0} :
          /\ client.sent + samples <= total_samples /\ samples <= client.frame
          /\ client' = [client EXCEPT !.stage = "waiting", !.sent = @ + samples]
          /\ Added(to_server, to_server', Msg("frame", samples))
          /\ Msg("frame", samples).type = "frame"
          /\ Msg("frame", samples).value = samples
    BY <1>1, <1>13, SendFrameEffect DEF FrameSent
  <2>2. QED
    BY <1>1, <1>2, <1>3, <1>4, <1>13, <2>1, SendFrameEffect
       DEF ClientType, AnswerFirst, Talking, Arriving, Dropped, Added
<1>14. CASE Disconnects
  BY <1>4, <1>14, CloseEffect DEF Disconnects
<1>15. CASE AskResume
  BY <1>4, <1>15, AskResumeEffect, EmptyQueue
<1>16. CASE Retries
  BY <1>4, <1>16, CloseEffect DEF Retries
<1>17. CASE ProbeResult
  BY <1>4, <1>17, CloseEffect DEF ProbeResult
<1>18. CASE StartSession
  <2>1. PICK m : Added(to_client, to_client', m) /\ UNCHANGED client
    BY <1>18, StartEffect
  <2>2. Len(to_client) = 0 /\ client.stage \in Arriving
    BY <1>18, StartEffect, FirstRequest DEF Arriving
  <2>3. QED
    BY <2>1, <2>2 DEF AnswerFirst, Added
<1>19. CASE RefuseResume
  <2>1. PICK m : Added(to_client, to_client', m) /\ UNCHANGED client
    BY <1>19, RefuseEffect
  <2>2. Len(to_client) = 0 /\ client.stage \in Arriving
    BY <1>19, RefuseEffect, FirstRequest DEF Arriving
  <2>3. QED
    BY <2>1, <2>2 DEF AnswerFirst, Added
<1>20. CASE OpenResume
  BY <1>1, <1>2, <1>3, <1>4, <1>20, OpenEffect, FirstRequest
     DEF ClientType, AnswerFirst, Talking, Arriving, Dropped, Added
<1>21. CASE Ready
  <2>1. /\ Added(to_client, to_client', Msg("ready", session.chunks))
        /\ UNCHANGED client
        /\ handler.at = "starting" /\ handler.attached
    BY <1>21, ReadyEffect
  <2>2. client.stage \in Arriving /\ Len(to_client) = 0
    BY <1>1, <1>2, <2>1
       DEF Answered, Attached, Gone, Talking, Arriving, Stages, ClientType
  <2>3. QED
    BY <2>1, <2>2 DEF AnswerFirst, Added
<1>22. CASE QueueReplay
  BY <1>1, <1>2, <1>3, <1>4, <1>22, QueueReplayEffect
     DEF ClientType, AnswerFirst, Talking, Arriving, Dropped, Added
<1>23. CASE HandleFrame
  <2>1. PICK whole \in Nat, rest \in Nat, pauses \in BOOLEAN, q \in Seq(Message),
             p \in Message, ack \in Message : Stores(whole, rest, pauses, q, p, ack)
    BY <1>23, HandleFrameEffect
  <2>2. client.stage \in Talking
    <3>1. to_server # << >> /\ to_server[1].type = "frame"
      BY <1>3, <2>1 DEF Stores, Dropped
    <3>2. QED
      BY <3>1, FirstRequest
  <2>3. Only(to_client, FromServer \ Replies)
    BY <1>2, <2>2 DEF Only, ToClient, AnswerFirst, Talking, Arriving
  <2>4. Only(q, FromServer \ Replies)
    BY <2>1, <2>3, OnlyKept DEF Stores, FromServer, Replies
  <2>5. Only(to_client', FromServer \ Replies)
    BY <2>1, <2>4, OnlyKept DEF Stores, FromServer, Replies
  <2>6. QED
    BY <2>5 DEF Only, AnswerFirst
<1>24. CASE HandleEnd
  <2>1. to_server # << >> /\ to_server[1].type = "end" /\ UNCHANGED client
    BY <1>24, HandleEndEffect
  <2>2. client.stage \in Talking
    BY <2>1, FirstRequest
  <2>3. Only(to_client, FromServer \ Replies)
    BY <1>2, <2>2 DEF Only, ToClient, AnswerFirst, Talking, Arriving
  <2>4. Only(to_client', FromServer \ Replies)
    BY <1>24, <2>3, HandleEndEffect, OnlyKept DEF FromServer, Replies
  <2>5. QED
    BY <2>4 DEF Only, AnswerFirst
<1>25. CASE TakeChunk
  <2>1. PICK q \in Seq(Message), flow \in Message, event \in Message,
             kind \in {"nothing", "partial", "commit"}, drops \in BOOLEAN :
               Takes(q, flow, event, kind, drops)
    BY <1>1, <1>25, TakeEffect
  <2>2. QED
    BY <1>1, <1>2, <1>3, <1>4, <2>1
       DEF ClientType, AnswerFirst, Talking, Arriving, Dropped, Added, Takes,
           Running
<1>26. CASE WorkerEnds
  BY <1>1, <1>2, <1>3, <1>4, <1>26, EndsEffect
     DEF ClientType, AnswerFirst, Talking, Arriving, Dropped, Added, Ends
<1>27. CASE Send
  <2>1. Added(to_client, to_client', outgoing[1]) /\ Dropped(outgoing, outgoing')
        /\ UNCHANGED client
    BY <1>27, SendEffect
  <2>2. outgoing[1].type \in {"resume"} \cup EventTypes
    BY <1>2, <2>1, OnlyKept DEF ToClient
  <2>3. outgoing[1].type \notin Replies
    BY <2>2 DEF EventTypes, Replies
  <2>4. QED
    BY <1>2, <1>3, <2>1, <2>3 DEF AnswerFirst, Added
<1>28. CASE Detach
  BY <1>1, <1>2, <1>3, <1>4, <1>28
     DEF ClientType, AnswerFirst, Talking, Arriving, Detach, Running
<1>29. CASE Release
  BY <1>1, <1>2, <1>3, <1>4, <1>29
     DEF ClientType, AnswerFirst, Talking, Arriving, Release, Idle, clientSide
<1>30. CASE ServerFails
  <2>1. PICK m \in Message : Added(to_client, to_client', m) /\ m.type = "error"
                            /\ UNCHANGED client
    BY <1>30, ServerFailsEffect
  <2>2. m.type \notin Replies
    BY <2>1 DEF Replies
  <2>3. QED
    BY <1>2, <1>3, <2>1, <2>2 DEF AnswerFirst, Added
<1>31. CASE ServerRestarts
  BY <1>1, <1>2, <1>3, <1>4, <1>31
     DEF ClientType, AnswerFirst, Talking, Arriving, ServerRestarts, Idle
<1>32. QED
  BY <1>5, <1>6, <1>7, <1>8, <1>9, <1>10, <1>11, <1>12, <1>13, <1>14, <1>15, <1>16,
     <1>17, <1>18, <1>19, <1>20, <1>21, <1>22, <1>23, <1>24, <1>25, <1>26, <1>27,
     <1>28, <1>29, <1>30, <1>31, GateSteps
     DEF Next, GateStep, Server

LEMMA WiredInit == Init => Wired
<1>1. Init => TypeOK
  <2> SUFFICES ASSUME Init PROVE TypeOK
    OBVIOUS
  <2>1. to_server = <<Msg("start", None)>> /\ Msg("start", None) \in Message
    BY DEF Init, Msg, Message
  <2>2. to_server \in Seq(Message)
    BY <2>1
  <2>3. client \in ClientType
    BY Numbers DEF Init, ClientType, Stages, None
  <2>4. session \in SessionType /\ to_client \in Seq(Message) /\ outgoing \in Seq(Message)
    BY EmptyQueue DEF Init, SessionType
  <2>5. faults \in 0..MaxFaults /\ excuse \in Excuses
    BY Numbers DEF Init, Excuses
  <2>6. QED
    BY <2>2, <2>3, <2>4, <2>5, IdleType
       DEF Init, TypeOK, ClientType, HandlerType, SessionType
<1>2. Init => ClientShape /\ Gone /\ ToClient /\ AnswerFirst /\ Attached /\ Answered
  BY Numbers, OnlyEmpty, EmptyQueue
     DEF Init, Idle, ClientShape, Gone, ToClient, AnswerFirst, Attached, Answered,
         Talking, Arriving, None
<1>3. Init => ToServer
  <2> SUFFICES ASSUME Init PROVE ToServer
    OBVIOUS
  <2>1. to_server = <<Msg("start", None)>> /\ Msg("start", None).type = "start"
    BY DEF Init, Msg
  <2>2. Len(to_server) = 1 /\ to_server[1].type = "start"
    BY <2>1
  <2>3. /\ connected = TRUE /\ Len(to_client) = 0 /\ handler.at = "idle"
        /\ client.stage = "starting"
    BY EmptyQueue DEF Init, Idle
  <2>4. QED
    BY <2>2, <2>3 DEF ToServer
<1>4. QED
  BY <1>1, <1>2, <1>3 DEF Wired

LEMMA WiredStep == Wired /\ [Next]_vars => Wired'
<1> SUFFICES ASSUME Wired, [Next]_vars PROVE Wired'
  OBVIOUS
<1>1. CASE Next
  BY <1>1, TypeKept, ClientShapeKept, GoneKept, ToServerKept, ToClientKept,
     AnswerFirstKept, AttachedKept, AnsweredKept
     DEF Wired
<1>2. CASE UNCHANGED vars
  BY <1>2
     DEF vars, Wired, TypeOK, ClientShape, Gone, ToServer, ToClient, AnswerFirst,
         Attached, Answered, Only
<1>3. QED
  BY <1>1, <1>2

-----------------------------------------------------------------------------
(* Audio: what is stored, buffered and on its way is what was sent.        *)

Units(m) == IF m.type = "frame" THEN m.value ELSE 0

\* The frames of q take the count from lo to hi; at[i] is what comes before
\* the i-th message.
Adds(q, lo, hi) ==
  \E at \in [1..(Len(q) + 1) -> Nat] :
    /\ at[1] = lo /\ at[Len(q) + 1] = hi
    /\ \A i \in 1..Len(q) : at[i + 1] = at[i] + Units(q[i])

\* Only a probe waits for its acknowledgement, and there is one at most.
NoAck(q) == \A i \in 1..Len(q) : q[i].type # "audio_ack"
OneAck ==
  \A i \in 1..Len(to_client) : to_client[i].type = "audio_ack" =>
    /\ Len(to_server) = 0 /\ client.sent = session.stored + to_client[i].buffered
    /\ \A j \in 1..Len(to_client) : to_client[j].type = "audio_ack" => j = i

Started ==
  client.stage = "starting" =>
    /\ session.stored = 0 /\ session.chunks = 0 /\ Len(session.log) = 0
    /\ client.buffered = None
Conserved ==
  handler.attached /\ handler.at \in {"starting", "replaying", "serving"} =>
    Adds(to_server, session.stored + handler.buffer, client.sent)
Finished ==
  handler.at \in {"finishing", "ended"} => session.stored = total_samples
Paced ==
  /\ client.stage \in Arriving => NoAck(to_client)
  /\ client.kind = "probe" /\ client.stage = "sending" =>
       /\ Len(to_server) = 0 /\ NoAck(to_client)
       /\ \/ client.sent = 0 /\ client.buffered = None
          \/ client.buffered \in Nat /\ client.sent = session.stored + client.buffered
  /\ client.kind = "probe" /\ client.stage = "waiting" =>
       Len(to_server) <= 1 /\ OneAck
Halted ==
  client.stage \in {"retrying", "resuming"} =>
    client.sent = session.stored /\ client.buffered = 0

(* Events: each is in the log where its number says.                       *)
Logged(q, log) ==
  \A i \in 1..Len(q) : q[i].type \in EventTypes =>
    q[i].value + 1 \in 1..Len(log) /\ log[q[i].value + 1] = q[i].type

AllLogged ==
  /\ Logged(to_client, session.log) /\ Logged(outgoing, session.log)
  /\ Logged(handler.replay, session.log)

\* The terminal event is the last one, for good, and all of the audio is
\* stored by then.
FinalLast ==
  /\ \A i \in 1..Len(session.log) : session.log[i] = "final" =>
       /\ i = Len(session.log) /\ ~session.known
       /\ handler.at \in {"ended", "closing", "idle"}
       /\ session.stored = total_samples
  /\ Running => session.known

\* What the gate has seen of the log.
Seen ==
  /\ client.last_sequence + 1 \in 0..Len(session.log)
  /\ client.ended <=>
       client.last_sequence # None /\ session.log[client.last_sequence + 1] = "final"

Evidence ==
  /\ Wired /\ Started /\ Conserved /\ Finished /\ Paced /\ Halted
  /\ AllLogged /\ FinalLast /\ Seen

LEMMA AddsNone ==
  ASSUME NEW q, NEW lo \in Nat, NEW hi \in Nat, Len(q) = 0
  PROVE  Adds(q, lo, hi) <=> lo = hi
<1>1. ASSUME lo = hi PROVE Adds(q, lo, hi)
  <2> DEFINE at == [i \in 1..(Len(q) + 1) |-> lo]
  <2>1. at \in [1..(Len(q) + 1) -> Nat] /\ at[1] = lo /\ at[Len(q) + 1] = lo
    OBVIOUS
  <2> HIDE DEF at
  <2>2. QED
    BY <1>1, <2>1 DEF Adds
<1>2. ASSUME Adds(q, lo, hi) PROVE lo = hi
  BY <1>2 DEF Adds
<1>3. QED
  BY <1>1, <1>2

LEMMA AddsMore ==
  ASSUME NEW q, NEW r, NEW lo \in Nat, NEW hi \in Nat, NEW m, Units(m) \in Nat,
         Adds(q, lo, hi), Added(q, r, m)
  PROVE  Adds(r, lo, hi + Units(m))
<1>1. PICK at \in [1..(Len(q) + 1) -> Nat] :
        /\ at[1] = lo /\ at[Len(q) + 1] = hi
        /\ \A i \in 1..Len(q) : at[i + 1] = at[i] + Units(q[i])
  BY DEF Adds
<1>2. /\ Len(q) \in Nat /\ Len(r) = Len(q) + 1
      /\ r[Len(q) + 1] = m /\ \A i \in 1..Len(q) : r[i] = q[i]
  BY DEF Added
<1> DEFINE sum == hi + Units(m)
           to == [i \in 1..(Len(r) + 1) |-> IF i = Len(r) + 1 THEN sum ELSE at[i]]
<1>3. sum \in Nat
  OBVIOUS
<1> HIDE DEF sum
<1>4. to \in [1..(Len(r) + 1) -> Nat]
  BY <1>1, <1>2, <1>3
<1>5. to[1] = lo /\ to[Len(r) + 1] = sum
  BY <1>1, <1>2
<1>6. \A i \in 1..Len(r) : to[i + 1] = to[i] + Units(r[i])
  <2>1. TAKE i \in 1..Len(r)
  <2>2. CASE i = Len(q) + 1
    BY <1>1, <1>2, <2>2 DEF sum
  <2>3. CASE i \in 1..Len(q)
    BY <1>1, <1>2, <2>3, SMTT(30)
  <2>4. QED
    BY <1>2, <2>2, <2>3
<1>7. Adds(r, lo, sum)
  BY <1>4, <1>5, <1>6 DEF Adds
<1>8. QED
  BY <1>7 DEF sum

LEMMA AddsLess ==
  ASSUME NEW q, NEW r, NEW lo \in Nat, NEW hi \in Nat, Units(q[1]) \in Nat,
         Adds(q, lo, hi), Dropped(q, r)
  PROVE  Adds(r, lo + Units(q[1]), hi)
<1>1. PICK at \in [1..(Len(q) + 1) -> Nat] :
        /\ at[1] = lo /\ at[Len(q) + 1] = hi
        /\ \A i \in 1..Len(q) : at[i + 1] = at[i] + Units(q[i])
  BY DEF Adds
<1>2. /\ Len(q) \in Nat \ {0} /\ Len(r) = Len(q) - 1
      /\ \A i \in 1..Len(r) : r[i] = q[i + 1]
  BY DEF Dropped
<1> DEFINE to == [i \in 1..(Len(r) + 1) |-> at[i + 1]]
<1>3. to \in [1..(Len(r) + 1) -> Nat]
  BY <1>1, <1>2
<1>4. to[Len(r) + 1] = hi /\ to[1] = lo + Units(q[1])
  BY <1>1, <1>2
<1>5. \A i \in 1..Len(r) : to[i + 1] = to[i] + Units(r[i])
  <2>1. TAKE i \in 1..Len(r)
  <2>2. i + 1 \in 1..Len(q) /\ r[i] = q[i + 1] /\ to[i + 1] = at[i + 1 + 1] /\ to[i] = at[i + 1]
    BY <1>2
  <2>3. QED
    BY <1>1, <2>2
<1>6. QED
  BY <1>3, <1>4, <1>5 DEF Adds

LEMMA LoggedKept ==
  ASSUME NEW log, NEW q, Logged(q, log)
  PROVE  /\ \A r : Dropped(q, r) => Logged(r, log)
         /\ \A r, m : /\ Added(q, r, m)
                      /\ \/ m.type \notin EventTypes
                         \/ m.value + 1 \in 1..Len(log) /\ log[m.value + 1] = m.type
                      => Logged(r, log)
         /\ \A more, event : Added(log, more, event) => Logged(q, more)
<1>1. ASSUME NEW r, Dropped(q, r) PROVE Logged(r, log)
  BY <1>1, SMTT(30) DEF Dropped, Logged
<1>2. ASSUME NEW r, NEW m, Added(q, r, m),
             \/ m.type \notin EventTypes
             \/ m.value + 1 \in 1..Len(log) /\ log[m.value + 1] = m.type
      PROVE  Logged(r, log)
  BY <1>2 DEF Added, Logged
<1>3. ASSUME NEW more, NEW event, Added(log, more, event) PROVE Logged(q, more)
  BY <1>3 DEF Added, Logged
<1>4. QED
  BY <1>1, <1>2, <1>3

LEMMA HeadLogged ==
  ASSUME NEW log, NEW q, NEW r, Logged(q, log), Dropped(q, r),
         q[1].type \in EventTypes
  PROVE  q[1].value + 1 \in 1..Len(log) /\ log[q[1].value + 1] = q[1].type
  BY DEF Dropped, Logged

LEMMA LoggedEmpty == \A log : Logged(<< >>, log)
  BY EmptyQueue DEF Logged

LEMMA AckKept ==
  ASSUME NEW q, NEW r
  PROVE  /\ NoAck(q) /\ Dropped(q, r) => NoAck(r)
         /\ \A m : NoAck(q) /\ Added(q, r, m) /\ m.type # "audio_ack" => NoAck(r)
         /\ Len(q) = 0 => NoAck(q)
  BY DEF NoAck, Dropped, Added

LEMMA SameAcks ==
  ASSUME NEW q, NEW r, NEW m, Added(q, r, m), m.type # "audio_ack"
  PROVE  /\ \A i \in 1..Len(r) : r[i].type = "audio_ack" => i \in 1..Len(q) /\ r[i] = q[i]
         /\ \A i \in 1..Len(q) : i \in 1..Len(r) /\ r[i] = q[i]
  BY DEF Added

LEMMA FewerAcks ==
  ASSUME NEW q, NEW r, Dropped(q, r)
  PROVE  \A i \in 1..Len(r) : i + 1 \in 1..Len(q) /\ r[i] = q[i + 1]
  BY DEF Dropped

LEMMA OneAckKept ==
  ASSUME OneAck, NEW m, Added(to_client, to_client', m), m.type # "audio_ack",
         client' = client, session'.stored = session.stored,
         to_server' = to_server \/ Len(to_server') = 0
  PROVE  OneAck'
<1>1. /\ \A i \in 1..Len(to_client') :
           to_client'[i].type = "audio_ack" =>
             i \in 1..Len(to_client) /\ to_client'[i] = to_client[i]
      /\ \A i \in 1..Len(to_client) :
           i \in 1..Len(to_client') /\ to_client'[i] = to_client[i]
  BY SameAcks
<1>2. SUFFICES ASSUME NEW i \in 1..Len(to_client'), to_client'[i].type = "audio_ack"
               PROVE  /\ Len(to_server') = 0
                      /\ client'.sent = session'.stored + to_client'[i].buffered
                      /\ \A j \in 1..Len(to_client') :
                           to_client'[j].type = "audio_ack" => j = i
  BY DEF OneAck
<1>3. /\ Len(to_server) = 0 /\ client.sent = session.stored + to_client[i].buffered
      /\ \A j \in 1..Len(to_client) : to_client[j].type = "audio_ack" => j = i
  BY <1>1, <1>2 DEF OneAck
<1>4. QED
  BY <1>1, <1>2, <1>3

LEMMA StartedKept ==
  ASSUME Evidence, Next
  PROVE  Started'
<1>1. /\ client \in ClientType /\ handler \in HandlerType /\ session \in SessionType
      /\ Wired
  BY Types DEF Evidence, Wired
<1>2. Started
  BY DEF Evidence
<1>3. CASE Fails
  BY <1>1, <1>2, <1>3, CloseEffect
     DEF ClientType, SessionType, Started, Arriving, Talking, Fails
<1>4. CASE Consume
  <2>1. client'.stage # "starting"
    BY <1>1, <1>4, ConsumeEffect DEF Talking
  <2>2. QED
    BY <2>1 DEF Started
<1>5. CASE ReceiverBreaks
  BY <1>1, <1>2, <1>5
     DEF ClientType, SessionType, Started, Arriving, Talking, ReceiverBreaks,
         Reading
<1>6. CASE ReceiveReady
  BY <1>1, <1>2, <1>6, ReceiveReadyEffect
     DEF ClientType, SessionType, Started, Arriving, Talking, Dropped, SameBut
<1>7. CASE CheckReceiver
  BY <1>1, <1>2, <1>7
     DEF ClientType, SessionType, Started, Arriving, Talking, CheckReceiver,
         serverVars
<1>8. CASE SendBlock /\ connected
  <2>1. PICK samples \in Nat \ {0} :
          /\ client.sent + samples <= total_samples /\ samples <= client.frame
          /\ client' = [client EXCEPT !.stage = "sending", !.sent = @ + samples]
          /\ Added(to_server, to_server', Msg("frame", samples))
          /\ Msg("frame", samples).type = "frame"
          /\ Msg("frame", samples).value = samples
    BY <1>1, <1>8, SendBlockEffect DEF FrameSent
  <2>2. QED
    BY <1>1, <1>2, <1>8, <2>1, SendBlockEffect
       DEF ClientType, SessionType, Started, Arriving, Talking, Dropped
<1>9. CASE SendEnd /\ connected
  BY <1>1, <1>2, <1>9, SendEndEffect
     DEF ClientType, SessionType, Started, Arriving, Talking, Dropped
<1>10. CASE SessionResult
  BY <1>1, <1>2, <1>10, CloseEffect
     DEF ClientType, SessionType, Started, Arriving, Talking, SessionResult
<1>11. CASE SendFrame /\ connected
  <2>1. PICK samples \in Nat \ {0} :
          /\ client.sent + samples <= total_samples /\ samples <= client.frame
          /\ client' = [client EXCEPT !.stage = "waiting", !.sent = @ + samples]
          /\ Added(to_server, to_server', Msg("frame", samples))
          /\ Msg("frame", samples).type = "frame"
          /\ Msg("frame", samples).value = samples
    BY <1>1, <1>11, SendFrameEffect DEF FrameSent
  <2>2. QED
    BY <1>1, <1>2, <1>11, <2>1, SendFrameEffect
       DEF ClientType, SessionType, Started, Arriving, Talking, Dropped
<1>12. CASE Disconnects
  BY <1>1, <1>2, <1>12, CloseEffect
     DEF ClientType, SessionType, Started, Arriving, Talking, Disconnects, Drained
<1>13. CASE AskResume
  BY <1>1, <1>2, <1>13, AskResumeEffect
     DEF ClientType, SessionType, Started, Arriving, Talking, Dropped
<1>14. CASE Retries
  BY <1>1, <1>2, <1>14, CloseEffect
     DEF ClientType, SessionType, Started, Arriving, Talking, Retries
<1>15. CASE ProbeResult
  BY <1>1, <1>2, <1>15, CloseEffect
     DEF ClientType, SessionType, Started, Arriving, Talking, ProbeResult
<1>16. CASE StartSession
  BY <1>1, <1>2, <1>16, StartEffect, FirstRequest
     DEF ClientType, SessionType, Started, Arriving, Talking, Dropped, Idle
<1>17. CASE RefuseResume
  BY <1>1, <1>2, <1>17, RefuseEffect, FirstRequest
     DEF ClientType, SessionType, Started, Arriving, Talking, Dropped
<1>18. CASE OpenResume
  <2>1. to_server # << >> /\ to_server[1].type = "continue" /\ UNCHANGED client
    BY <1>1, <1>18, OpenEffect
  <2>2. client.stage # "starting"
    BY <1>1, <2>1, FirstRequest
  <2>3. QED
    BY <2>1, <2>2 DEF Started
<1>19. CASE Ready
  BY <1>1, <1>2, <1>19, ReadyEffect
     DEF ClientType, SessionType, Started, Arriving, Talking, Dropped
<1>20. CASE QueueReplay
  BY <1>1, <1>2, <1>20, QueueReplayEffect
     DEF ClientType, SessionType, Started, Arriving, Talking, Dropped
<1>21. CASE HandleFrame
  <2>1. PICK whole \in Nat, rest \in Nat, pauses \in BOOLEAN, q \in Seq(Message),
             p \in Message, ack \in Message : Stores(whole, rest, pauses, q, p, ack)
    BY <1>21, <1>1, HandleFrameEffect
  <2>2. client.stage # "starting" /\ UNCHANGED client
    <3>1. to_server # << >> /\ to_server[1].type = "frame"
      BY <1>1, <2>1 DEF Stores, Dropped, Wired, TypeOK
    <3>2. QED
      BY <1>1, <2>1, <3>1, FirstRequest DEF Stores, Talking
  <2>3. QED
    BY <2>2 DEF Started
<1>22. CASE HandleEnd
  <2>1. to_server # << >> /\ to_server[1].type = "end" /\ UNCHANGED client
    BY <1>1, <1>22, HandleEndEffect
  <2>2. client.stage # "starting"
    BY <1>1, <2>1, FirstRequest
  <2>3. QED
    BY <2>1, <2>2 DEF Started
<1>23. CASE TakeChunk
  <2>1. PICK q \in Seq(Message), flow \in Message, event \in Message,
             kind \in {"nothing", "partial", "commit"}, drops \in BOOLEAN :
               Takes(q, flow, event, kind, drops)
    BY <1>23, <1>1, TakeEffect
  <2>2. client.stage = "starting" => handler.taken < 0
    BY <1>2, <1>23 DEF TakeChunk, Started
  <2>3. client.stage # "starting" /\ UNCHANGED client
    BY <1>1, <2>1, <2>2 DEF HandlerType, Takes
  <2>4. QED
    BY <2>3 DEF Started
<1>24. CASE WorkerEnds
  <2>1. PICK event \in Message : Ends(event)
    BY <1>1, <1>24, EndsEffect
  <2>2. client.stage # "starting" /\ UNCHANGED client
    BY <1>1, <2>1 DEF Ends, Wired, Attached
  <2>3. QED
    BY <2>2 DEF Started
<1>25. CASE Send
  BY <1>1, <1>2, <1>25, SendEffect
     DEF ClientType, SessionType, Started, Arriving, Talking, Dropped
<1>26. CASE Detach
  BY <1>1, <1>2, <1>26
     DEF ClientType, SessionType, Started, Arriving, Talking, Detach, Running
<1>27. CASE Release
  BY <1>1, <1>2, <1>27
     DEF ClientType, SessionType, Started, Arriving, Talking, Release, Idle,
         clientSide
<1>28. CASE ServerFails
  BY <1>1, <1>2, <1>28, ServerFailsEffect
     DEF ClientType, SessionType, Started, Arriving, Talking, Dropped, Running
<1>29. CASE ServerRestarts
  BY <1>1, <1>2, <1>29
     DEF ClientType, SessionType, Started, Arriving, Talking, ServerRestarts, Idle
<1>30. QED
  BY <1>3, <1>4, <1>5, <1>6, <1>7, <1>8, <1>9, <1>10, <1>11, <1>12, <1>13, <1>14,
     <1>15, <1>16, <1>17, <1>18, <1>19, <1>20, <1>21, <1>22, <1>23, <1>24, <1>25,
     <1>26, <1>27, <1>28, <1>29, <1>1, GateSteps
     DEF Next, GateStep, Server

LEMMA FinishedKept ==
  ASSUME Evidence, Next
  PROVE  Finished'
<1>1. /\ client \in ClientType /\ handler \in HandlerType /\ session \in SessionType
      /\ Wired
  BY Types DEF Evidence, Wired
<1>2. Finished /\ Conserved
  BY DEF Evidence
<1>3. CASE Fails
  BY <1>1, <1>2, <1>3, CloseEffect
     DEF HandlerType, SessionType, Finished, Fails
<1>4. CASE Consume
  BY <1>1, <1>2, <1>4, ConsumeEffect
     DEF HandlerType, SessionType, Finished
<1>5. CASE ReceiverBreaks
  BY <1>1, <1>2, <1>5
     DEF HandlerType, SessionType, Finished, ReceiverBreaks, Reading
<1>6. CASE ReceiveReady
  BY <1>1, <1>2, <1>6, ReceiveReadyEffect
     DEF HandlerType, SessionType, Finished, SameBut
<1>7. CASE CheckReceiver
  BY <1>1, <1>2, <1>7
     DEF HandlerType, SessionType, Finished, CheckReceiver, serverVars
<1>8. CASE SendBlock /\ connected
  <2>1. PICK samples \in Nat \ {0} :
          /\ client.sent + samples <= total_samples /\ samples <= client.frame
          /\ client' = [client EXCEPT !.stage = "sending", !.sent = @ + samples]
          /\ Added(to_server, to_server', Msg("frame", samples))
          /\ Msg("frame", samples).type = "frame"
          /\ Msg("frame", samples).value = samples
    BY <1>1, <1>8, SendBlockEffect DEF FrameSent
  <2>2. QED
    BY <1>1, <1>2, <1>8, <2>1, SendBlockEffect
       DEF HandlerType, SessionType, Finished
<1>9. CASE SendEnd /\ connected
  BY <1>1, <1>2, <1>9, SendEndEffect
     DEF HandlerType, SessionType, Finished
<1>10. CASE SessionResult
  BY <1>1, <1>2, <1>10, CloseEffect
     DEF HandlerType, SessionType, Finished, SessionResult
<1>11. CASE SendFrame /\ connected
  <2>1. PICK samples \in Nat \ {0} :
          /\ client.sent + samples <= total_samples /\ samples <= client.frame
          /\ client' = [client EXCEPT !.stage = "waiting", !.sent = @ + samples]
          /\ Added(to_server, to_server', Msg("frame", samples))
          /\ Msg("frame", samples).type = "frame"
          /\ Msg("frame", samples).value = samples
    BY <1>1, <1>11, SendFrameEffect DEF FrameSent
  <2>2. QED
    BY <1>1, <1>2, <1>11, <2>1, SendFrameEffect
       DEF HandlerType, SessionType, Finished
<1>12. CASE Disconnects
  BY <1>1, <1>2, <1>12, CloseEffect
     DEF HandlerType, SessionType, Finished, Disconnects, Drained
<1>13. CASE AskResume
  BY <1>1, <1>2, <1>13, AskResumeEffect
     DEF HandlerType, SessionType, Finished
<1>14. CASE Retries
  BY <1>1, <1>2, <1>14, CloseEffect
     DEF HandlerType, SessionType, Finished, Retries
<1>15. CASE ProbeResult
  BY <1>1, <1>2, <1>15, CloseEffect
     DEF HandlerType, SessionType, Finished, ProbeResult
<1>16. CASE StartSession
  BY <1>1, <1>2, <1>16, StartEffect, FirstRequest
     DEF HandlerType, SessionType, Finished, Idle
<1>17. CASE RefuseResume
  BY <1>1, <1>2, <1>17, RefuseEffect, FirstRequest
     DEF HandlerType, SessionType, Finished
<1>18. CASE OpenResume
  BY <1>1, <1>2, <1>18, OpenEffect, FirstRequest
     DEF HandlerType, SessionType, Finished
<1>19. CASE Ready
  BY <1>1, <1>2, <1>19, ReadyEffect
     DEF HandlerType, SessionType, Finished
<1>20. CASE QueueReplay
  BY <1>1, <1>2, <1>20, QueueReplayEffect
     DEF HandlerType, SessionType, Finished
<1>21. CASE HandleFrame
  <2>1. PICK whole \in Nat, rest \in Nat, pauses \in BOOLEAN, q \in Seq(Message),
             p \in Message, ack \in Message : Stores(whole, rest, pauses, q, p, ack)
    BY <1>21, <1>1, HandleFrameEffect
  <2>2. handler'.at = "serving"
    BY <1>1, <2>1 DEF Stores, HandlerType
  <2>3. QED
    BY <2>2 DEF Finished
<1>22. CASE HandleEnd
  <2>1. /\ to_server # << >> /\ to_server[1].type = "end"
        /\ Dropped(to_server, to_server')
        /\ handler.at = "serving" /\ handler.attached
        /\ \/ handler.buffer = 0 /\ session'.stored = session.stored
           \/ session'.stored = session.stored + handler.buffer
    BY <1>1, <1>22, HandleEndEffect DEF SessionType
  <2>2. client.sent = total_samples /\ Len(to_server) = 1
    BY <1>1, <2>1, FirstRequest DEF Wired, ClientShape
  <2>3. Adds(to_server, session.stored + handler.buffer, client.sent)
    BY <1>2, <2>1 DEF Conserved
  <2>4. Units(to_server[1]) = 0
    BY <2>1 DEF Units
  <2>5. session.stored + handler.buffer \in Nat /\ total_samples \in Nat
    BY <1>1, Numbers DEF HandlerType, SessionType
  <2>6. Adds(to_server', session.stored + handler.buffer, total_samples)
    BY <2>1, <2>2, <2>3, <2>4, <2>5, AddsLess
  <2>7. Len(to_server') = 0
    BY <2>1, <2>2 DEF Dropped
  <2>8. QED
    <3>1. session.stored + handler.buffer = total_samples
      BY <2>5, <2>6, <2>7, AddsNone
    <3>2. session.stored \in Nat
      BY <1>1 DEF SessionType
    <3>3. session'.stored = total_samples
      BY <2>1, <3>1, <3>2
    <3>4. QED
      BY <3>3 DEF Finished
<1>23. CASE TakeChunk
  <2>1. PICK q \in Seq(Message), flow \in Message, event \in Message,
             kind \in {"nothing", "partial", "commit"}, drops \in BOOLEAN :
               Takes(q, flow, event, kind, drops)
    BY <1>1, <1>23, TakeEffect
  <2>2. QED
    BY <1>1, <1>2, <2>1
       DEF HandlerType, SessionType, Finished, Takes, Running
<1>24. CASE WorkerEnds
  BY <1>1, <1>2, <1>24, EndsEffect
     DEF HandlerType, SessionType, Finished, Ends
<1>25. CASE Send
  BY <1>1, <1>2, <1>25, SendEffect
     DEF HandlerType, SessionType, Finished
<1>26. CASE Detach
  BY <1>1, <1>2, <1>26
     DEF HandlerType, SessionType, Finished, Detach, Running
<1>27. CASE Release
  BY <1>1, <1>2, <1>27
     DEF HandlerType, SessionType, Finished, Release, Idle, clientSide
<1>28. CASE ServerFails
  BY <1>1, <1>2, <1>28, ServerFailsEffect, ZenonT(30)
     DEF HandlerType, SessionType, Finished, Running
<1>29. CASE ServerRestarts
  BY <1>1, <1>2, <1>29
     DEF HandlerType, SessionType, Finished, ServerRestarts, Idle
<1>30. QED
  BY <1>3, <1>4, <1>5, <1>6, <1>7, <1>8, <1>9, <1>10, <1>11, <1>12, <1>13, <1>14,
     <1>15, <1>16, <1>17, <1>18, <1>19, <1>20, <1>21, <1>22, <1>23, <1>24, <1>25,
     <1>26, <1>27, <1>28, <1>29, <1>1, GateSteps
     DEF Next, GateStep, Server

LEMMA ConservedKept ==
  ASSUME Evidence, Next
  PROVE  Conserved'
<1>1. /\ client \in ClientType /\ handler \in HandlerType /\ session \in SessionType
      /\ Wired
  BY Types DEF Evidence, Wired
<1>2. Started /\ Conserved /\ Halted
  BY DEF Evidence
<1>3. CASE Fails
  BY <1>1, <1>3, CloseEffect DEF Fails, Conserved
<1>4. CASE Consume
  BY <1>1, <1>2, <1>4, ConsumeEffect
     DEF ClientType, HandlerType, SessionType, Conserved
<1>5. CASE ReceiverBreaks
  BY <1>1, <1>2, <1>5
     DEF ClientType, HandlerType, SessionType, Conserved, ReceiverBreaks, Reading
<1>6. CASE ReceiveReady
  BY <1>1, <1>2, <1>6, ReceiveReadyEffect
     DEF ClientType, HandlerType, SessionType, Conserved, SameBut
<1>7. CASE CheckReceiver
  BY <1>1, <1>2, <1>7
     DEF ClientType, HandlerType, SessionType, Conserved, CheckReceiver, serverVars
<1>8. CASE SendBlock /\ connected
  <2>1. PICK samples \in Nat \ {0} :
          /\ client.sent + samples <= total_samples
          /\ client' = [client EXCEPT !.stage = "sending", !.sent = @ + samples]
          /\ Added(to_server, to_server', Msg("frame", samples))
          /\ Msg("frame", samples).type = "frame"
          /\ Msg("frame", samples).value = samples
    BY <1>1, <1>8, SendBlockEffect DEF FrameSent
  <2>2. /\ Units(Msg("frame", samples)) = samples
        /\ client'.sent = client.sent + samples /\ UNCHANGED <<handler, session>>
    BY <1>1, <1>8, <2>1, SendBlockEffect DEF Units, ClientType
  <2>3. /\ session.stored + handler.buffer \in Nat /\ client.sent \in Nat
    BY <1>1, Numbers DEF HandlerType, SessionType, ClientType
  <2>4. Adds(to_server, session.stored + handler.buffer, client.sent)
         => Adds(to_server', session.stored + handler.buffer, client.sent + samples)
    BY <2>1, <2>2, <2>3, AddsMore
  <2>5. QED
    BY <1>2, <2>2, <2>4 DEF Conserved
<1>9. CASE SendEnd /\ connected
  <2>1. /\ Added(to_server, to_server', Msg("end", None))
        /\ Msg("end", None).type = "end"
        /\ client'.sent = client.sent /\ UNCHANGED <<handler, session>>
    BY <1>1, <1>9, SendEndEffect DEF ClientType
  <2>2. Units(Msg("end", None)) = 0
    BY <2>1 DEF Units
  <2>3. /\ session.stored + handler.buffer \in Nat /\ client.sent \in Nat
        /\ client.sent + 0 = client.sent
    BY <1>1, Numbers DEF HandlerType, SessionType, ClientType
  <2>4. Adds(to_server, session.stored + handler.buffer, client.sent)
         => Adds(to_server', session.stored + handler.buffer, client.sent)
    BY <2>1, <2>2, <2>3, AddsMore
  <2>5. QED
    BY <1>2, <2>1, <2>4 DEF Conserved
<1>10. CASE SessionResult
  BY <1>1, <1>10, CloseEffect DEF SessionResult, Conserved
<1>11. CASE SendFrame /\ connected
  <2>1. PICK samples \in Nat \ {0} :
          /\ client.sent + samples <= total_samples
          /\ client' = [client EXCEPT !.stage = "waiting", !.sent = @ + samples]
          /\ Added(to_server, to_server', Msg("frame", samples))
          /\ Msg("frame", samples).type = "frame"
          /\ Msg("frame", samples).value = samples
    BY <1>1, <1>11, SendFrameEffect DEF FrameSent
  <2>2. /\ Units(Msg("frame", samples)) = samples
        /\ client'.sent = client.sent + samples /\ UNCHANGED <<handler, session>>
    BY <1>1, <1>11, <2>1, SendFrameEffect DEF Units, ClientType
  <2>3. /\ session.stored + handler.buffer \in Nat /\ client.sent \in Nat
    BY <1>1, Numbers DEF HandlerType, SessionType, ClientType
  <2>4. Adds(to_server, session.stored + handler.buffer, client.sent)
         => Adds(to_server', session.stored + handler.buffer, client.sent + samples)
    BY <2>1, <2>2, <2>3, AddsMore
  <2>5. QED
    BY <1>2, <2>2, <2>4 DEF Conserved
<1>12. CASE Disconnects
  BY <1>1, <1>12, CloseEffect DEF Disconnects, Drained, Conserved
<1>13. CASE AskResume
  <2>1. ~handler.attached /\ UNCHANGED handler
    BY <1>1, <1>13, AskResumeEffect DEF Wired, Gone
  <2>2. QED
    BY <2>1 DEF Conserved
<1>14. CASE Retries
  BY <1>1, <1>14, CloseEffect DEF Retries, Conserved
<1>15. CASE ProbeResult
  BY <1>1, <1>15, CloseEffect DEF ProbeResult, Conserved
<1>16. CASE StartSession
  <2>1. /\ to_server # << >> /\ to_server[1].type = "start"
        /\ Dropped(to_server, to_server')
        /\ UNCHANGED client /\ session'.stored = session.stored
        /\ handler'.buffer = 0
    BY <1>1, <1>16, StartEffect DEF SessionType
  <2>2. client.stage = "starting" /\ Len(to_server) = 1
    BY <1>1, <2>1, FirstRequest
  <2>3. Len(to_server') = 0
    BY <2>1, <2>2 DEF Dropped
  <2>4. session'.stored = 0 /\ client'.sent = 0
    BY <1>1, <1>2, <2>1, <2>2 DEF Started, Wired, ClientShape
  <2>5. session'.stored + handler'.buffer = 0
    BY <2>1, <2>4
  <2>6. Adds(to_server', 0, 0)
    BY <2>3, AddsNone
  <2>7. QED
    BY <2>4, <2>5, <2>6 DEF Conserved
<1>17. CASE RefuseResume
  <2>1. to_server # << >> /\ to_server[1].type = "continue" /\ UNCHANGED handler
    BY <1>1, <1>17, RefuseEffect
  <2>2. ~handler.attached
    BY <1>1, <2>1, FirstRequest
  <2>3. QED
    BY <2>1, <2>2 DEF Conserved
<1>18. CASE OpenResume
  <2>1. /\ to_server # << >> /\ to_server[1].type = "continue"
        /\ Dropped(to_server, to_server')
        /\ UNCHANGED client /\ session'.stored = session.stored
        /\ handler'.buffer = 0
    BY <1>1, <1>18, OpenEffect
  <2>2. client.stage = "resuming" /\ Len(to_server) = 1
    BY <1>1, <2>1, FirstRequest
  <2>3. Len(to_server') = 0 /\ session.stored \in Nat
    BY <1>1, <2>1, <2>2 DEF Dropped, SessionType
  <2>4. client'.sent = session.stored
    BY <1>2, <2>1, <2>2 DEF Halted
  <2>5. session'.stored + handler'.buffer = session.stored
    BY <2>1, <2>3
  <2>6. Adds(to_server', session.stored, session.stored)
    BY <2>3, AddsNone
  <2>7. QED
    BY <2>4, <2>5, <2>6 DEF Conserved
<1>19. CASE Ready
  BY <1>1, <1>2, <1>19, ReadyEffect
     DEF ClientType, HandlerType, SessionType, Conserved
<1>20. CASE QueueReplay
  BY <1>1, <1>2, <1>20, QueueReplayEffect
     DEF ClientType, HandlerType, SessionType, Conserved
<1>21. CASE HandleFrame
  <2>1. PICK whole \in Nat, rest \in Nat, pauses \in BOOLEAN, q \in Seq(Message),
             p \in Message, ack \in Message : Stores(whole, rest, pauses, q, p, ack)
    BY <1>21, <1>1, HandleFrameEffect
  <2>2. /\ Dropped(to_server, to_server') /\ UNCHANGED client
        /\ handler.at = "serving" /\ handler.attached
        /\ Units(to_server[1]) = to_server[1].value /\ to_server[1].value \in Nat
        /\ handler.buffer + to_server[1].value = whole * internal_size + rest
        /\ whole * internal_size \in Nat
        /\ session'.stored = session.stored + whole * internal_size
        /\ handler'.buffer = rest
    BY <1>1, <2>1 DEF Stores, HandlerType, SessionType, Units
  <2>3. /\ session.stored \in Nat /\ handler.buffer \in Nat /\ client.sent \in Nat
        /\ session.stored + handler.buffer \in Nat
    BY <1>1, Numbers DEF HandlerType, SessionType, ClientType
  <2>4. Adds(to_server, session.stored + handler.buffer, client.sent)
    BY <1>2, <2>2 DEF Conserved
  <2>5. Adds(to_server', session.stored + handler.buffer + to_server[1].value, client.sent)
    BY <2>2, <2>3, <2>4, AddsLess
  <2>6. session.stored + handler.buffer + to_server[1].value
          = session'.stored + handler'.buffer
    <3> DEFINE n == whole * internal_size
               b == handler.buffer
               v == to_server[1].value
               s == session.stored
    <3>1. n \in Nat /\ b \in Nat /\ v \in Nat /\ s \in Nat /\ rest \in Nat
      BY <2>1, <2>2, <2>3
    <3>2. b + v = n + rest
      BY <2>2
    <3>3. session'.stored = s + n /\ handler'.buffer = rest
      BY <2>2
    <3> HIDE DEF n, b, v, s
    <3>4. s + b + v = s + n + rest
      BY <3>1, <3>2
    <3>5. s + b + v = session'.stored + handler'.buffer
      BY <3>3, <3>4
    <3>6. QED
      BY <3>5 DEF s, b, v
  <2>7. QED
    BY <2>2, <2>5, <2>6 DEF Conserved
<1>22. CASE HandleEnd
  BY <1>1, <1>22, HandleEndEffect DEF Conserved
<1>23. CASE TakeChunk
  <2>1. PICK q \in Seq(Message), flow \in Message, event \in Message,
             kind \in {"nothing", "partial", "commit"}, drops \in BOOLEAN :
               Takes(q, flow, event, kind, drops)
    BY <1>23, <1>1, TakeEffect
  <2>2. /\ UNCHANGED <<to_server, client>> /\ session'.stored = session.stored
        /\ handler'.at = handler.at /\ handler'.attached = handler.attached
        /\ handler'.buffer = handler.buffer
    BY <1>1, <2>1 DEF Takes, HandlerType
  <2>3. QED
    BY <1>2, <2>2 DEF Conserved
<1>24. CASE WorkerEnds
  BY <1>1, <1>2, <1>24, EndsEffect, ZenonT(30)
     DEF ClientType, HandlerType, SessionType, Conserved, Ends
<1>25. CASE Send
  BY <1>1, <1>2, <1>25, SendEffect
     DEF ClientType, HandlerType, SessionType, Conserved
<1>26. CASE Detach
  BY <1>1, <1>2, <1>26
     DEF ClientType, HandlerType, SessionType, Conserved, Detach, Running
<1>27. CASE Release
  BY <1>1, <1>2, <1>27
     DEF ClientType, HandlerType, SessionType, Conserved, Release, Idle, clientSide
<1>28. CASE ServerFails
  BY <1>1, <1>2, <1>28, ServerFailsEffect, ZenonT(30)
     DEF ClientType, HandlerType, SessionType, Conserved, Running
<1>29. CASE ServerRestarts
  BY <1>1, <1>2, <1>29
     DEF ClientType, HandlerType, SessionType, Conserved, ServerRestarts, Idle
<1>30. QED
  BY <1>3, <1>4, <1>5, <1>6, <1>7, <1>8, <1>9, <1>10, <1>11, <1>12, <1>13, <1>14,
     <1>15, <1>16, <1>17, <1>18, <1>19, <1>20, <1>21, <1>22, <1>23, <1>24, <1>25,
     <1>26, <1>27, <1>28, <1>29, <1>1, GateSteps
     DEF Next, GateStep, Server

LEMMA HaltedKept ==
  ASSUME Evidence, Next
  PROVE  Halted'
<1>1. /\ client \in ClientType /\ handler \in HandlerType /\ session \in SessionType
      /\ Wired
  BY Types DEF Evidence, Wired
<1>2. Halted /\ Paced
  BY DEF Evidence
<1>3. CASE Fails
  BY <1>1, <1>2, <1>3, CloseEffect
     DEF ClientType, SessionType, Halted, Fails
<1>4. CASE Consume
  BY <1>1, <1>4, ConsumeEffect DEF Halted, Talking
<1>5. CASE ReceiverBreaks
  BY <1>1, <1>2, <1>5
     DEF ClientType, SessionType, Halted, ReceiverBreaks, Reading
<1>6. CASE ReceiveReady
  BY <1>1, <1>2, <1>6, ReceiveReadyEffect
     DEF ClientType, SessionType, Halted, SameBut
<1>7. CASE CheckReceiver
  BY <1>1, <1>2, <1>7
     DEF ClientType, SessionType, Halted, CheckReceiver, serverVars
<1>8. CASE SendBlock /\ connected
  <2>1. PICK samples \in Nat \ {0} :
          /\ client.sent + samples <= total_samples /\ samples <= client.frame
          /\ client' = [client EXCEPT !.stage = "sending", !.sent = @ + samples]
          /\ Added(to_server, to_server', Msg("frame", samples))
          /\ Msg("frame", samples).type = "frame"
          /\ Msg("frame", samples).value = samples
    BY <1>1, <1>8, SendBlockEffect DEF FrameSent
  <2>2. QED
    BY <1>1, <1>2, <1>8, <2>1, SendBlockEffect
       DEF ClientType, SessionType, Halted
<1>9. CASE SendEnd /\ connected
  BY <1>1, <1>2, <1>9, SendEndEffect
     DEF ClientType, SessionType, Halted
<1>10. CASE SessionResult
  BY <1>1, <1>2, <1>10, CloseEffect
     DEF ClientType, SessionType, Halted, SessionResult
<1>11. CASE SendFrame /\ connected
  <2>1. PICK samples \in Nat \ {0} :
          /\ client.sent + samples <= total_samples /\ samples <= client.frame
          /\ client' = [client EXCEPT !.stage = "waiting", !.sent = @ + samples]
          /\ Added(to_server, to_server', Msg("frame", samples))
          /\ Msg("frame", samples).type = "frame"
          /\ Msg("frame", samples).value = samples
    BY <1>1, <1>11, SendFrameEffect DEF FrameSent
  <2>2. QED
    BY <1>1, <1>2, <1>11, <2>1, SendFrameEffect
       DEF ClientType, SessionType, Halted
<1>12. CASE Disconnects
  <2>1. /\ client.kind = "probe" /\ client.stage = "sending"
        /\ client.buffered = 0
        /\ client'.sent = client.sent /\ client'.buffered = client.buffered
        /\ UNCHANGED session
    BY <1>1, <1>12 DEF Disconnects, Drained, ClientType
  <2>2. client.sent = session.stored
    BY <1>1, <1>2, <2>1 DEF Paced, SessionType, None
  <2>3. QED
    BY <2>1, <2>2 DEF Halted
<1>13. CASE AskResume
  BY <1>1, <1>2, <1>13, AskResumeEffect
     DEF ClientType, SessionType, Halted
<1>14. CASE Retries
  BY <1>1, <1>2, <1>14, CloseEffect
     DEF ClientType, SessionType, Halted, Retries
<1>15. CASE ProbeResult
  BY <1>1, <1>2, <1>15, CloseEffect
     DEF ClientType, SessionType, Halted, ProbeResult
<1>16. CASE StartSession
  BY <1>1, <1>2, <1>16, StartEffect, FirstRequest
     DEF ClientType, SessionType, Halted, Idle
<1>17. CASE RefuseResume
  BY <1>1, <1>2, <1>17, RefuseEffect, FirstRequest
     DEF ClientType, SessionType, Halted
<1>18. CASE OpenResume
  BY <1>1, <1>2, <1>18, OpenEffect, FirstRequest
     DEF ClientType, SessionType, Halted
<1>19. CASE Ready
  BY <1>1, <1>2, <1>19, ReadyEffect
     DEF ClientType, SessionType, Halted
<1>20. CASE QueueReplay
  BY <1>1, <1>2, <1>20, QueueReplayEffect
     DEF ClientType, SessionType, Halted
<1>21. CASE HandleFrame
  <2>1. PICK whole \in Nat, rest \in Nat, pauses \in BOOLEAN, q \in Seq(Message),
             p \in Message, ack \in Message : Stores(whole, rest, pauses, q, p, ack)
    BY <1>21, <1>1, HandleFrameEffect
  <2>2. to_server # << >> /\ to_server[1].type = "frame" /\ UNCHANGED client
    BY <1>1, <2>1 DEF Stores, Dropped, Wired, TypeOK
  <2>3. client.stage \in Talking
    BY <1>1, <2>2, FirstRequest
  <2>4. QED
    BY <2>2, <2>3 DEF Halted, Talking
<1>22. CASE HandleEnd
  <2>1. to_server # << >> /\ to_server[1].type = "end" /\ UNCHANGED client
    BY <1>1, <1>22, HandleEndEffect
  <2>2. client.stage \in Talking
    BY <1>1, <2>1, FirstRequest
  <2>3. QED
    BY <2>1, <2>2 DEF Halted, Talking
<1>23. CASE TakeChunk
  <2>1. PICK q \in Seq(Message), flow \in Message, event \in Message,
             kind \in {"nothing", "partial", "commit"}, drops \in BOOLEAN :
               Takes(q, flow, event, kind, drops)
    BY <1>1, <1>23, TakeEffect
  <2>2. QED
    BY <1>1, <1>2, <2>1
       DEF ClientType, SessionType, Halted, Takes, Running
<1>24. CASE WorkerEnds
  BY <1>1, <1>2, <1>24, EndsEffect
     DEF ClientType, SessionType, Halted, Ends
<1>25. CASE Send
  BY <1>1, <1>2, <1>25, SendEffect
     DEF ClientType, SessionType, Halted
<1>26. CASE Detach
  BY <1>1, <1>2, <1>26
     DEF ClientType, SessionType, Halted, Detach, Running
<1>27. CASE Release
  BY <1>1, <1>2, <1>27
     DEF ClientType, SessionType, Halted, Release, Idle, clientSide
<1>28. CASE ServerFails
  BY <1>1, <1>2, <1>28, ServerFailsEffect
     DEF ClientType, SessionType, Halted, Running
<1>29. CASE ServerRestarts
  BY <1>1, <1>2, <1>29
     DEF ClientType, SessionType, Halted, ServerRestarts, Idle
<1>30. QED
  BY <1>3, <1>4, <1>5, <1>6, <1>7, <1>8, <1>9, <1>10, <1>11, <1>12, <1>13, <1>14,
     <1>15, <1>16, <1>17, <1>18, <1>19, <1>20, <1>21, <1>22, <1>23, <1>24, <1>25,
     <1>26, <1>27, <1>28, <1>29, <1>1, GateSteps
     DEF Next, GateStep, Server

LEMMA PacedKept ==
  ASSUME Evidence, Next
  PROVE  Paced'
<1>1. /\ client \in ClientType /\ handler \in HandlerType /\ session \in SessionType
      /\ Wired
  BY Types DEF Evidence, Wired
<1>2. /\ Paced /\ Started /\ Halted /\ ClientShape /\ Gone /\ ToServer /\ ToClient
      /\ Answered /\ Attached
  BY DEF Evidence, Wired
<1>3. Conserved'
  BY ConservedKept
<1>4. Len(to_client) \in Nat
  BY <1>1, Types, Elements DEF Wired
<1>5. CASE Fails
  <2>1. client'.stage \notin {"starting", "resuming", "sending", "waiting"}
    BY <1>1, <1>5 DEF Fails, ClientType
  <2>2. QED
    BY <2>1 DEF Paced, Arriving
<1>6. CASE Consume
  <2> DEFINE m == to_client[1]
  <2>1. /\ client.stage \in Talking /\ Dropped(to_client, to_client')
        /\ client'.kind = client.kind /\ client'.sent = client.sent
        /\ client'.stage = IF m.type = "audio_ack" /\ client.stage = "waiting"
                           THEN "sending" ELSE client.stage
        /\ client'.buffered = IF m.type = "audio_ack" THEN m.buffered ELSE client.buffered
        /\ UNCHANGED <<to_server, session>> /\ m \in Message
    BY <1>1, <1>6, ConsumeEffect
  <2>2. /\ Len(to_client) \in Nat /\ 1 \in 1..Len(to_client)
        /\ \A i \in 1..Len(to_client') :
             i + 1 \in 1..Len(to_client) /\ to_client'[i] = to_client[i + 1] /\ i + 1 # 1
    BY <2>1 DEF Dropped
  <2>3. m.buffered \in Nat
    BY <2>1 DEF Message
  <2> HIDE DEF m
  <2>4. CASE client.stage = "waiting" /\ m.type = "audio_ack" /\ client.kind = "probe"
    <3>1. /\ Len(to_server) = 0 /\ client.sent = session.stored + m.buffered
          /\ \A j \in 1..Len(to_client) : to_client[j].type = "audio_ack" => j = 1
      BY <1>2, <2>2, <2>4 DEF Paced, OneAck, m
    <3>2. NoAck(to_client')
      BY <2>2, <3>1 DEF NoAck
    <3>3. QED
      BY <2>1, <2>3, <2>4, <3>1, <3>2 DEF Paced, Arriving
  <2>5. CASE client.stage = "waiting" /\ m.type # "audio_ack" /\ client.kind = "probe"
    <3>1. Len(to_server) <= 1 /\ OneAck
      BY <1>2, <2>5 DEF Paced
    <3>2. OneAck'
      <4>1. SUFFICES ASSUME NEW i \in 1..Len(to_client'),
                            to_client'[i].type = "audio_ack"
                     PROVE  /\ Len(to_server') = 0
                            /\ client'.sent = session'.stored + to_client'[i].buffered
                            /\ \A j \in 1..Len(to_client') :
                                 to_client'[j].type = "audio_ack" => j = i
        BY DEF OneAck
      <4>2. /\ Len(to_server) = 0
            /\ client.sent = session.stored + to_client[i + 1].buffered
            /\ \A j \in 1..Len(to_client) : to_client[j].type = "audio_ack" => j = i + 1
        BY <2>2, <3>1, <4>1 DEF OneAck
      <4>3. \A j \in 1..Len(to_client') : to_client'[j].type = "audio_ack" => j = i
        <5>1. TAKE j \in 1..Len(to_client')
        <5>2. to_client'[j].type = "audio_ack" => j + 1 = i + 1
          BY <2>2, <4>2
        <5>3. QED
          BY <5>2
      <4>4. QED
        BY <2>1, <2>2, <4>2, <4>3
    <3>3. QED
      BY <2>1, <2>5, <3>1, <3>2 DEF Paced, Arriving
  <2>6. CASE client.stage = "sending" /\ client.kind = "probe"
    <3>1. NoAck(to_client) /\ m.type # "audio_ack"
      BY <1>2, <2>2, <2>6 DEF Paced, NoAck, m
    <3>2. NoAck(to_client')
      BY <2>1, <3>1, AckKept
    <3>3. QED
      BY <1>2, <2>1, <2>6, <3>1, <3>2 DEF Paced, Arriving
  <2>7. CASE client.stage \notin {"sending", "waiting"} \/ client.kind # "probe"
    BY <2>1, <2>7 DEF Paced, Arriving, Talking
  <2>8. QED
    BY <2>4, <2>5, <2>6, <2>7
<1>7. CASE ReceiverBreaks
  <2>1. client'.kind = "session" /\ client'.stage \notin Arriving
    BY <1>1, <1>2, <1>7
       DEF ReceiverBreaks, Reading, ClientType, ClientShape, Arriving
  <2>2. QED
    BY <2>1 DEF Paced
<1>8. CASE ReceiveReady
  <2>1. /\ client.stage \in Arriving /\ client'.stage = "sending"
        /\ client'.sent = client.sent /\ client'.buffered = client.buffered
        /\ Dropped(to_client, to_client')
        /\ UNCHANGED <<to_server, session, connected, handler>>
    BY <1>1, <1>8, ReceiveReadyEffect DEF SameBut
  <2>2. NoAck(to_client')
    BY <1>2, <2>1, AckKept DEF Paced
  <2>3. Len(to_server') = 0
    <3>1. Len(to_client) > 0
      BY <2>1 DEF Dropped
    <3>2. CASE connected
      BY <1>2, <2>1, <3>1, <3>2 DEF Answered
    <3>3. CASE ~connected
      BY <1>2, <2>1, <3>3, EmptyQueue DEF ToServer
    <3>4. QED
      BY <3>2, <3>3
  <2>4. \/ client'.sent = 0 /\ client'.buffered = None
        \/ client'.buffered \in Nat /\ client'.sent = session'.stored + client'.buffered
    <3>1. CASE client.stage = "starting"
      BY <1>2, <2>1, <3>1 DEF ClientShape, Started
    <3>2. CASE client.stage = "resuming"
      BY <1>1, <1>2, <2>1, <3>2 DEF Halted, SessionType
    <3>3. QED
      BY <2>1, <3>1, <3>2 DEF Arriving
  <2>5. QED
    BY <2>1, <2>2, <2>3, <2>4 DEF Paced, Arriving
<1>9. CASE CheckReceiver
  <2>1. client'.stage = "permitted"
    BY <1>1, <1>9 DEF CheckReceiver, ClientType
  <2>2. QED
    BY <2>1 DEF Paced, Arriving
<1>10. CASE SendBlock /\ connected
  <2>1. client'.kind = "session" /\ client'.stage = "sending"
    BY <1>1, <1>10, SendBlockEffect DEF FrameSent, ClientType
  <2>2. QED
    BY <2>1 DEF Paced, Arriving
<1>11. CASE SendEnd /\ connected
  <2>1. client'.stage = "ending"
    BY <1>1, <1>11, SendEndEffect DEF ClientType
  <2>2. QED
    BY <2>1 DEF Paced, Arriving
<1>12. CASE SessionResult
  <2>1. client'.stage \notin {"starting", "resuming", "sending", "waiting"}
    BY <1>1, <1>12 DEF SessionResult, ClientType
  <2>2. QED
    BY <2>1 DEF Paced, Arriving
<1>13. CASE SendFrame /\ connected
  <2>1. /\ client'.stage = "waiting" /\ client.stage = "sending"
        /\ client.kind = "probe"
        /\ UNCHANGED to_client
    BY <1>1, <1>13, SendFrameEffect DEF FrameSent, ClientType
  <2>2. Len(to_server) = 0 /\ NoAck(to_client)
    BY <1>2, <2>1 DEF Paced
  <2>3. Len(to_server') = Len(to_server) + 1
    BY <1>1, <1>13, SendFrameEffect DEF FrameSent, Added
  <2>4. OneAck'
    BY <2>1, <2>2 DEF OneAck, NoAck
  <2>5. QED
    BY <2>1, <2>2, <2>3, <2>4 DEF Paced, Arriving
<1>14. CASE Disconnects
  <2>1. client'.stage \notin {"starting", "resuming", "sending", "waiting"}
    BY <1>1, <1>14 DEF Disconnects, Drained, ClientType
  <2>2. QED
    BY <2>1 DEF Paced, Arriving
<1>15. CASE AskResume
  <2>1. client'.stage = "resuming" /\ NoAck(to_client')
    BY <1>1, <1>15, AskResumeEffect, AckKept, EmptyQueue DEF ClientType
  <2>2. QED
    BY <2>1 DEF Paced
<1>16. CASE Retries
  <2>1. client'.stage \notin {"starting", "resuming", "sending", "waiting"}
    BY <1>1, <1>16 DEF Retries, ClientType
  <2>2. QED
    BY <2>1 DEF Paced, Arriving
<1>17. CASE ProbeResult
  <2>1. client'.stage \notin {"starting", "resuming", "sending", "waiting"}
    BY <1>1, <1>17 DEF ProbeResult, ClientType
  <2>2. QED
    BY <2>1 DEF Paced, Arriving
<1>18. CASE StartSession
  <2>1. client.stage \in Arriving /\ Len(to_client) = 0 /\ UNCHANGED client
    BY <1>1, <1>18, StartEffect, FirstRequest DEF Arriving
  <2>2. NoAck(to_client')
    BY <1>1, <1>18, <2>1, StartEffect, AckKept
  <2>3. QED
    BY <2>1, <2>2 DEF Paced, Arriving
<1>19. CASE RefuseResume
  <2>1. client.stage \in Arriving /\ Len(to_client) = 0 /\ UNCHANGED client
    BY <1>1, <1>19, RefuseEffect, FirstRequest DEF Arriving
  <2>2. NoAck(to_client')
    BY <1>1, <1>19, <2>1, RefuseEffect, AckKept
  <2>3. QED
    BY <2>1, <2>2 DEF Paced, Arriving
<1>20. CASE OpenResume
  <2>1. client.stage \in Arriving /\ Len(to_client) = 0 /\ UNCHANGED client
    BY <1>1, <1>20, OpenEffect, FirstRequest DEF Arriving
  <2>2. NoAck(to_client')
    BY <1>1, <1>20, <2>1, OpenEffect, AckKept
  <2>3. QED
    BY <2>1, <2>2 DEF Paced, Arriving
<1>21. CASE Ready
  <2> DEFINE m == Msg("ready", session.chunks)
  <2>1. /\ Added(to_client, to_client', m) /\ m.type = "ready"
        /\ UNCHANGED <<client, session, to_server>>
    BY <1>1, <1>21, ReadyEffect
  <2>2. m.type # "audio_ack"
    BY <2>1
  <2> HIDE DEF m
  <2>3. /\ NoAck(to_client) => NoAck(to_client')
        /\ OneAck => OneAck'
    BY <2>1, <2>2, AckKept, OneAckKept
  <2>4. QED
    BY <1>2, <2>1, <2>3 DEF Paced
<1>22. CASE QueueReplay
  <2>1. UNCHANGED <<client, to_client, to_server>> /\ session'.stored = session.stored
    BY <1>1, <1>22, QueueReplayEffect
  <2>2. QED
    BY <1>2, <2>1 DEF Paced, OneAck
<1>23. CASE HandleFrame
  <2>1. PICK whole \in Nat, rest \in Nat, pauses \in BOOLEAN, q \in Seq(Message),
             p \in Message, ack \in Message : Stores(whole, rest, pauses, q, p, ack)
    BY <1>23, <1>1, HandleFrameEffect
  <2>2. /\ to_server # << >> /\ to_server[1].type = "frame" /\ UNCHANGED client
        /\ Len(to_server') = Len(to_server) - 1 /\ Dropped(to_server, to_server')
        /\ to_client' \in Seq(Message) /\ handler.attached /\ handler.at = "serving"
    BY <1>1, <2>1 DEF Stores, Dropped, Wired, TypeOK
  <2>3. client.stage \in Talking
    BY <1>1, <2>2, FirstRequest
  <2>4. ASSUME client.kind = "probe", client.stage = "waiting"
        PROVE  Len(to_server') = 0 /\ OneAck'
    <3>1. Len(to_server) <= 1 /\ OneAck
      BY <1>2, <2>4 DEF Paced
    <3>2. Len(to_server) = 1 /\ Len(to_server') = 0
      BY <2>2, <3>1 DEF Dropped
    <3>3. NoAck(to_client)
      BY <3>1, <3>2 DEF OneAck, NoAck
    <3>4. NoAck(q)
      BY <2>1, <3>3, AckKept DEF Stores
    <3>5. client.sent = session'.stored + rest
      <4>1. Adds(to_server', session'.stored + handler'.buffer, client'.sent)
        <5>1. handler'.attached /\ handler'.at = "serving"
          BY <1>1, <2>1, <2>2 DEF Stores, HandlerType
        <5>2. QED
          BY <1>3, <5>1 DEF Conserved
      <4>2. /\ handler'.buffer = rest /\ rest \in Nat /\ session'.stored \in Nat
            /\ client'.sent = client.sent /\ client.sent \in Nat
        <5>1. handler'.buffer = rest /\ session' \in SessionType
          BY <1>1, <2>1 DEF Stores, HandlerType
        <5>2. session'.stored \in Nat
          BY <5>1 DEF SessionType
        <5>3. client.sent \in Nat
          BY <1>1, Numbers DEF ClientType
        <5>4. QED
          BY <2>1, <2>2, <5>1, <5>2, <5>3
      <4>3. session'.stored + handler'.buffer \in Nat
        BY <4>2
      <4>4. QED
        BY <3>2, <4>1, <4>2, <4>3, AddsNone
    <3>6. /\ Len(q) \in Nat /\ Len(to_client') = Len(q) + 1
          /\ to_client'[Len(q) + 1].type = "audio_ack"
          /\ to_client'[Len(q) + 1].buffered = rest
          /\ \A i \in 1..Len(q) : to_client'[i].type # "audio_ack"
      BY <2>1, <3>4 DEF Stores, Added, NoAck
    <3>7. \A i \in 1..Len(to_client') :
            to_client'[i].type = "audio_ack" => i = Len(q) + 1
      BY <3>6
    <3>8. QED
      BY <2>2, <3>2, <3>5, <3>6, <3>7 DEF OneAck
  <2>5. ~(client.kind = "probe" /\ client.stage = "sending")
    BY <1>2, <2>2, <2>3 DEF Paced, Dropped
  <2>6. QED
    BY <2>2, <2>3, <2>4, <2>5 DEF Paced, Talking, Arriving
<1>24. CASE HandleEnd
  <2>1. to_server # << >> /\ to_server[1].type = "end" /\ UNCHANGED client
    BY <1>1, <1>24, HandleEndEffect
  <2>2. client.stage = "ending"
    BY <1>1, <2>1, FirstRequest
  <2>3. QED
    BY <2>1, <2>2 DEF Paced, Arriving
<1>25. CASE TakeChunk
  <2>1. UNCHANGED <<client, to_client, to_server>> /\ session'.stored = session.stored
    BY <1>1, <1>25, TakeEffect DEF Takes
  <2>2. QED
    BY <1>2, <2>1 DEF Paced, OneAck
<1>26. CASE WorkerEnds
  <2>1. UNCHANGED <<client, to_client, to_server>> /\ session'.stored = session.stored
    BY <1>1, <1>26, EndsEffect DEF Ends
  <2>2. QED
    BY <1>2, <2>1 DEF Paced, OneAck
<1>27. CASE Send
  <2> DEFINE m == outgoing[1]
  <2>1. /\ Added(to_client, to_client', m) /\ Dropped(outgoing, outgoing')
        /\ UNCHANGED <<client, session, to_server>>
    BY <1>1, <1>27, SendEffect
  <2>2. m.type # "audio_ack"
    <3>1. m.type \in {"resume"} \cup EventTypes
      BY <1>2, <2>1, OnlyKept DEF ToClient
    <3>2. QED
      BY <3>1 DEF EventTypes
  <2> HIDE DEF m
  <2>3. /\ NoAck(to_client) => NoAck(to_client')
        /\ OneAck => OneAck'
    BY <2>1, <2>2, AckKept, OneAckKept
  <2>4. QED
    BY <1>2, <2>1, <2>3 DEF Paced
<1>28. CASE Detach
  <2>1. UNCHANGED <<client, to_client, to_server>> /\ session'.stored = session.stored
    BY <1>1, <1>28 DEF Detach
  <2>2. QED
    BY <1>2, <2>1 DEF Paced, OneAck
<1>29. CASE Release
  <2>1. UNCHANGED <<client, to_client, to_server>> /\ session'.stored = session.stored
    BY <1>1, <1>29 DEF Release, clientSide
  <2>2. QED
    BY <1>2, <2>1 DEF Paced, OneAck
<1>30. CASE ServerFails
  <2>1. PICK m \in Message :
          /\ Added(to_client, to_client', m) /\ m.type = "error"
          /\ to_server' = << >> /\ UNCHANGED <<client, session>>
    BY <1>1, <1>30, ServerFailsEffect
  <2>2. m.type # "audio_ack" /\ Len(to_server') = 0
    BY <2>1, EmptyQueue
  <2>3. /\ NoAck(to_client) => NoAck(to_client')
        /\ OneAck => OneAck'
    BY <2>1, <2>2, AckKept, OneAckKept
  <2>4. QED
    BY <1>2, <2>1, <2>2, <2>3 DEF Paced
<1>31. CASE ServerRestarts
  <2>1. /\ UNCHANGED <<client, to_client>> /\ session'.stored = session.stored
        /\ Len(to_server') = 0
    BY <1>1, <1>31, EmptyQueue DEF ServerRestarts, SessionType
  <2>2. QED
    BY <1>2, <2>1 DEF Paced, OneAck
<1>32. QED
  BY <1>5, <1>6, <1>7, <1>8, <1>9, <1>10, <1>11, <1>12, <1>13, <1>14, <1>15, <1>16,
     <1>17, <1>18, <1>19, <1>20, <1>21, <1>22, <1>23, <1>24, <1>25, <1>26, <1>27,
     <1>28, <1>29, <1>30, <1>31, <1>1, GateSteps
     DEF Next, GateStep, Server

LEMMA AllLoggedKept ==
  ASSUME Evidence, Next
  PROVE  AllLogged'
<1>1. /\ client \in ClientType /\ handler \in HandlerType /\ session \in SessionType
      /\ Wired
  BY Types DEF Evidence, Wired
<1>2. AllLogged
  BY DEF Evidence
<1>3. CASE Fails
  <2>1. /\ to_client' = << >> /\ outgoing' = outgoing
        /\ handler'.replay = handler.replay
        /\ UNCHANGED session
    BY <1>1, <1>3, CloseEffect DEF Fails
  <2>2. QED
    BY <1>2, <2>1, LoggedEmpty DEF AllLogged
<1>4. CASE Consume
  <2>1. Dropped(to_client, to_client') /\ UNCHANGED <<outgoing, handler, session>>
    BY <1>1, <1>4, ConsumeEffect
  <2>2. QED
    BY <1>2, <2>1, LoggedKept DEF AllLogged
<1>5. CASE ReceiverBreaks
  <2>1. UNCHANGED <<to_client, outgoing, handler, session>>
    BY <1>1, <1>5 DEF ReceiverBreaks
  <2>2. QED
    BY <1>2, <2>1 DEF AllLogged
<1>6. CASE ReceiveReady
  <2>1. Dropped(to_client, to_client') /\ UNCHANGED <<outgoing, handler, session>>
    BY <1>1, <1>6, ReceiveReadyEffect
  <2>2. QED
    BY <1>2, <2>1, LoggedKept DEF AllLogged
<1>7. CASE CheckReceiver
  <2>1. UNCHANGED <<to_client, outgoing, handler, session>>
    BY <1>1, <1>7 DEF CheckReceiver, serverVars
  <2>2. QED
    BY <1>2, <2>1 DEF AllLogged
<1>8. CASE SendBlock /\ connected
  <2>1. UNCHANGED <<to_client, outgoing, handler, session>>
    BY <1>1, <1>8, SendBlockEffect
  <2>2. QED
    BY <1>2, <2>1 DEF AllLogged
<1>9. CASE SendEnd /\ connected
  <2>1. UNCHANGED <<to_client, outgoing, handler, session>>
    BY <1>1, <1>9, SendEndEffect
  <2>2. QED
    BY <1>2, <2>1 DEF AllLogged
<1>10. CASE SessionResult
  <2>1. /\ to_client' = << >> /\ outgoing' = outgoing
        /\ handler'.replay = handler.replay
        /\ UNCHANGED session
    BY <1>1, <1>10, CloseEffect DEF SessionResult
  <2>2. QED
    BY <1>2, <2>1, LoggedEmpty DEF AllLogged
<1>11. CASE SendFrame /\ connected
  <2>1. UNCHANGED <<to_client, outgoing, handler, session>>
    BY <1>1, <1>11, SendFrameEffect
  <2>2. QED
    BY <1>2, <2>1 DEF AllLogged
<1>12. CASE Disconnects
  <2>1. /\ to_client' = << >> /\ outgoing' = outgoing
        /\ handler'.replay = handler.replay
        /\ UNCHANGED session
    BY <1>1, <1>12, CloseEffect DEF Disconnects, Drained
  <2>2. QED
    BY <1>2, <2>1, LoggedEmpty DEF AllLogged
<1>13. CASE AskResume
  <2>1. to_client' = << >> /\ UNCHANGED <<outgoing, handler, session>>
    BY <1>1, <1>13, AskResumeEffect
  <2>2. QED
    BY <1>2, <2>1, LoggedEmpty DEF AllLogged
<1>14. CASE Retries
  <2>1. /\ to_client' = << >> /\ outgoing' = outgoing
        /\ handler'.replay = handler.replay
        /\ UNCHANGED session
    BY <1>1, <1>14, CloseEffect DEF Retries
  <2>2. QED
    BY <1>2, <2>1, LoggedEmpty DEF AllLogged
<1>15. CASE ProbeResult
  <2>1. /\ to_client' = << >> /\ outgoing' = outgoing
        /\ handler'.replay = handler.replay
        /\ UNCHANGED session
    BY <1>1, <1>15, CloseEffect DEF ProbeResult
  <2>2. QED
    BY <1>2, <2>1, LoggedEmpty DEF AllLogged
<1>16. CASE StartSession
  <2> DEFINE m == Msg("ready", 0)
  <2>1. /\ Added(to_client, to_client', m) /\ m.type = "ready" /\ outgoing' = << >>
        /\ handler'.replay = << >> /\ session'.log = session.log
    BY <1>1, <1>16, StartEffect DEF SessionType
  <2> HIDE DEF m
  <2>2. m.type \notin EventTypes
    BY <2>1 DEF EventTypes
  <2>3. QED
    BY <1>2, <2>1, <2>2, LoggedKept, LoggedEmpty DEF AllLogged
<1>17. CASE RefuseResume
  <2>1. PICK m \in Message :
          /\ Added(to_client, to_client', m) /\ m.type \in {"conflict", "error"}
          /\ UNCHANGED <<outgoing, handler, session>>
    BY <1>1, <1>17, RefuseEffect
  <2>2. m.type \notin EventTypes
    BY <2>1 DEF EventTypes
  <2>3. QED
    BY <1>2, <2>1, <2>2, LoggedKept DEF AllLogged
<1>18. CASE OpenResume
  <2>1. /\ outgoing' = << >> /\ handler'.replay = << >> /\ UNCHANGED to_client
        /\ session'.log = session.log \/ Added(session.log, session'.log, "commit")
    BY <1>1, <1>18, OpenEffect
  <2>2. QED
    BY <1>2, <2>1, LoggedKept, LoggedEmpty DEF AllLogged
<1>19. CASE Ready
  <2> DEFINE m == Msg("ready", session.chunks)
  <2>1. /\ Added(to_client, to_client', m) /\ m.type = "ready"
        /\ UNCHANGED <<outgoing, session>>
    BY <1>1, <1>19, ReadyEffect
  <2> HIDE DEF m
  <2>2. m.type \notin EventTypes
    BY <2>1 DEF EventTypes
  <2>3. Logged(handler'.replay, session.log)
    <3>1. /\ handler.acknowledged \in Int
          /\ \A i \in 1..Len(handler'.replay) :
               /\ handler.acknowledged + 1 + i \in 1..Len(session.log)
               /\ handler'.replay[i].value = handler.acknowledged + i
               /\ handler'.replay[i].type = session.log[handler.acknowledged + 1 + i]
      BY <1>1, <1>19, ReadyEffect DEF HandlerType, None
    <3>2. \A i \in 1..Len(handler'.replay) :
            handler'.replay[i].value + 1 = handler.acknowledged + 1 + i
      BY <3>1
    <3>3. QED
      BY <3>1, <3>2 DEF Logged
  <2>4. QED
    BY <1>2, <2>1, <2>2, <2>3, LoggedKept DEF AllLogged
<1>20. CASE QueueReplay
  <2>1. /\ UNCHANGED <<to_client, session>>
        /\ \/ handler'.replay = handler.replay /\ UNCHANGED outgoing
           \/ /\ Dropped(handler.replay, handler'.replay)
              /\ Added(outgoing, outgoing', handler.replay[1])
    BY <1>1, <1>20, QueueReplayEffect
  <2>2. CASE UNCHANGED outgoing /\ handler'.replay = handler.replay
    BY <1>2, <2>1, <2>2 DEF AllLogged
  <2>3. CASE /\ Dropped(handler.replay, handler'.replay)
             /\ Added(outgoing, outgoing', handler.replay[1])
    <3>1. \/ handler.replay[1].type \notin EventTypes
          \/ /\ handler.replay[1].value + 1 \in 1..Len(session.log)
             /\ session.log[handler.replay[1].value + 1] = handler.replay[1].type
      BY <1>2, <2>3, HeadLogged DEF AllLogged
    <3>2. QED
      BY <1>2, <2>1, <2>3, <3>1, LoggedKept DEF AllLogged
  <2>4. QED
    BY <2>1, <2>2, <2>3
<1>21. CASE HandleFrame
  <2>1. PICK whole \in Nat, rest \in Nat, pauses \in BOOLEAN, q \in Seq(Message),
             p \in Message, ack \in Message : Stores(whole, rest, pauses, q, p, ack)
    BY <1>21, <1>1, HandleFrameEffect
  <2>2. /\ UNCHANGED outgoing /\ handler'.replay = handler.replay
        /\ session'.log = session.log
    BY <1>1, <2>1 DEF Stores, HandlerType, SessionType
  <2>3. p.type \notin EventTypes /\ ack.type \notin EventTypes
    BY <2>1 DEF Stores, EventTypes
  <2>4. Logged(q, session.log)
    BY <1>2, <2>1, <2>3, LoggedKept DEF Stores, AllLogged
  <2>5. Logged(to_client', session.log)
    BY <2>1, <2>3, <2>4, LoggedKept DEF Stores
  <2>6. QED
    BY <1>2, <2>2, <2>5 DEF AllLogged
<1>22. CASE HandleEnd
  <2>1. /\ handler'.replay = handler.replay /\ UNCHANGED outgoing
        /\ session'.log = session.log
        /\ UNCHANGED to_client \/ \E ack \in Message : /\ Added(to_client, to_client', ack)
                                                       /\ ack.type = "audio_ack"
    BY <1>1, <1>22, HandleEndEffect DEF SessionType
  <2>2. "audio_ack" \notin EventTypes
    BY DEF EventTypes
  <2>3. QED
    BY <1>2, <2>1, <2>2, LoggedKept DEF AllLogged
<1>23. CASE TakeChunk
  <2>1. PICK q \in Seq(Message), flow \in Message, event \in Message,
             kind \in {"nothing", "partial", "commit"}, drops \in BOOLEAN :
               Takes(q, flow, event, kind, drops)
    BY <1>23, <1>1, TakeEffect
  <2>2. UNCHANGED to_client /\ handler'.replay = handler.replay
    BY <1>1, <2>1 DEF Takes, HandlerType
  <2>3. Logged(q, session.log)
    <3>1. flow.type \notin EventTypes
      BY <2>1 DEF Takes, EventTypes
    <3>2. QED
      BY <1>2, <2>1, <3>1, LoggedKept DEF Takes, AllLogged
  <2>4. CASE session'.log = session.log /\ outgoing' = q
    BY <1>2, <2>2, <2>3, <2>4 DEF AllLogged
  <2>5. CASE /\ Added(session.log, session'.log, kind)
             /\ event.type = kind /\ event.value = Len(session.log)
             /\ outgoing' = q \/ Added(q, outgoing', event)
    <3>1. /\ Logged(to_client, session'.log) /\ Logged(handler.replay, session'.log)
          /\ Logged(q, session'.log)
      BY <1>2, <2>3, <2>5, LoggedKept DEF AllLogged
    <3>2. event.value + 1 \in 1..Len(session'.log) /\ session'.log[event.value + 1] = event.type
      BY <2>5 DEF Added
    <3>3. Logged(outgoing', session'.log)
      BY <2>5, <3>1, <3>2, LoggedKept
    <3>4. QED
      BY <2>2, <3>1, <3>3 DEF AllLogged
  <2>6. QED
    BY <2>1, <2>4, <2>5 DEF Takes
<1>24. CASE WorkerEnds
  <2>1. PICK event \in Message : Ends(event)
    BY <1>1, <1>24, EndsEffect
  <2>2. UNCHANGED to_client /\ handler'.replay = handler.replay
    BY <1>1, <2>1 DEF Ends, HandlerType
  <2>3. /\ Logged(to_client, session'.log) /\ Logged(handler.replay, session'.log)
        /\ Logged(outgoing, session'.log)
    BY <1>2, <2>1, LoggedKept DEF Ends, AllLogged
  <2>4. event.value + 1 \in 1..Len(session'.log) /\ session'.log[event.value + 1] = event.type
    BY <2>1 DEF Ends, Added
  <2>5. Logged(outgoing', session'.log)
    BY <2>1, <2>3, <2>4, LoggedKept DEF Ends
  <2>6. QED
    BY <2>2, <2>3, <2>5 DEF AllLogged
<1>25. CASE Send
  <2>1. /\ Added(to_client, to_client', outgoing[1]) /\ Dropped(outgoing, outgoing')
        /\ UNCHANGED <<session, handler>>
    BY <1>1, <1>25, SendEffect
  <2>2. \/ outgoing[1].type \notin EventTypes
        \/ /\ outgoing[1].value + 1 \in 1..Len(session.log)
           /\ session.log[outgoing[1].value + 1] = outgoing[1].type
    BY <1>2, <2>1, HeadLogged DEF AllLogged
  <2>3. QED
    BY <1>2, <2>1, <2>2, LoggedKept DEF AllLogged
<1>26. CASE Detach
  <2>1. /\ UNCHANGED <<to_client, outgoing, session>>
        /\ handler'.replay = handler.replay
    BY <1>1, <1>26 DEF Detach, HandlerType
  <2>2. QED
    BY <1>2, <2>1 DEF AllLogged
<1>27. CASE Release
  <2>1. /\ UNCHANGED to_client /\ outgoing' = << >> /\ handler'.replay = << >>
        /\ session'.log = session.log
    BY <1>1, <1>27 DEF Release, Idle, clientSide, SessionType
  <2>2. QED
    BY <1>2, <2>1, LoggedEmpty DEF AllLogged
<1>28. CASE ServerFails
  <2>1. PICK m \in Message :
          /\ Added(to_client, to_client', m) /\ m.type = "error"
          /\ handler'.replay = handler.replay /\ UNCHANGED <<outgoing, session>>
    BY <1>1, <1>28, ServerFailsEffect DEF HandlerType
  <2>2. m.type \notin EventTypes
    BY <2>1 DEF EventTypes
  <2>3. QED
    BY <1>2, <2>1, <2>2, LoggedKept DEF AllLogged
<1>29. CASE ServerRestarts
  <2>1. /\ UNCHANGED to_client /\ outgoing' = << >> /\ handler'.replay = << >>
        /\ session'.log = session.log
    BY <1>1, <1>29 DEF ServerRestarts, Idle, SessionType
  <2>2. QED
    BY <1>2, <2>1, LoggedEmpty DEF AllLogged
<1>30. QED
  BY <1>3, <1>4, <1>5, <1>6, <1>7, <1>8, <1>9, <1>10, <1>11, <1>12, <1>13, <1>14,
     <1>15, <1>16, <1>17, <1>18, <1>19, <1>20, <1>21, <1>22, <1>23, <1>24, <1>25,
     <1>26, <1>27, <1>28, <1>29, <1>1, GateSteps
     DEF Next, GateStep, Server

LEMMA FinalLastKept ==
  ASSUME Evidence, Next
  PROVE  FinalLast'
<1>1. /\ client \in ClientType /\ handler \in HandlerType /\ session \in SessionType
      /\ Wired
  BY Types DEF Evidence, Wired
<1>2. FinalLast /\ Started /\ Finished
  BY DEF Evidence
<1>3. CASE Fails
  <2>1. UNCHANGED session /\ handler'.at = handler.at
    BY <1>1, <1>3, CloseEffect DEF Fails
  <2>2. QED
    BY <1>2, <2>1 DEF FinalLast, Running
<1>4. CASE Consume
  <2>1. UNCHANGED session /\ handler'.at = handler.at
    BY <1>1, <1>4, ConsumeEffect
  <2>2. QED
    BY <1>2, <2>1 DEF FinalLast, Running
<1>5. CASE ReceiverBreaks
  <2>1. UNCHANGED session /\ handler'.at = handler.at
    BY <1>1, <1>5 DEF ReceiverBreaks
  <2>2. QED
    BY <1>2, <2>1 DEF FinalLast, Running
<1>6. CASE ReceiveReady
  <2>1. UNCHANGED session /\ handler'.at = handler.at
    BY <1>1, <1>6, ReceiveReadyEffect
  <2>2. QED
    BY <1>2, <2>1 DEF FinalLast, Running
<1>7. CASE CheckReceiver
  <2>1. UNCHANGED session /\ handler'.at = handler.at
    BY <1>1, <1>7 DEF CheckReceiver, serverVars
  <2>2. QED
    BY <1>2, <2>1 DEF FinalLast, Running
<1>8. CASE SendBlock /\ connected
  <2>1. UNCHANGED session /\ handler'.at = handler.at
    BY <1>1, <1>8, SendBlockEffect
  <2>2. QED
    BY <1>2, <2>1 DEF FinalLast, Running
<1>9. CASE SendEnd /\ connected
  <2>1. UNCHANGED session /\ handler'.at = handler.at
    BY <1>1, <1>9, SendEndEffect
  <2>2. QED
    BY <1>2, <2>1 DEF FinalLast, Running
<1>10. CASE SessionResult
  <2>1. UNCHANGED session /\ handler'.at = handler.at
    BY <1>1, <1>10, CloseEffect DEF SessionResult
  <2>2. QED
    BY <1>2, <2>1 DEF FinalLast, Running
<1>11. CASE SendFrame /\ connected
  <2>1. UNCHANGED session /\ handler'.at = handler.at
    BY <1>1, <1>11, SendFrameEffect
  <2>2. QED
    BY <1>2, <2>1 DEF FinalLast, Running
<1>12. CASE Disconnects
  <2>1. UNCHANGED session /\ handler'.at = handler.at
    BY <1>1, <1>12, CloseEffect DEF Disconnects, Drained
  <2>2. QED
    BY <1>2, <2>1 DEF FinalLast, Running
<1>13. CASE AskResume
  <2>1. UNCHANGED session /\ handler'.at = handler.at
    BY <1>1, <1>13, AskResumeEffect
  <2>2. QED
    BY <1>2, <2>1 DEF FinalLast, Running
<1>14. CASE Retries
  <2>1. UNCHANGED session /\ handler'.at = handler.at
    BY <1>1, <1>14, CloseEffect DEF Retries
  <2>2. QED
    BY <1>2, <2>1 DEF FinalLast, Running
<1>15. CASE ProbeResult
  <2>1. UNCHANGED session /\ handler'.at = handler.at
    BY <1>1, <1>15, CloseEffect DEF ProbeResult
  <2>2. QED
    BY <1>2, <2>1 DEF FinalLast, Running
<1>16. CASE StartSession
  <2>1. /\ to_server # << >> /\ to_server[1].type = "start"
        /\ session'.log = session.log /\ session'.known = TRUE
    BY <1>1, <1>16, StartEffect DEF SessionType
  <2>2. Len(session.log) = 0
    BY <1>1, <1>2, <2>1, FirstRequest DEF Started
  <2>3. QED
    BY <2>1, <2>2 DEF FinalLast
<1>17. CASE RefuseResume
  <2>1. UNCHANGED session /\ handler'.at = handler.at
    BY <1>1, <1>17, RefuseEffect
  <2>2. QED
    BY <1>2, <2>1 DEF FinalLast, Running
<1>18. CASE OpenResume
  <2>1. /\ session'.known = session.known /\ session.known
        /\ session'.log = session.log \/ Added(session.log, session'.log, "commit")
    BY <1>1, <1>18, OpenEffect
  <2>2. \A i \in 1..Len(session'.log) : session'.log[i] # "final"
    BY <1>2, <2>1 DEF FinalLast, Added
  <2>3. QED
    BY <2>1, <2>2 DEF FinalLast
<1>19. CASE Ready
  <2>1. UNCHANGED session /\ handler.at = "starting"
    BY <1>1, <1>19, ReadyEffect
  <2>2. \A i \in 1..Len(session.log) : session.log[i] # "final"
    BY <1>2, <2>1 DEF FinalLast, Running
  <2>3. QED
    BY <1>2, <2>1, <2>2 DEF FinalLast, Running
<1>20. CASE QueueReplay
  <2>1. UNCHANGED session /\ handler.at = "replaying"
    BY <1>1, <1>20, QueueReplayEffect
  <2>2. \A i \in 1..Len(session.log) : session.log[i] # "final"
    BY <1>2, <2>1 DEF FinalLast, Running
  <2>3. QED
    BY <1>2, <2>1, <2>2 DEF FinalLast, Running
<1>21. CASE HandleFrame
  <2>0. PICK whole \in Nat, rest \in Nat, pauses \in BOOLEAN, q \in Seq(Message),
             p \in Message, ack \in Message : Stores(whole, rest, pauses, q, p, ack)
    BY <1>21, <1>1, HandleFrameEffect
  <2>1. /\ session'.log = session.log /\ session'.known = session.known
        /\ handler.at = "serving"
    BY <1>1, <2>0 DEF Stores, SessionType
  <2>2. \A i \in 1..Len(session.log) : session.log[i] # "final"
    BY <1>2, <2>1 DEF FinalLast, Running
  <2>3. QED
    BY <1>2, <2>1, <2>2 DEF FinalLast, Running
<1>22. CASE HandleEnd
  <2>1. /\ session'.log = session.log /\ session'.known = session.known
        /\ handler.at = "serving"
    BY <1>1, <1>22, HandleEndEffect DEF SessionType
  <2>2. \A i \in 1..Len(session.log) : session.log[i] # "final"
    BY <1>2, <2>1 DEF FinalLast, Running
  <2>3. QED
    BY <1>2, <2>1, <2>2 DEF FinalLast, Running
<1>23. CASE TakeChunk
  <2>1. PICK q \in Seq(Message), flow \in Message, event \in Message,
             kind \in {"nothing", "partial", "commit"}, drops \in BOOLEAN :
               Takes(q, flow, event, kind, drops)
    BY <1>23, <1>1, TakeEffect
  <2>2. session.known /\ \A i \in 1..Len(session.log) : session.log[i] # "final"
    BY <1>2, <2>1 DEF FinalLast, Running, Takes
  <2>3. /\ session'.known = session.known
        /\ \/ session'.log = session.log
           \/ Added(session.log, session'.log, kind) /\ kind # "final"
    BY <2>1 DEF Takes
  <2>4. \A i \in 1..Len(session'.log) : session'.log[i] # "final"
    BY <2>2, <2>3 DEF Added
  <2>5. QED
    BY <2>2, <2>3, <2>4 DEF FinalLast
<1>24. CASE WorkerEnds
  <2>1. PICK event \in Message : Ends(event)
    BY <1>1, <1>24, EndsEffect
  <2>2. session.known /\ \A i \in 1..Len(session.log) : session.log[i] # "final"
    BY <1>2, <2>1 DEF FinalLast, Running, Ends
  <2>3. /\ Added(session.log, session'.log, event.type)
        /\ session'.known = (event.type # "final")
        /\ session'.stored = session.stored
        /\ handler.at = "finishing"
        /\ handler'.at = IF event.type = "final" THEN "ended" ELSE "finishing"
    BY <1>1, <2>1 DEF Ends, HandlerType
  <2>4. session'.stored = total_samples
    BY <1>2, <2>3 DEF Finished
  <2>5. \A i \in 1..Len(session'.log) : session'.log[i] = "final" =>
          i = Len(session'.log) /\ event.type = "final"
    BY <2>2, <2>3 DEF Added
  <2>6. QED
    BY <2>3, <2>4, <2>5 DEF FinalLast, Running
<1>25. CASE Send
  <2>1. UNCHANGED session /\ handler'.at = handler.at
    BY <1>1, <1>25, SendEffect
  <2>2. QED
    BY <1>2, <2>1 DEF FinalLast, Running
<1>26. CASE Detach
  <2>1. UNCHANGED session /\ handler'.at = "closing"
    BY <1>1, <1>26 DEF Detach, HandlerType
  <2>2. QED
    BY <1>2, <2>1 DEF FinalLast, Running
<1>27. CASE Release
  <2>1. UNCHANGED session /\ handler'.at = "idle"
    BY <1>1, <1>27 DEF Release, Idle
  <2>2. QED
    BY <1>2, <2>1 DEF FinalLast, Running
<1>28. CASE ServerFails
  <2>1. UNCHANGED session /\ Running /\ handler'.at = "closing"
    BY <1>1, <1>28, ServerFailsEffect DEF HandlerType
  <2>2. QED
    BY <1>2, <2>1 DEF FinalLast, Running
<1>29. CASE ServerRestarts
  <2>1. /\ session'.log = session.log /\ session'.stored = session.stored
        /\ session'.known = FALSE /\ handler'.at = "idle"
    BY <1>1, <1>29 DEF ServerRestarts, Idle, SessionType
  <2>2. QED
    BY <1>2, <2>1 DEF FinalLast, Running
<1>30. QED
  BY <1>3, <1>4, <1>5, <1>6, <1>7, <1>8, <1>9, <1>10, <1>11, <1>12, <1>13, <1>14,
     <1>15, <1>16, <1>17, <1>18, <1>19, <1>20, <1>21, <1>22, <1>23, <1>24, <1>25,
     <1>26, <1>27, <1>28, <1>29, <1>1, GateSteps
     DEF Next, GateStep, Server

LEMMA SeenGrows ==
  ASSUME Seen, client.last_sequence \in Nat \cup {None}, client' = client,
         session'.log = session.log \/ \E last : Added(session.log, session'.log, last)
  PROVE  Seen'
<1>1. CASE session'.log = session.log
  BY <1>1 DEF Seen
<1>2. ASSUME NEW kind, Added(session.log, session'.log, kind) PROVE Seen'
  <2> DEFINE n == client.last_sequence + 1
  <2>1. /\ Len(session.log) \in Nat /\ Len(session'.log) = Len(session.log) + 1
        /\ \A i \in 1..Len(session.log) : session'.log[i] = session.log[i]
    BY <1>2 DEF Added
  <2>2. n \in 0..Len(session.log) /\ (client.last_sequence # None => n # 0)
    BY DEF Seen, None
  <2>3. client.last_sequence # None => session'.log[n] = session.log[n]
    BY <2>1, <2>2
  <2>4. n \in 0..Len(session'.log)
    BY <2>1, <2>2
  <2>5. QED
    BY <2>3, <2>4 DEF Seen
<1>3. QED
  BY <1>1, <1>2

LEMMA SeenKept ==
  ASSUME Evidence, Next
  PROVE  Seen'
<1>1. /\ client \in ClientType /\ handler \in HandlerType /\ session \in SessionType
      /\ Wired
  BY Types DEF Evidence, Wired
<1>2. Seen /\ AllLogged
  BY DEF Evidence
<1>3. client.last_sequence \in Nat \cup {None}
  BY <1>1 DEF ClientType
<1>4. CASE Fails
  <2>1. /\ client'.last_sequence = client.last_sequence
        /\ client'.ended = client.ended
        /\ session'.log = session.log
    BY <1>1, <1>4 DEF Fails, ClientType
  <2>2. QED
    BY <1>2, <2>1 DEF Seen
<1>5. CASE Consume
  <2> DEFINE m == to_client[1]
  <2>1. /\ Dropped(to_client, to_client') /\ m \in Message /\ UNCHANGED session
        /\ client'.last_sequence = IF m.type \in EventTypes THEN m.value
                                   ELSE client.last_sequence
        /\ client'.ended = IF m.type \in EventTypes THEN m.type = "final" ELSE client.ended
    BY <1>1, <1>5, ConsumeEffect
  <2>2. m.type \in EventTypes =>
          m.value + 1 \in 1..Len(session.log) /\ session.log[m.value + 1] = m.type
    BY <1>2, <2>1, HeadLogged DEF AllLogged
  <2>3. m.value \in Nat \cup {None}
    BY <2>1 DEF Message
  <2> HIDE DEF m
  <2>4. CASE m.type \in EventTypes
    <3>1. /\ client'.last_sequence = m.value /\ client'.ended = (m.type = "final")
          /\ m.value + 1 \in 1..Len(session.log)
          /\ session.log[m.value + 1] = m.type
      BY <2>1, <2>2, <2>4
    <3>2. m.value # None /\ m.value + 1 \in 0..Len(session.log)
      BY <2>3, <3>1 DEF None
    <3>3. QED
      BY <2>1, <3>1, <3>2 DEF Seen
  <2>5. CASE m.type \notin EventTypes
    BY <1>2, <2>1, <2>5 DEF Seen
  <2>6. QED
    BY <2>4, <2>5
<1>6. CASE ReceiverBreaks
  <2>1. /\ client'.last_sequence = client.last_sequence
        /\ client'.ended = client.ended
        /\ session'.log = session.log
    BY <1>1, <1>6 DEF ReceiverBreaks, ClientType
  <2>2. QED
    BY <1>2, <2>1 DEF Seen
<1>7. CASE ReceiveReady
  <2>1. /\ client'.last_sequence = client.last_sequence
        /\ client'.ended = client.ended
        /\ session'.log = session.log
    BY <1>1, <1>7, ReceiveReadyEffect
  <2>2. QED
    BY <1>2, <2>1 DEF Seen
<1>8. CASE CheckReceiver
  <2>1. /\ client'.last_sequence = client.last_sequence
        /\ client'.ended = client.ended
        /\ session'.log = session.log
    BY <1>1, <1>8 DEF CheckReceiver, serverVars, ClientType
  <2>2. QED
    BY <1>2, <2>1 DEF Seen
<1>9. CASE SendBlock /\ connected
  <2>1. /\ client'.last_sequence = client.last_sequence
        /\ client'.ended = client.ended
        /\ session'.log = session.log
    BY <1>1, <1>9, SendBlockEffect DEF FrameSent, ClientType
  <2>2. QED
    BY <1>2, <2>1 DEF Seen
<1>10. CASE SendEnd /\ connected
  <2>1. /\ client'.last_sequence = client.last_sequence
        /\ client'.ended = client.ended
        /\ session'.log = session.log
    BY <1>1, <1>10, SendEndEffect DEF ClientType
  <2>2. QED
    BY <1>2, <2>1 DEF Seen
<1>11. CASE SessionResult
  <2>1. /\ client'.last_sequence = client.last_sequence
        /\ client'.ended = client.ended
        /\ session'.log = session.log
    BY <1>1, <1>11 DEF SessionResult, ClientType
  <2>2. QED
    BY <1>2, <2>1 DEF Seen
<1>12. CASE SendFrame /\ connected
  <2>1. /\ client'.last_sequence = client.last_sequence
        /\ client'.ended = client.ended
        /\ session'.log = session.log
    BY <1>1, <1>12, SendFrameEffect DEF FrameSent, ClientType
  <2>2. QED
    BY <1>2, <2>1 DEF Seen
<1>13. CASE Disconnects
  <2>1. /\ client'.last_sequence = client.last_sequence
        /\ client'.ended = client.ended
        /\ session'.log = session.log
    BY <1>1, <1>13 DEF Disconnects, Drained, ClientType
  <2>2. QED
    BY <1>2, <2>1 DEF Seen
<1>14. CASE AskResume
  <2>1. /\ client'.last_sequence = client.last_sequence
        /\ client'.ended = client.ended
        /\ session'.log = session.log
    BY <1>1, <1>14, AskResumeEffect DEF ClientType
  <2>2. QED
    BY <1>2, <2>1 DEF Seen
<1>15. CASE Retries
  <2>1. /\ client'.last_sequence = client.last_sequence
        /\ client'.ended = client.ended
        /\ session'.log = session.log
    BY <1>1, <1>15 DEF Retries, ClientType
  <2>2. QED
    BY <1>2, <2>1 DEF Seen
<1>16. CASE ProbeResult
  <2>1. /\ client'.last_sequence = client.last_sequence
        /\ client'.ended = client.ended
        /\ session'.log = session.log
    BY <1>1, <1>16 DEF ProbeResult, ClientType
  <2>2. QED
    BY <1>2, <2>1 DEF Seen
<1>17. CASE StartSession
  <2>1. /\ client'.last_sequence = client.last_sequence
        /\ client'.ended = client.ended
        /\ session'.log = session.log
    BY <1>1, <1>17, StartEffect DEF SessionType
  <2>2. QED
    BY <1>2, <2>1 DEF Seen
<1>18. CASE RefuseResume
  <2>1. /\ client'.last_sequence = client.last_sequence
        /\ client'.ended = client.ended
        /\ session'.log = session.log
    BY <1>1, <1>18, RefuseEffect
  <2>2. QED
    BY <1>2, <2>1 DEF Seen
<1>19. CASE OpenResume
  <2>1. /\ UNCHANGED client
        /\ session'.log = session.log \/ \E last : Added(session.log, session'.log, last)
    BY <1>1, <1>19, OpenEffect
  <2>2. QED
    BY <1>2, <1>3, <2>1, SeenGrows
<1>20. CASE Ready
  <2>1. /\ client'.last_sequence = client.last_sequence
        /\ client'.ended = client.ended
        /\ session'.log = session.log
    BY <1>1, <1>20, ReadyEffect
  <2>2. QED
    BY <1>2, <2>1 DEF Seen
<1>21. CASE QueueReplay
  <2>1. /\ client'.last_sequence = client.last_sequence
        /\ client'.ended = client.ended
        /\ session'.log = session.log
    BY <1>1, <1>21, QueueReplayEffect
  <2>2. QED
    BY <1>2, <2>1 DEF Seen
<1>22. CASE HandleFrame
  <2>0. PICK whole \in Nat, rest \in Nat, pauses \in BOOLEAN, q \in Seq(Message),
             p \in Message, ack \in Message : Stores(whole, rest, pauses, q, p, ack)
    BY <1>22, <1>1, HandleFrameEffect
  <2>1. /\ client'.last_sequence = client.last_sequence
        /\ client'.ended = client.ended
        /\ session'.log = session.log
    BY <1>1, <2>0 DEF Stores, SessionType
  <2>2. QED
    BY <1>2, <2>1 DEF Seen
<1>23. CASE HandleEnd
  <2>1. /\ client'.last_sequence = client.last_sequence
        /\ client'.ended = client.ended
        /\ session'.log = session.log
    BY <1>1, <1>23, HandleEndEffect DEF SessionType
  <2>2. QED
    BY <1>2, <2>1 DEF Seen
<1>24. CASE TakeChunk
  <2>0. PICK q \in Seq(Message), flow \in Message, event \in Message,
             kind \in {"nothing", "partial", "commit"}, drops \in BOOLEAN :
               Takes(q, flow, event, kind, drops)
    BY <1>24, <1>1, TakeEffect
  <2>1. /\ UNCHANGED client
        /\ session'.log = session.log \/ \E last : Added(session.log, session'.log, last)
    BY <2>0 DEF Takes
  <2>2. QED
    BY <1>2, <1>3, <2>1, SeenGrows
<1>25. CASE WorkerEnds
  <2>1. /\ UNCHANGED client
        /\ session'.log = session.log \/ \E last : Added(session.log, session'.log, last)
    BY <1>1, <1>25, EndsEffect DEF Ends
  <2>2. QED
    BY <1>2, <1>3, <2>1, SeenGrows
<1>26. CASE Send
  <2>1. /\ client'.last_sequence = client.last_sequence
        /\ client'.ended = client.ended
        /\ session'.log = session.log
    BY <1>1, <1>26, SendEffect
  <2>2. QED
    BY <1>2, <2>1 DEF Seen
<1>27. CASE Detach
  <2>1. /\ client'.last_sequence = client.last_sequence
        /\ client'.ended = client.ended
        /\ session'.log = session.log
    BY <1>1, <1>27 DEF Detach
  <2>2. QED
    BY <1>2, <2>1 DEF Seen
<1>28. CASE Release
  <2>1. /\ client'.last_sequence = client.last_sequence
        /\ client'.ended = client.ended
        /\ session'.log = session.log
    BY <1>1, <1>28 DEF Release, clientSide
  <2>2. QED
    BY <1>2, <2>1 DEF Seen
<1>29. CASE ServerFails
  <2>1. /\ client'.last_sequence = client.last_sequence
        /\ client'.ended = client.ended
        /\ session'.log = session.log
    BY <1>1, <1>29, ServerFailsEffect
  <2>2. QED
    BY <1>2, <2>1 DEF Seen
<1>30. CASE ServerRestarts
  <2>1. /\ client'.last_sequence = client.last_sequence
        /\ client'.ended = client.ended
        /\ session'.log = session.log
    BY <1>1, <1>30 DEF ServerRestarts, SessionType
  <2>2. QED
    BY <1>2, <2>1 DEF Seen
<1>31. QED
  BY <1>4, <1>5, <1>6, <1>7, <1>8, <1>9, <1>10, <1>11, <1>12, <1>13, <1>14, <1>15,
     <1>16, <1>17, <1>18, <1>19, <1>20, <1>21, <1>22, <1>23, <1>24, <1>25, <1>26,
     <1>27, <1>28, <1>29, <1>30, <1>1, GateSteps
     DEF Next, GateStep, Server

LEMMA EvidenceInit == Init => Evidence
<1> SUFFICES ASSUME Init PROVE Evidence
  OBVIOUS
<1>1. /\ session.stored = 0 /\ session.chunks = 0 /\ session.log = << >>
      /\ session.known = FALSE
      /\ handler.at = "idle" /\ ~handler.attached /\ handler.replay = << >>
      /\ to_client = << >> /\ outgoing = << >>
      /\ client.stage = "starting" /\ client.buffered = None
      /\ client.last_sequence = None
      /\ client.ended = FALSE
  BY DEF Init, Idle
<1>2. Len(session.log) = 0 /\ Len(to_client) = 0 /\ None + 1 = 0
  BY <1>1, EmptyQueue DEF None
<1>3. Started /\ Conserved /\ Finished /\ Halted /\ AllLogged /\ FinalLast
  BY <1>1, <1>2, LoggedEmpty
     DEF Started, Conserved, Finished, Halted, AllLogged, FinalLast, Running
<1>4. Paced
  BY <1>1, <1>2, AckKept DEF Paced, Arriving
<1>5. Seen
  BY <1>1, <1>2 DEF Seen
<1>6. QED
  BY <1>3, <1>4, <1>5, WiredInit DEF Evidence

LEMMA EvidenceStep == Evidence /\ [Next]_vars => Evidence'
<1> SUFFICES ASSUME Evidence, [Next]_vars PROVE Evidence'
  OBVIOUS
<1>1. Wired'
  BY WiredStep DEF Evidence
<1>2. CASE Next
  BY <1>1, <1>2, StartedKept, ConservedKept, FinishedKept, PacedKept, HaltedKept,
     AllLoggedKept, FinalLastKept, SeenKept DEF Evidence
<1>3. CASE UNCHANGED vars
  BY <1>1, <1>3
     DEF vars, Evidence, Started, Conserved, Finished, Paced, OneAck, Halted,
         AllLogged, FinalLast, Running, Seen
<1>4. QED
  BY <1>2, <1>3

LEMMA EvidenceShows == Evidence => PassedMeansRecovered
<1> SUFFICES ASSUME Evidence, client.outcome = "passed"
             PROVE  /\ session.stored = total_samples
                    /\ client.ended /\ client.last_sequence = Len(session.log) - 1
  BY DEF PassedMeansRecovered
<1>1. client.ended
  BY DEF Evidence, Wired, ClientShape
<1>2. /\ client.last_sequence \in Nat \cup {None}
      /\ Len(session.log) \in Nat
  BY Types, Elements DEF Evidence, Wired, ClientType, SessionType
<1> DEFINE n == client.last_sequence + 1
<1>3. n \in 1..Len(session.log) /\ session.log[n] = "final"
  BY <1>1, <1>2 DEF Evidence, Seen, None
<1>4. n = Len(session.log) /\ session.stored = total_samples
  BY <1>3 DEF Evidence, FinalLast
<1>5. client.last_sequence = Len(session.log) - 1
  BY <1>2, <1>4 DEF None
<1>6. QED
  BY <1>1, <1>4, <1>5

\* The invariant that what a passed result shows is proved from.
THEOREM EvidenceInvariant == Spec => []Evidence
  BY EvidenceInit, EvidenceStep, PTL DEF Spec

\* The state of the gate's client and of the server it measures is well formed.
THEOREM ProbeTypeCorrect == Spec => []TypeOK
<1>1. Evidence => TypeOK
  BY DEF Evidence, Wired
<1>2. QED
  BY <1>1, EvidenceInvariant, PTL

\* A passed result is evidence, whatever failed on the way: all of the audio is
\* stored, and the events of the session, through the terminal one, have been
\* received without a gap.
THEOREM PassedRecovered == Spec => []PassedMeansRecovered
  BY EvidenceInvariant, EvidenceShows, PTL
-----------------------------------------------------------------------------
(* Why a failed result has a cause.  First what holds whatever goes wrong. *)

Final == Len(session.log) > 0 /\ session.log[Len(session.log)] = "final"

\* What is left in a handler that has read everything, or that serves nobody.
Emptied ==
  /\ Final \/ handler.at \in {"idle", "finishing"} => handler.buffer = 0
  /\ Final \/ handler.at \in {"idle", "starting", "serving", "finishing"} =>
       handler.replay = << >>
  /\ handler.at = "ended" => Final
  /\ Final => client.stage \in {"ending", "done"}

\* The coroutine: its receiver stops at the terminal event, and its first leg
\* before the last frame.
Legs ==
  /\ client.kind = "session" /\ client.receiver = "running" => ~client.ended
  /\ client.kind = "probe" /\ client.leg = 1 => client.sent < total_samples
  /\ client.stage = "starting" => client.last_ack = None /\ client.receiver = "running"

NothingStored == session.chunks = 0 => session.stored = 0

\* What a resumed session is told is how much of it is stored.
Offered ==
  client.stage = "resuming" =>
    \A i \in 1..Len(to_client) :
      to_client[i].type = "ready" => to_client[i].value = session.chunks

\* Nothing is acknowledged after the terminal event.
LastWord(q) ==
  \A i, j \in 1..Len(q) : q[i].type = "final" /\ i < j => q[j].type # "audio_ack"
Silent == (client.ended => NoAck(to_client)) /\ LastWord(to_client)

Settled == Emptied /\ Legs /\ NothingStored /\ Offered /\ Silent

\* Nothing has happened that explains a failure, and there is no result.
Quiet == excuse = "none" /\ client.outcome = "none"

\* The server leaves only a client that has nothing to wait for, or one that
\* may ask again.
Reachable ==
  /\ client.receiver # "failed"
  /\ client.stage = "starting" => connected
  /\ client.stage = "resuming" /\ ~connected =>
       Len(to_client) > 0 /\ to_client[1].type = "conflict"
  /\ client.stage \in Talking /\ ~connected => Final /\ handler.at \in {"closing", "idle"}
  /\ session.known \/ Final \/ client.stage = "starting"
  /\ \A i \in 1..Len(to_client) : to_client[i].type # "error"

\* Acknowledgements never move backwards, and the last one says what is stored
\* and what is buffered.
IsAck(m) == m.type = "audio_ack"
Rising(q, low, chunks, buffer) ==
  \A i \in 1..Len(q) : IsAck(q[i]) =>
    /\ low <= q[i].value /\ q[i].value + 1 <= chunks
    /\ \A j \in 1..Len(q) : i < j /\ IsAck(q[j]) => q[i].value <= q[j].value
    /\ \/ \E j \in 1..Len(q) : i < j /\ IsAck(q[j])
       \/ q[i].value + 1 = chunks /\ q[i].buffered = buffer
Acknowledged ==
  /\ client.last_ack + 1 <= session.chunks
  /\ Rising(to_client, client.last_ack, session.chunks, handler.buffer)
  /\ NoAck(to_client) =>
       /\ client.last_ack + 1 = session.chunks
       /\ \/ client.buffered = handler.buffer
          \/ client.buffered = None /\ session.chunks = 0

\* The second leg goes on where the first one stopped, before the end.
Resumable ==
  /\ client.leg = 2 => client.first_ack + 1 <= session.chunks
  /\ client.leg = 2 /\ client.first_ack + 1 = session.chunks =>
       session.stored < total_samples
  /\ client.stage \in {"retrying", "resuming"} => client.first_ack + 1 = session.chunks

\* The events of q are numbered from lo to hi - 1; at[i] is the next number at
\* the i-th message.
Runs(q, lo, hi) ==
  \E at \in [1..(Len(q) + 1) -> Nat] :
    /\ at[1] = lo /\ at[Len(q) + 1] = hi
    /\ \A i \in 1..Len(q) :
         IF q[i].type \in EventTypes
         THEN q[i].value = at[i] /\ at[i + 1] = at[i] + 1
         ELSE at[i + 1] = at[i]

\* What is on its way to the gate, queued and still to be queued continues what
\* it has seen, through the end of the log.
Piped(a, b) ==
  /\ Runs(to_client, client.last_sequence + 1, a) /\ Runs(outgoing, a, b)
  /\ Runs(handler.replay, b, Len(session.log))
Numbered ==
  /\ handler.attached /\ handler.at = "starting" =>
       /\ \A i \in 1..Len(outgoing) : outgoing[i].type \notin EventTypes
       /\ handler.acknowledged = client.last_sequence
  /\ Final /\ handler.at \in {"closing", "idle"} => Len(outgoing) = 0
  /\ (handler.attached /\ handler.at # "starting") \/ Final =>
       \E a, b \in Nat : Piped(a, b)

Calm == Quiet => Reachable /\ Acknowledged /\ Resumable /\ Numbered

Grounds == Evidence /\ Settled /\ Calm

-----------------------------------------------------------------------------
(* Numbered events, queue by queue.                                        *)

LEMMA RunsNone ==
  ASSUME NEW q, NEW lo \in Nat, NEW hi \in Nat, Len(q) = 0
  PROVE  Runs(q, lo, hi) <=> lo = hi
<1>1. ASSUME lo = hi PROVE Runs(q, lo, hi)
  <2> DEFINE at == [i \in 1..(Len(q) + 1) |-> lo]
  <2>1. at \in [1..(Len(q) + 1) -> Nat] /\ at[1] = lo /\ at[Len(q) + 1] = lo
    OBVIOUS
  <2> HIDE DEF at
  <2>2. QED
    BY <1>1, <2>1 DEF Runs
<1>2. ASSUME Runs(q, lo, hi) PROVE lo = hi
  BY <1>2 DEF Runs
<1>3. QED
  BY <1>1, <1>2

\* The next number after m, if m would have n.
Following(m, n) == IF m.type \in EventTypes THEN n + 1 ELSE n

LEMMA RunsMore ==
  ASSUME NEW q, NEW r, NEW lo \in Nat, NEW hi \in Nat, NEW m,
         Runs(q, lo, hi), Added(q, r, m), m.type \in EventTypes => m.value = hi
  PROVE  Runs(r, lo, Following(m, hi))
<1>1. PICK at \in [1..(Len(q) + 1) -> Nat] :
        /\ at[1] = lo /\ at[Len(q) + 1] = hi
        /\ \A i \in 1..Len(q) :
             IF q[i].type \in EventTypes
             THEN q[i].value = at[i] /\ at[i + 1] = at[i] + 1
             ELSE at[i + 1] = at[i]
  BY DEF Runs
<1>2. /\ Len(q) \in Nat /\ Len(r) = Len(q) + 1
      /\ r[Len(q) + 1] = m /\ \A i \in 1..Len(q) : r[i] = q[i]
  BY DEF Added
<1> DEFINE next == Following(m, hi)
           to == [i \in 1..(Len(r) + 1) |-> IF i = Len(r) + 1 THEN next ELSE at[i]]
<1>3. next \in Nat /\ next = IF m.type \in EventTypes THEN hi + 1 ELSE hi
  BY DEF Following
<1> HIDE DEF next
<1>4. to \in [1..(Len(r) + 1) -> Nat]
  BY <1>1, <1>2, <1>3
<1>5. to[1] = lo /\ to[Len(r) + 1] = next
  BY <1>1, <1>2
<1>6. \A i \in 1..Len(r) :
        IF r[i].type \in EventTypes
        THEN r[i].value = to[i] /\ to[i + 1] = to[i] + 1
        ELSE to[i + 1] = to[i]
  <2>1. TAKE i \in 1..Len(r)
  <2>2. CASE i = Len(q) + 1
    BY <1>1, <1>2, <1>3, <2>2
  <2>3. CASE i \in 1..Len(q)
    <3>1. i # Len(r) + 1 /\ i + 1 # Len(r) + 1 /\ r[i] = q[i]
      BY <1>2, <2>3
    <3>2. to[i] = at[i] /\ to[i + 1] = at[i + 1]
      BY <1>2, <2>3, <3>1
    <3>3. QED
      BY <1>1, <2>3, <3>1, <3>2
  <2>4. QED
    BY <1>2, <2>2, <2>3
<1>7. QED
  BY <1>4, <1>5, <1>6 DEF Runs, next

LEMMA RunsLess ==
  ASSUME NEW q, NEW r, NEW lo \in Nat, NEW hi \in Nat, Runs(q, lo, hi), Dropped(q, r)
  PROVE  /\ q[1].type \in EventTypes => q[1].value = lo
         /\ Runs(r, Following(q[1], lo), hi)
<1>1. PICK at \in [1..(Len(q) + 1) -> Nat] :
        /\ at[1] = lo /\ at[Len(q) + 1] = hi
        /\ \A i \in 1..Len(q) :
             IF q[i].type \in EventTypes
             THEN q[i].value = at[i] /\ at[i + 1] = at[i] + 1
             ELSE at[i + 1] = at[i]
  BY DEF Runs
<1>2. /\ Len(q) \in Nat \ {0} /\ Len(r) = Len(q) - 1
      /\ \A i \in 1..Len(r) : r[i] = q[i + 1]
  BY DEF Dropped
<1> DEFINE to == [i \in 1..(Len(r) + 1) |-> at[i + 1]]
<1>3. to \in [1..(Len(r) + 1) -> Nat]
  BY <1>1, <1>2
<1>4. /\ to[Len(r) + 1] = hi /\ to[1] = Following(q[1], lo)
      /\ q[1].type \in EventTypes => q[1].value = lo
  <2>1. 1 \in 1..Len(q) /\ to[1] = at[2] /\ at[1 + 1] = at[2] /\ to[Len(r) + 1] = at[Len(q) + 1]
    BY <1>2
  <2>2. QED
    BY <1>1, <2>1 DEF Following
<1>5. \A i \in 1..Len(r) :
        IF r[i].type \in EventTypes
        THEN r[i].value = to[i] /\ to[i + 1] = to[i] + 1
        ELSE to[i + 1] = to[i]
  <2>1. TAKE i \in 1..Len(r)
  <2>2. /\ i + 1 \in 1..Len(q) /\ r[i] = q[i + 1]
        /\ to[i + 1] = at[i + 1 + 1] /\ to[i] = at[i + 1]
    BY <1>2
  <2>3. QED
    BY <1>1, <2>2
<1>6. QED
  BY <1>3, <1>4, <1>5 DEF Runs

\* A queue without events, and one that is a piece of the log.
LEMMA RunsFlat ==
  ASSUME NEW q, Len(q) \in Nat, NEW lo \in Nat,
         \A i \in 1..Len(q) : q[i].type \notin EventTypes
  PROVE  Runs(q, lo, lo)
<1> DEFINE at == [i \in 1..(Len(q) + 1) |-> lo]
<1>1. /\ at \in [1..(Len(q) + 1) -> Nat] /\ at[1] = lo /\ at[Len(q) + 1] = lo
      /\ \A i \in 1..Len(q) : at[i + 1] = at[i]
  OBVIOUS
<1> HIDE DEF at
<1>2. QED
  BY <1>1 DEF Runs

LEMMA RunsOfLog ==
  ASSUME NEW q, Len(q) \in Nat, NEW lo \in Nat,
         \A i \in 1..Len(q) : q[i].type \in EventTypes /\ q[i].value + 1 = lo + i
         /\ q[i].value \in Int
  PROVE  Runs(q, lo, lo + Len(q))
<1> DEFINE n == Len(q)
           at == [i \in 1..(n + 1) |-> lo + i - 1]
<1>1. n \in Nat
  OBVIOUS
<1> HIDE DEF n
<1>2. at \in [1..(n + 1) -> Nat] /\ at[1] = lo /\ at[n + 1] = lo + n
  BY <1>1
<1>3. ASSUME NEW i \in 1..n
      PROVE  /\ q[i].type \in EventTypes
             /\ q[i].value = at[i] /\ at[i + 1] = at[i] + 1
  <2> DEFINE v == q[i].value
  <2>1. q[i].type \in EventTypes /\ v + 1 = lo + i /\ v \in Int
    BY DEF n
  <2> HIDE DEF v
  <2>2. v = lo + i - 1
    BY <1>1, <2>1
  <2>3. at[i] = lo + i - 1 /\ at[i + 1] = lo + i
    BY <1>1
  <2>4. QED
    BY <1>1, <2>1, <2>2, <2>3 DEF v
<1> HIDE DEF at
<1>4. QED
  BY <1>2, <1>3 DEF Runs, n

-----------------------------------------------------------------------------
(* Acknowledgements.                                                       *)

LEMMA RisingLess ==
  ASSUME NEW q, NEW r, NEW low, NEW chunks, NEW buffer,
         Rising(q, low, chunks, buffer), Dropped(q, r)
  PROVE  IF IsAck(q[1])
         THEN /\ q[1].value + 1 <= chunks /\ Rising(r, q[1].value, chunks, buffer)
              /\ NoAck(r) => q[1].value + 1 = chunks /\ q[1].buffered = buffer
         ELSE /\ Rising(r, low, chunks, buffer) /\ (NoAck(r) => NoAck(q))
<1>1. /\ Len(q) \in Nat \ {0} /\ Len(r) = Len(q) - 1
      /\ \A i \in 1..Len(r) : i + 1 \in 1..Len(q) /\ r[i] = q[i + 1]
      /\ \A j \in 2..Len(q) : j - 1 \in 1..Len(r) /\ q[j] = r[j - 1]
      /\ 1 \in 1..Len(q)
  <2>1. /\ Len(q) \in Nat \ {0} /\ Len(r) = Len(q) - 1
        /\ \A i \in 1..Len(r) : r[i] = q[i + 1]
    BY DEF Dropped
  <2>2. ASSUME NEW j \in 2..Len(q) PROVE j - 1 \in 1..Len(r) /\ q[j] = r[j - 1]
    <3>1. j - 1 \in 1..Len(r) /\ j - 1 + 1 = j
      BY <2>1, <2>2
    <3>2. QED
      BY <2>1, <3>1
  <2>3. QED
    BY <2>1, <2>2
<1>2. ASSUME NEW new, \A i \in 1..Len(r) : IsAck(r[i]) => new <= r[i].value
      PROVE  Rising(r, new, chunks, buffer)
  <2> SUFFICES ASSUME NEW i \in 1..Len(r), IsAck(r[i])
               PROVE  /\ new <= r[i].value /\ r[i].value + 1 <= chunks
                      /\ \A j \in 1..Len(r) : i < j /\ IsAck(r[j]) => r[i].value <= r[j].value
                      /\ \/ \E j \in 1..Len(r) : i < j /\ IsAck(r[j])
                         \/ r[i].value + 1 = chunks /\ r[i].buffered = buffer
    BY DEF Rising
  <2>1. i + 1 \in 1..Len(q) /\ q[i + 1] = r[i] /\ IsAck(q[i + 1])
    BY <1>1
  <2>2. /\ q[i + 1].value + 1 <= chunks
        /\ \A j \in 1..Len(q) : i + 1 < j /\ IsAck(q[j]) => q[i + 1].value <= q[j].value
        /\ \/ \E j \in 1..Len(q) : i + 1 < j /\ IsAck(q[j])
           \/ q[i + 1].value + 1 = chunks /\ q[i + 1].buffered = buffer
    BY <2>1 DEF Rising
  <2>3. ASSUME NEW j \in 1..Len(r), i < j, IsAck(r[j]) PROVE r[i].value <= r[j].value
    <3>1. j + 1 \in 1..Len(q) /\ i + 1 < j + 1 /\ q[j + 1] = r[j]
      BY <1>1, <2>3
    <3>2. QED
      BY <2>1, <2>2, <2>3, <3>1
  <2>4. ASSUME NEW j \in 1..Len(q), i + 1 < j, IsAck(q[j])
        PROVE  \E k \in 1..Len(r) : i < k /\ IsAck(r[k])
    <3>1. j \in 2..Len(q) /\ i < j - 1
      BY <1>1, <2>4
    <3>2. QED
      BY <1>1, <2>4, <3>1
  <2>5. QED
    BY <1>2, <2>1, <2>2, <2>3, <2>4
<1>3. CASE IsAck(q[1])
  <2>1. /\ q[1].value + 1 <= chunks
        /\ \A j \in 1..Len(q) : 1 < j /\ IsAck(q[j]) => q[1].value <= q[j].value
        /\ \/ \E j \in 1..Len(q) : 1 < j /\ IsAck(q[j])
           \/ q[1].value + 1 = chunks /\ q[1].buffered = buffer
    BY <1>1, <1>3 DEF Rising
  <2>2. \A i \in 1..Len(r) : IsAck(r[i]) => q[1].value <= r[i].value
    <3>1. TAKE i \in 1..Len(r)
    <3>2. i + 1 \in 1..Len(q) /\ 1 < i + 1 /\ r[i] = q[i + 1]
      BY <1>1
    <3>3. QED
      BY <2>1, <3>2
  <2>3. ASSUME NoAck(r), NEW j \in 1..Len(q), 1 < j, IsAck(q[j]) PROVE FALSE
    <3>1. j \in 2..Len(q)
      BY <1>1, <2>3
    <3>2. QED
      BY <1>1, <2>3, <3>1 DEF NoAck, IsAck
  <2>4. QED
    BY <1>2, <1>3, <2>1, <2>2, <2>3
<1>4. CASE ~IsAck(q[1])
  <2>1. \A i \in 1..Len(r) : IsAck(r[i]) => low <= r[i].value
    BY <1>1 DEF Rising
  <2>2. ASSUME NoAck(r) PROVE NoAck(q)
    <3>1. SUFFICES ASSUME NEW j \in 1..Len(q) PROVE ~IsAck(q[j])
      BY DEF NoAck, IsAck
    <3>2. j = 1 \/ j \in 2..Len(q)
      BY <1>1
    <3>3. QED
      BY <1>1, <1>4, <2>2, <3>2 DEF NoAck, IsAck
  <2>3. QED
    BY <1>2, <1>4, <2>1, <2>2
<1>5. QED
  BY <1>3, <1>4

LEMMA RisingSame ==
  ASSUME NEW q, NEW r, NEW low, NEW chunks, NEW buffer, NEW m,
         Rising(q, low, chunks, buffer), Added(q, r, m), ~IsAck(m)
  PROVE  Rising(r, low, chunks, buffer) /\ (NoAck(r) <=> NoAck(q))
<1>1. /\ Len(q) \in Nat /\ Len(r) = Len(q) + 1
      /\ r[Len(q) + 1] = m /\ \A i \in 1..Len(q) : r[i] = q[i]
  BY DEF Added
<1>2. \A i \in 1..Len(r) : IsAck(r[i]) => i \in 1..Len(q) /\ r[i] = q[i]
  BY <1>1
<1>3. \A i \in 1..Len(q) : i \in 1..Len(r) /\ r[i] = q[i]
  BY <1>1
<1>4. Rising(r, low, chunks, buffer)
  BY <1>2, <1>3 DEF Rising
<1>5. NoAck(r) <=> NoAck(q)
  BY <1>2, <1>3 DEF NoAck, IsAck
<1>6. QED
  BY <1>4, <1>5

LEMMA RisingMore ==
  ASSUME NEW q, NEW r, NEW low \in Int, NEW chunks \in Nat, NEW buffer, NEW m,
         NEW more \in Nat, NEW rest,
         Rising(q, low, chunks, buffer), low + 1 <= chunks, chunks <= more,
         \A i \in 1..Len(q) : q[i].value \in Int,
         Added(q, r, m), IsAck(m), m.value \in Int, m.value + 1 = more, m.buffered = rest
  PROVE  Rising(r, low, more, rest) /\ ~NoAck(r)
<1>1. /\ Len(q) \in Nat /\ Len(r) = Len(q) + 1
      /\ r[Len(q) + 1] = m /\ \A i \in 1..Len(q) : r[i] = q[i]
  BY DEF Added
<1>2. low <= m.value
  OBVIOUS
<1>3. Len(r) \in 1..Len(r) /\ r[Len(r)] = m
  BY <1>1
<1>4. ASSUME NEW i \in 1..Len(r), IsAck(r[i])
      PROVE  /\ low <= r[i].value /\ r[i].value + 1 <= more /\ r[i].value <= m.value
             /\ \A j \in 1..Len(r) : i < j /\ IsAck(r[j]) => r[i].value <= r[j].value
             /\ \/ \E j \in 1..Len(r) : i < j /\ IsAck(r[j])
                \/ r[i].value + 1 = more /\ r[i].buffered = rest
  <2>1. CASE i = Len(r)
    BY <1>1, <1>2, <1>3, <2>1
  <2>2. CASE i # Len(r)
    <3>1. i \in 1..Len(q) /\ r[i] = q[i] /\ i < Len(r)
      BY <1>1, <2>2
    <3>2. /\ low <= q[i].value /\ q[i].value + 1 <= chunks /\ q[i].value \in Int
          /\ \A j \in 1..Len(q) : i < j /\ IsAck(q[j]) => q[i].value <= q[j].value
      BY <1>4, <3>1 DEF Rising
    <3>3. q[i].value + 1 <= more /\ q[i].value <= m.value
      BY <3>2
    <3>4. ASSUME NEW j \in 1..Len(r), i < j, IsAck(r[j]) PROVE r[i].value <= r[j].value
      <4>1. CASE j = Len(r)
        BY <1>3, <3>1, <3>3, <4>1
      <4>2. CASE j \in 1..Len(q)
        BY <1>1, <3>1, <3>2, <3>4, <4>2
      <4>3. QED
        BY <1>1, <4>1, <4>2
    <3>5. QED
      BY <1>3, <3>1, <3>2, <3>3, <3>4
  <2>3. QED
    BY <2>1, <2>2
<1>5. Rising(r, low, more, rest)
  BY <1>4 DEF Rising
<1>6. QED
  BY <1>3, <1>5 DEF NoAck, IsAck

LEMMA RisingNone ==
  ASSUME NEW q, NEW low, NEW chunks, NEW buffer, NoAck(q)
  PROVE  Rising(q, low, chunks, buffer)
  BY DEF NoAck, Rising, IsAck

-----------------------------------------------------------------------------
(* What holds whatever goes wrong.                                         *)

\* A step of the gate leaves the server alone, but for its connection.
LEMMA GateLeaves ==
  ASSUME Wired, GateStep
  PROVE  /\ UNCHANGED <<outgoing, session>>
         /\ handler'.at = handler.at /\ handler'.buffer = handler.buffer
         /\ handler'.replay = handler.replay /\ handler'.acknowledged = handler.acknowledged
         /\ handler'.attached => handler.attached
<1>1. handler \in HandlerType
  BY Types DEF Wired
<1>2. UNCHANGED <<outgoing, session>> /\ (UNCHANGED handler \/ Close)
  BY ConsumeEffect, ReceiveReadyEffect, SendBlockEffect, SendEndEffect, SendFrameEffect,
     AskResumeEffect
     DEF GateStep, Fails, ReceiverBreaks, CheckReceiver, SessionResult, Disconnects,
     Retries, ProbeResult, serverVars
<1>3. Close => /\ handler'.at = handler.at /\ handler'.buffer = handler.buffer
               /\ handler'.replay = handler.replay
               /\ handler'.acknowledged = handler.acknowledged
               /\ handler'.attached = FALSE
  BY <1>1 DEF Close, HandlerType
<1>4. QED
  BY <1>2, <1>3

\* A step of the server leaves the client alone.
LEMMA ServerLeaves ==
  ASSUME Wired, Server \/ ServerFails \/ ServerRestarts
  PROVE  UNCHANGED client
  BY DEF Server, StartSession, RefuseResume, OpenResume, Ready, QueueReplay, HandleFrame,
     HandleEnd, TakeChunk, WorkerEnds, Send, Detach, Release, ServerFails, ServerRestarts,
     clientSide

\* After "end" there is the result; after the result, nothing.
LEMMA StaysEnding ==
  ASSUME Wired, GateStep, client.stage \in {"ending", "done"}
  PROVE  client'.stage \in {"ending", "done"}
<1>1. client \in ClientType
  BY Types DEF Wired
<1>2. Consume => client'.stage = client.stage
  BY ConsumeEffect
<1>3. ~ReceiveReady /\ ~CheckReceiver /\ ~SendBlock /\ ~SendEnd /\ ~SendFrame
      /\ ~Disconnects /\ ~AskResume /\ ~Retries
  BY DEF ReceiveReady, CheckReceiver, SendBlock, SendEnd, SendFrame, Disconnects,
     AskResume, Retries
<1>4. ReceiverBreaks => client'.stage = client.stage
  BY <1>1 DEF ReceiverBreaks, ClientType
<1>5. Fails \/ SessionResult \/ ProbeResult => client'.stage = "done"
  BY <1>1 DEF Fails, SessionResult, ProbeResult, ClientType
<1>6. QED
  BY <1>2, <1>3, <1>4, <1>5 DEF GateStep

\* A result is reached once.
LEMMA ResultStays ==
  ASSUME Wired, Next, client.outcome # "none"
  PROVE  client'.outcome # "none"
<1>1. client \in ClientType /\ client.stage = "done"
  BY Types DEF Wired, ClientShape
<1>2. ~Consume /\ ~ReceiverBreaks /\ ~ReceiveReady /\ ~CheckReceiver /\ ~SendBlock /\ ~SendEnd
      /\ ~SendFrame /\ ~Disconnects /\ ~AskResume /\ ~Retries
  BY <1>1 DEF Consume, ReceiverBreaks, ReceiveReady, CheckReceiver, SendBlock, SendEnd,
     SendFrame, Disconnects, AskResume, Retries
<1>3. ~SessionResult /\ ~ProbeResult
  BY <1>1 DEF SessionResult, ProbeResult
<1>4. Fails => client'.outcome # "none"
  BY <1>1 DEF Fails, ClientType
<1>5. CASE Gate
  BY <1>2, <1>3, <1>4, <1>5, GateSteps DEF GateStep
<1>6. CASE Server \/ ServerFails \/ ServerRestarts
  BY <1>6, ServerLeaves
<1>7. QED
  BY <1>5, <1>6 DEF Next

LEMMA EmptiedKept ==
  ASSUME Evidence, Emptied, Next
  PROVE  Emptied'
<1>1. /\ handler \in HandlerType /\ session \in SessionType /\ Wired
      /\ Attached /\ TypeOK'
  BY Types, TypeKept DEF Evidence, Wired
<1>2. Len(session.log) \in Nat /\ Len(session'.log) \in Nat
  <2>1. session.log \in Seq(EventTypes) /\ session'.log \in Seq(EventTypes)
    BY <1>1 DEF SessionType, TypeOK
  <2>2. QED
    BY <2>1, Elements
<1>3. /\ Final => handler.at \in {"ended", "closing", "idle"}
      /\ Running => ~Final
  <2>1. Final => Len(session.log) \in 1..Len(session.log)
    BY <1>2 DEF Final
  <2>2. QED
    BY <2>1 DEF Evidence, FinalLast, Final, Running
<1>4. UNCHANGED session => (Final' <=> Final)
  BY DEF Final
<1>5. CASE Gate
  <2>1. GateStep
    BY <1>1, <1>5, GateSteps
  <2>2. /\ Final' <=> Final
        /\ handler'.at = handler.at /\ handler'.buffer = handler.buffer
        /\ handler'.replay = handler.replay
    BY <1>1, <1>4, <2>1, GateLeaves
  <2>3. client.stage \in {"ending", "done"} => client'.stage \in {"ending", "done"}
    BY <1>1, <2>1, StaysEnding
  <2>4. QED
    BY <2>2, <2>3 DEF Emptied
<1>6. client' = client \/ Gate
  BY <1>1, ServerLeaves DEF Next
<1>7. CASE StartSession
  <2>1. /\ handler.at = "idle" /\ handler'.at = "serving" /\ handler'.replay = << >>
        /\ session'.log = session.log /\ client.stage = "starting" /\ UNCHANGED client
    BY <1>1, <1>7, StartEffect, FirstRequest DEF SessionType
  <2>2. ~Final' /\ ~Final
    BY <2>1 DEF Emptied, Final
  <2>3. QED
    BY <2>1, <2>2 DEF Emptied
<1>8. CASE RefuseResume
  <2>1. UNCHANGED <<handler, session, client>>
    BY <1>1, <1>8, RefuseEffect
  <2>2. QED
    BY <1>4, <2>1 DEF Emptied
<1>9. CASE OpenResume
  <2>1. /\ session.known /\ handler'.at = "starting" /\ handler'.replay = << >>
        /\ UNCHANGED client /\ client.stage = "resuming"
        /\ session'.log = session.log \/ Added(session.log, session'.log, "commit")
    BY <1>1, <1>9, OpenEffect, FirstRequest
  <2>2. ~Final
    BY <2>1 DEF Emptied
  <2>3. ~Final'
    BY <1>2, <2>1, <2>2 DEF Final, Added
  <2>4. QED
    BY <2>1, <2>3 DEF Emptied
<1>10. CASE Ready
  <2>1. /\ handler.at = "starting" /\ handler'.at = "replaying" /\ UNCHANGED <<client, session>>
    BY <1>1, <1>10, ReadyEffect
  <2>2. ~Final'
    BY <1>3, <1>4, <2>1
  <2>3. QED
    BY <2>1, <2>2 DEF Emptied
<1>11. CASE QueueReplay
  <2>1. /\ handler.at = "replaying" /\ UNCHANGED <<client, session>>
        /\ handler'.at = "replaying" \/ (handler'.at = "serving" /\ handler'.replay = << >>)
    BY <1>1, <1>11, QueueReplayEffect
  <2>2. ~Final'
    BY <1>3, <1>4, <2>1
  <2>3. QED
    BY <2>1, <2>2 DEF Emptied
<1>12. CASE HandleFrame
  <2>1. PICK whole \in Nat, rest \in Nat, pauses \in BOOLEAN, q \in Seq(Message),
             p \in Message, ack \in Message : Stores(whole, rest, pauses, q, p, ack)
    BY <1>1, <1>12, HandleFrameEffect
  <2>2. /\ handler.at = "serving" /\ handler'.at = "serving" /\ handler'.replay = handler.replay
        /\ UNCHANGED client /\ session'.log = session.log
    BY <1>1, <2>1 DEF Stores, HandlerType, SessionType
  <2>3. ~Final'
    BY <1>3, <2>2 DEF Final
  <2>4. QED
    BY <2>2, <2>3 DEF Emptied
<1>13. CASE HandleEnd
  <2>1. /\ handler.at = "serving" /\ handler'.at = "finishing" /\ handler'.replay = handler.replay
        /\ handler'.buffer = 0 /\ UNCHANGED client /\ session'.log = session.log
    <3>1. /\ handler.at = "serving" /\ handler'.at = "finishing"
          /\ handler'.replay = handler.replay /\ handler'.buffer = 0 /\ UNCHANGED client
      BY <1>1, <1>13, HandleEndEffect
    <3>2. UNCHANGED session \/ session' = [session EXCEPT !.chunks = @ + 1,
                                              !.stored = @ + handler.buffer]
      BY <1>1, <1>13, HandleEndEffect
    <3>3. QED
      BY <1>1, <3>1, <3>2 DEF SessionType
  <2>2. ~Final'
    BY <1>3, <2>1 DEF Final
  <2>3. QED
    BY <2>1, <2>2 DEF Emptied
<1>14. CASE TakeChunk
  <2>1. PICK q \in Seq(Message), flow \in Message, event \in Message,
             kind \in {"nothing", "partial", "commit"}, drops \in BOOLEAN :
               Takes(q, flow, event, kind, drops)
    BY <1>1, <1>14, TakeEffect
  <2>2. /\ Running /\ handler'.at = handler.at /\ handler'.replay = handler.replay
        /\ handler'.buffer = handler.buffer /\ UNCHANGED client
        /\ session'.log = session.log \/ (kind # "nothing" /\ Added(session.log, session'.log, kind))
    BY <1>1, <2>1 DEF Takes, HandlerType
  <2>3. ~Final'
    BY <1>2, <1>3, <2>2 DEF Final, Added
  <2>4. QED
    BY <2>2, <2>3 DEF Emptied, Running
<1>15. CASE WorkerEnds
  <2>1. PICK event \in Message : Ends(event)
    BY <1>1, <1>15, EndsEffect
  <2>2. /\ handler.at = "finishing" /\ handler'.buffer = handler.buffer
        /\ handler'.replay = handler.replay
        /\ handler'.at = IF event.type = "final" THEN "ended" ELSE "finishing"
        /\ Added(session.log, session'.log, event.type) /\ UNCHANGED client
    BY <1>1, <2>1 DEF Ends, HandlerType
  <2>3. Final' <=> event.type = "final"
    BY <1>2, <2>2 DEF Final, Added
  <2>4. client.stage \in {"ending", "done"}
    BY <1>1, <2>2 DEF Attached
  <2>5. QED
    BY <2>2, <2>3, <2>4 DEF Emptied
<1>16. CASE Send
  <2>1. UNCHANGED <<client, handler, session>>
    BY <1>1, <1>16, SendEffect
  <2>2. QED
    BY <1>4, <2>1 DEF Emptied
<1>17. CASE Detach
  <2>1. /\ UNCHANGED <<client, session>> /\ handler'.at = "closing"
        /\ handler'.buffer = handler.buffer /\ handler'.replay = handler.replay
    BY <1>1, <1>17 DEF Detach, HandlerType
  <2>2. QED
    BY <1>4, <2>1 DEF Emptied
<1>18. CASE Release \/ ServerRestarts
  <2>1. /\ UNCHANGED client /\ session'.log = session.log /\ handler'.at = "idle"
        /\ handler'.buffer = 0 /\ handler'.replay = << >>
    <3>1. UNCHANGED client /\ handler' = Idle
      BY <1>18 DEF Release, ServerRestarts, clientSide
    <3>2. UNCHANGED session \/ session' = [session EXCEPT !.known = FALSE]
      BY <1>18 DEF Release, ServerRestarts
    <3>3. QED
      BY <1>1, <3>1, <3>2 DEF Idle, SessionType
  <2>2. Final' <=> Final
    BY <2>1 DEF Final
  <2>3. QED
    BY <2>1, <2>2 DEF Emptied
<1>19. CASE ServerFails
  <2>1. /\ UNCHANGED <<client, session>> /\ handler'.at = "closing" /\ Running
        /\ handler'.buffer = handler.buffer /\ handler'.replay = handler.replay
    BY <1>1, <1>19, ServerFailsEffect DEF HandlerType
  <2>2. QED
    BY <1>4, <2>1 DEF Emptied
<1>20. QED
  BY <1>5, <1>7, <1>8, <1>9, <1>10, <1>11, <1>12, <1>13, <1>14, <1>15, <1>16, <1>17,
     <1>18, <1>19 DEF Next, Server

LEMMA LegsKept ==
  ASSUME Evidence, Legs, Next
  PROVE  Legs'
<1>1. client \in ClientType /\ Wired /\ ClientShape
  BY Types DEF Evidence, Wired
<1>2. CASE Server \/ ServerFails \/ ServerRestarts
  BY <1>1, <1>2, ServerLeaves DEF Legs
<1>3. CASE Gate
  <2>1. CASE Fails \/ SessionResult \/ ProbeResult
    <3>1. /\ client'.stage = "done" /\ client'.kind = client.kind /\ client'.leg = client.leg
          /\ client'.receiver = client.receiver /\ client'.ended = client.ended
          /\ client'.sent = client.sent
      BY <1>1, <2>1 DEF Fails, SessionResult, ProbeResult, ClientType
    <3>2. QED
      BY <3>1 DEF Legs
  <2>2. CASE Consume
    <3>1. /\ client'.kind = client.kind /\ client'.leg = client.leg /\ client'.sent = client.sent
          /\ client'.stage \in Talking
          /\ client'.receiver = IF client.kind = "session" /\ client'.ended THEN "done"
                                ELSE client.receiver
      BY <1>1, <2>2, ConsumeEffect DEF Talking
    <3>2. QED
      BY <3>1 DEF Legs, Talking
  <2>3. CASE ReceiverBreaks
    <3>1. /\ client'.receiver = "failed" /\ client'.kind = client.kind /\ client.kind = "session"
          /\ client'.stage = client.stage /\ client.stage # "starting"
      BY <1>1, <2>3 DEF ReceiverBreaks, Reading, ClientType
    <3>2. QED
      BY <3>1 DEF Legs
  <2>4. CASE ReceiveReady
    <3>1. /\ client'.stage = "sending" /\ client'.kind = client.kind /\ client'.leg = client.leg
          /\ client'.receiver = client.receiver /\ client'.ended = client.ended
          /\ client'.sent = client.sent
      BY <1>1, <2>4, ReceiveReadyEffect DEF SameBut
    <3>2. QED
      BY <3>1 DEF Legs
  <2>5. CASE CheckReceiver \/ (SendEnd /\ connected) \/ AskResume \/ Retries
    <3>1. /\ client'.stage # "starting" /\ client'.kind = client.kind /\ client'.leg = client.leg
          /\ client'.receiver = client.receiver /\ client'.ended = client.ended
          /\ client'.sent = client.sent
      BY <1>1, <2>5 DEF CheckReceiver, SendEnd, AskResume, Retries, ClientType
    <3>2. QED
      BY <3>1 DEF Legs
  <2>6. CASE SendBlock /\ connected
    <3>1. /\ client.kind = "session" /\ FrameSent("sending")
      BY <1>1, <2>6, SendBlockEffect
    <3>2. /\ client'.stage = "sending" /\ client'.kind = client.kind
          /\ client'.receiver = client.receiver /\ client'.ended = client.ended
      BY <1>1, <3>1 DEF FrameSent, ClientType
    <3>3. QED
      BY <3>1, <3>2 DEF Legs
  <2>7. CASE SendFrame /\ connected
    <3>1. /\ client.kind = "probe" /\ FrameSent("waiting")
          /\ client.leg = 1 => total_samples - client.sent > client.frame
      BY <1>1, <2>7, SendFrameEffect
    <3>2. PICK samples \in Nat \ {0} :
            /\ samples <= client.frame
            /\ client' = [client EXCEPT !.stage = "waiting", !.sent = @ + samples]
      BY <3>1 DEF FrameSent
    <3>3. /\ client'.stage = "waiting" /\ client'.kind = "probe" /\ client'.leg = client.leg
          /\ client'.sent = client.sent + samples
      BY <1>1, <3>1, <3>2 DEF ClientType
    <3>4. client.sent \in Nat /\ client.frame \in Nat /\ total_samples \in Nat
      BY <1>1, Numbers DEF ClientType
    <3>5. client.leg = 1 => client.sent + samples < total_samples
      BY <3>1, <3>2, <3>4
    <3>6. QED
      BY <3>3, <3>5 DEF Legs
  <2>8. CASE Disconnects
    <3>1. client'.kind = "probe" /\ client'.leg = 2 /\ client'.stage = "retrying"
      BY <1>1, <2>8 DEF Disconnects, ClientType
    <3>2. QED
      BY <3>1 DEF Legs
  <2>9. QED
    BY <1>1, <1>3, <2>1, <2>2, <2>3, <2>4, <2>5, <2>6, <2>7, <2>8, GateSteps DEF GateStep
<1>4. QED
  BY <1>2, <1>3 DEF Next

\* Chunks are stored by the two handlers of what the client sends.
LEMMA StoredSteps ==
  ASSUME Wired, Next
  PROVE  \/ session'.chunks = session.chunks /\ session'.stored = session.stored
         \/ HandleFrame \/ HandleEnd
<1>1. session \in SessionType
  BY Types DEF Wired
<1>2. Gate \/ RefuseResume \/ Ready \/ QueueReplay \/ Send \/ Detach \/ Release \/ ServerFails
        => UNCHANGED session
  <2>1. Gate => UNCHANGED session
    BY GateSteps, GateLeaves DEF Wired
  <2>2. QED
    BY <2>1 DEF RefuseResume, Ready, QueueReplay, Send, Detach, Release, ServerFails,
       clientSide, serverVars
<1>3. StartSession \/ ServerRestarts =>
        session'.chunks = session.chunks /\ session'.stored = session.stored
  BY <1>1 DEF StartSession, ServerRestarts, SessionType
<1>4. OpenResume => session'.chunks = session.chunks /\ session'.stored = session.stored
  BY OpenEffect
<1>5. TakeChunk => session'.chunks = session.chunks /\ session'.stored = session.stored
  BY TakeEffect DEF Takes
<1>6. WorkerEnds => session'.chunks = session.chunks /\ session'.stored = session.stored
  BY EndsEffect DEF Ends
<1>7. QED
  BY <1>2, <1>3, <1>4, <1>5, <1>6 DEF Next, Server

LEMMA NothingStoredKept ==
  ASSUME Wired, NothingStored, Next
  PROVE  NothingStored'
<1>1. session \in SessionType /\ handler \in HandlerType
  BY Types DEF Wired
<1>2. CASE session'.chunks = session.chunks /\ session'.stored = session.stored
  BY <1>2 DEF NothingStored
<1>3. CASE HandleFrame
  <2>1. PICK whole \in Nat, rest \in Nat, pauses \in BOOLEAN, q \in Seq(Message),
             p \in Message, ack \in Message : Stores(whole, rest, pauses, q, p, ack)
    BY <1>3, HandleFrameEffect
  <2> DEFINE units == whole * internal_size
  <2>2. /\ units \in Nat /\ (units = 0 <=> whole = 0)
        /\ session'.chunks = session.chunks + whole /\ session'.stored = session.stored + units
    BY <1>1, <2>1 DEF Stores, SessionType
  <2>3. session.chunks \in Nat /\ session.stored \in Nat
    BY <1>1 DEF SessionType
  <2> HIDE DEF units
  <2>4. QED
    BY <2>2, <2>3 DEF NothingStored
<1>4. CASE HandleEnd
  <2>1. \/ UNCHANGED session
        \/ session' = [session EXCEPT !.chunks = @ + 1, !.stored = @ + handler.buffer]
    BY <1>4, HandleEndEffect
  <2>2. session.chunks \in Nat
    BY <1>1 DEF SessionType
  <2>3. UNCHANGED session \/ session'.chunks = session.chunks + 1
    BY <1>1, <2>1 DEF SessionType
  <2>4. QED
    BY <2>2, <2>3 DEF NothingStored
<1>5. QED
  BY <1>2, <1>3, <1>4, StoredSteps

\* The gate enters "resuming" with a new connection.
LEMMA ResumingSteps ==
  ASSUME Wired, GateStep, client'.stage = "resuming"
  PROVE  AskResume
<1>1. client \in ClientType /\ ClientShape
  BY Types DEF Wired
<1>2. ~Consume /\ ~ReceiveReady
  BY ConsumeEffect, ReceiveReadyEffect DEF Talking
<1>3. ~Fails /\ ~SessionResult /\ ~ProbeResult /\ ~Disconnects /\ ~Retries /\ ~CheckReceiver
  BY <1>1 DEF Fails, SessionResult, ProbeResult, Disconnects, Retries, CheckReceiver, ClientType
<1>4. ~ReceiverBreaks
  BY <1>1 DEF ReceiverBreaks, ClientType, ClientShape
<1>5. ~(SendEnd /\ connected)
  BY <1>1, SendEndEffect DEF ClientType
<1>6. ~(SendBlock /\ connected) /\ ~(SendFrame /\ connected)
  BY <1>1, SendBlockEffect, SendFrameEffect DEF FrameSent, ClientType
<1>7. QED
  BY <1>2, <1>3, <1>4, <1>5, <1>6 DEF GateStep

LEMMA OfferedKept ==
  ASSUME Evidence, Offered, Next
  PROVE  Offered'
<1> DEFINE Offers(q, n) == \A i \in 1..Len(q) : q[i].type = "ready" => q[i].value = n
<1>1. /\ Wired /\ ToClient /\ client \in ClientType /\ session \in SessionType
      /\ Len(to_client) \in Nat
  BY Types, Elements DEF Evidence, Wired
<1>2. SUFFICES ASSUME client'.stage = "resuming"
               PROVE  Offers(to_client', session'.chunks)
  BY DEF Offered
<1>3. CASE Gate
  <2>1. AskResume
    BY <1>1, <1>2, <1>3, GateSteps, ResumingSteps
  <2>2. Len(to_client') = 0
    BY <1>1, <2>1, AskResumeEffect, EmptyQueue
  <2>3. QED
    BY <2>2
<1>4. CASE Server \/ ServerFails \/ ServerRestarts
  <2>1. client.stage = "resuming" /\ Offers(to_client, session.chunks)
    BY <1>1, <1>2, <1>4, ServerLeaves DEF Offered
  <2>2. ~StartSession /\ ~HandleFrame /\ ~HandleEnd
    <3>1. ~StartSession
      BY <1>1, <2>1, StartEffect, FirstRequest
    <3>2. ~HandleEnd
      BY <1>1, <2>1, HandleEndEffect, FirstRequest DEF Talking
    <3>3. HandleFrame => to_server # << >> /\ to_server[1].type = "frame"
      <4>1. HandleFrame => to_server # << >>
        BY DEF HandleFrame
      <4>2. ASSUME HandleFrame PROVE to_server[1].type = "frame"
        <5>1. PICK whole \in Nat, rest \in Nat, pauses \in BOOLEAN, q \in Seq(Message),
                   p \in Message, ack \in Message : Stores(whole, rest, pauses, q, p, ack)
          BY <1>1, <4>2, HandleFrameEffect
        <5>2. QED
          BY <5>1 DEF Stores
      <4>3. QED
        BY <4>1, <4>2
    <3>4. QED
      BY <1>1, <2>1, <3>1, <3>2, <3>3, FirstRequest DEF Talking
  <2>3. session'.chunks = session.chunks
    BY <1>1, <1>4, <2>2, StoredSteps DEF Next
  <2>4. UNCHANGED to_client \/ \E m \in Message :
          /\ Added(to_client, to_client', m) /\ (m.type = "ready" => m.value = session.chunks)
    <3>1. RefuseResume \/ ServerFails => \E m \in Message :
            Added(to_client, to_client', m) /\ m.type # "ready"
      BY <1>1, RefuseEffect, ServerFailsEffect
    <3>2. Send => \E m \in Message : Added(to_client, to_client', m) /\ m.type # "ready"
      <4>1. SUFFICES ASSUME Send PROVE outgoing[1].type # "ready"
        BY <1>1, SendEffect
      <4>2. 1 \in 1..Len(outgoing)
        BY <1>1, <4>1, SendEffect DEF Dropped
      <4>3. QED
        BY <1>1, <4>2 DEF ToClient, Only, EventTypes
    <3>3. Ready => \E m \in Message :
            /\ Added(to_client, to_client', m) /\ m.type = "ready"
            /\ m.value = session.chunks
      <4>1. session.chunks \in Nat
        BY <1>1 DEF SessionType
      <4>2. QED
        BY <1>1, <4>1, ReadyEffect, Messages
    <3>4. OpenResume \/ QueueReplay \/ TakeChunk \/ WorkerEnds \/ Detach \/ Release \/ ServerRestarts
            => UNCHANGED to_client
      BY DEF OpenResume, QueueReplay, TakeChunk, WorkerEnds, Detach, Release, ServerRestarts
    <3>5. QED
      BY <1>4, <2>2, <3>1, <3>2, <3>3, <3>4 DEF Server
  <2>5. CASE UNCHANGED to_client
    BY <2>1, <2>3, <2>5
  <2>6. ASSUME NEW m \in Message, Added(to_client, to_client', m),
               m.type = "ready" => m.value = session.chunks
        PROVE  Offers(to_client', session.chunks)
    <3>1. \A i \in 1..Len(to_client') :
            to_client'[i] = m \/ (i \in 1..Len(to_client) /\ to_client'[i] = to_client[i])
      BY <1>1, <2>6 DEF Added
    <3>2. QED
      BY <2>1, <2>6, <3>1
  <2>7. QED
    BY <2>3, <2>4, <2>5, <2>6
<1>5. QED
  BY <1>3, <1>4 DEF Next

\* But for acknowledgements, a step of the server sends the gate one message at
\* most.
LEMMA Deliveries ==
  ASSUME Wired, Server \/ ServerFails \/ ServerRestarts, ~HandleFrame, ~HandleEnd
  PROVE  UNCHANGED to_client \/ \E m \in Message :
           Added(to_client, to_client', m) /\ m.type # "audio_ack"
<1>1. ToClient /\ session \in SessionType
  BY Types DEF Wired
<1>2. StartSession => \E m \in Message : Added(to_client, to_client', m) /\ m.type = "ready"
  BY StartEffect, Messages
<1>3. RefuseResume \/ ServerFails => \E m \in Message :
        Added(to_client, to_client', m) /\ m.type # "audio_ack"
  BY RefuseEffect, ServerFailsEffect
<1>4. Send => \E m \in Message : Added(to_client, to_client', m) /\ m.type # "audio_ack"
  <2>1. SUFFICES ASSUME Send PROVE outgoing[1].type # "audio_ack"
    BY SendEffect
  <2>2. 1 \in 1..Len(outgoing)
    BY <2>1, SendEffect DEF Dropped
  <2>3. QED
    BY <1>1, <2>2 DEF ToClient, Only, EventTypes
<1>5. Ready => \E m \in Message : Added(to_client, to_client', m) /\ m.type = "ready"
  <2>1. session.chunks \in Nat
    BY <1>1 DEF SessionType
  <2>2. QED
    BY <2>1, ReadyEffect, Messages
<1>6. OpenResume \/ QueueReplay \/ TakeChunk \/ WorkerEnds \/ Detach \/ Release \/ ServerRestarts
        => UNCHANGED to_client
  BY DEF OpenResume, QueueReplay, TakeChunk, WorkerEnds, Detach, Release, ServerRestarts
<1>7. QED
  BY <1>2, <1>3, <1>4, <1>5, <1>6 DEF Server

\* The terminal event is seen where it is logged, at the end.
LEMMA EndSeen ==
  ASSUME Evidence, client.ended
  PROVE  /\ Final /\ client.last_sequence + 1 = Len(session.log)
         /\ handler.at \in {"ended", "closing", "idle"} /\ session.stored = total_samples
<1> DEFINE at == client.last_sequence + 1
<1>1. client \in ClientType /\ session.log \in Seq(EventTypes) /\ Seen /\ FinalLast
  BY Types DEF Evidence, Wired, SessionType
<1>2. at \in 1..Len(session.log) /\ session.log[at] = "final"
  <2>1. client.last_sequence \in Nat \cup {None} /\ Len(session.log) \in Nat
    BY <1>1, Elements DEF ClientType
  <2>2. QED
    BY <1>1, <2>1 DEF Seen, None
<1> HIDE DEF at
<1>3. QED
  BY <1>1, <1>2 DEF FinalLast, Final, at

LEMMA SilentKept ==
  ASSUME Evidence, Silent, Next
  PROVE  Silent'
<1>1. Wired /\ ToClient /\ AllLogged /\ FinalLast /\ Len(to_client) \in Nat
  BY Types, Elements DEF Evidence, Wired
<1>2. CASE Gate
  <2>1. CASE Consume \/ ReceiveReady
    <3> DEFINE q == to_client
               r == to_client'
    <3>1. Dropped(q, r)
      BY <1>1, <2>1, ConsumeEffect, ReceiveReadyEffect
    <3>2. /\ Len(q) \in Nat \ {0} /\ 1 \in 1..Len(q)
          /\ \A i \in 1..Len(r) : i + 1 \in 1..Len(q) /\ 1 < i + 1 /\ r[i] = q[i + 1]
      BY <3>1 DEF Dropped
    <3>3. LastWord(r)
      <4>1. SUFFICES ASSUME NEW i \in 1..Len(r), NEW j \in 1..Len(r), i < j,
                            r[i].type = "final"
                     PROVE  r[j].type # "audio_ack"
        BY DEF LastWord
      <4>2. /\ i + 1 \in 1..Len(q) /\ j + 1 \in 1..Len(q) /\ i + 1 < j + 1
            /\ r[i] = q[i + 1] /\ r[j] = q[j + 1]
        BY <3>2, <4>1
      <4>3. QED
        BY <4>1, <4>2 DEF Silent, LastWord
    <3>4. client'.ended => client.ended \/ q[1].type = "final"
      BY <1>1, <2>1, ConsumeEffect, ReceiveReadyEffect
    <3>5. client.ended => NoAck(r)
      BY <3>2 DEF Silent, NoAck
    <3>6. q[1].type = "final" => NoAck(r)
      BY <3>2 DEF Silent, LastWord, NoAck
    <3>7. QED
      BY <3>3, <3>4, <3>5, <3>6 DEF Silent
  <2>2. CASE Fails \/ SessionResult \/ Disconnects \/ Retries \/ ProbeResult \/ AskResume
    <3>1. Len(to_client') = 0
      BY <2>2, EmptyQueue DEF Fails, SessionResult, Disconnects, Retries, ProbeResult,
         AskResume, Close
    <3>2. QED
      BY <3>1 DEF Silent, LastWord, NoAck
  <2>3. CASE CheckReceiver \/ ReceiverBreaks \/ (SendEnd /\ connected)
             \/ (SendBlock /\ connected) \/ (SendFrame /\ connected)
    <3>1. client \in ClientType
      BY <1>1, Types DEF Wired
    <3>2. UNCHANGED to_client
      BY <2>3 DEF CheckReceiver, ReceiverBreaks, SendEnd, SendBlock, SendFrame
    <3>3. CheckReceiver \/ ReceiverBreaks \/ (SendEnd /\ connected) => client'.ended = client.ended
      BY <3>1 DEF CheckReceiver, ReceiverBreaks, SendEnd, ClientType
    <3>4. (SendBlock /\ connected) \/ (SendFrame /\ connected) => client'.ended = client.ended
      BY <1>1, <3>1, SendBlockEffect, SendFrameEffect DEF FrameSent, ClientType
    <3>5. QED
      BY <2>3, <3>2, <3>3, <3>4 DEF Silent
  <2>4. QED
    BY <1>1, <1>2, <2>1, <2>2, <2>3, GateSteps DEF GateStep
<1>3. CASE HandleFrame \/ HandleEnd
  <2>1. handler.at = "serving" /\ UNCHANGED client
    BY <1>3 DEF HandleFrame, HandleEnd, clientSide
  <2>2. ~client'.ended
    BY <2>1, EndSeen
  <2>3. \A i \in 1..Len(to_client) : to_client[i].type # "final"
    BY <1>1, <2>1 DEF AllLogged, Logged, FinalLast, EventTypes
  <2>4. \A i \in 1..Len(to_client') : to_client'[i].type # "final"
    <3> DEFINE Going(q) == \A i \in 1..Len(q) : q[i].type # "final"
    <3>1. ASSUME NEW q, NEW r, NEW m, Going(q), Added(q, r, m), m.type # "final"
          PROVE  Going(r)
      BY <3>1 DEF Added
    <3>2. Going(to_client)
      BY <2>3
    <3> HIDE DEF Going
    <3>3. CASE HandleFrame
      <4>1. PICK whole \in Nat, rest \in Nat, pauses \in BOOLEAN, q \in Seq(Message),
                 p \in Message, ack \in Message : Stores(whole, rest, pauses, q, p, ack)
        BY <1>1, <3>3, HandleFrameEffect
      <4>2. Going(q)
        BY <3>1, <3>2, <4>1 DEF Stores
      <4>3. Going(to_client')
        BY <3>1, <4>1, <4>2 DEF Stores
      <4>4. QED
        BY <4>3 DEF Going
    <3>4. CASE HandleEnd
      <4>1. \/ UNCHANGED to_client
            \/ \E ack \in Message : ack.type = "audio_ack" /\ Added(to_client, to_client', ack)
        BY <1>1, <3>4, HandleEndEffect
      <4>2. Going(to_client')
        BY <3>1, <3>2, <4>1
      <4>3. QED
        BY <4>2 DEF Going
    <3>5. QED
      BY <1>3, <3>3, <3>4
  <2>5. QED
    BY <2>2, <2>4 DEF Silent, LastWord
<1>4. CASE (Server \/ ServerFails \/ ServerRestarts) /\ ~HandleFrame /\ ~HandleEnd
  <2>1. UNCHANGED client
    BY <1>1, <1>4, ServerLeaves
  <2>2. CASE UNCHANGED to_client
    BY <2>1, <2>2 DEF Silent
  <2>3. ASSUME NEW m \in Message, Added(to_client, to_client', m), m.type # "audio_ack"
        PROVE  Silent'
    <3>1. \A i \in 1..Len(to_client') : to_client'[i].type = "audio_ack" =>
            i \in 1..Len(to_client) /\ to_client'[i] = to_client[i]
      BY <2>3, SameAcks
    <3>2. \A i, j \in 1..Len(to_client') : i < j /\ j \in 1..Len(to_client) =>
            i \in 1..Len(to_client) /\ to_client'[i] = to_client[i]
      BY <2>3 DEF Added
    <3>3. QED
      BY <2>1, <3>1, <3>2 DEF Silent, LastWord, NoAck
  <2>4. QED
    BY <1>1, <1>4, <2>2, <2>3, Deliveries
<1>5. QED
  BY <1>2, <1>3, <1>4 DEF Next

LEMMA SettledInit == Init => Settled
<1> SUFFICES ASSUME Init PROVE Settled
  OBVIOUS
<1>1. /\ client.stage = "starting" /\ client.last_ack = None /\ client.receiver = "running"
      /\ client.leg = 1 /\ client.sent = 0 /\ client.ended = FALSE
      /\ handler = Idle /\ session.log = << >> /\ session.stored = 0
      /\ to_client = << >>
  BY DEF Init
<1>2. ~Final
  BY <1>1, EmptyQueue DEF Final
<1>3. 0 < total_samples
  BY Numbers
<1>4. Emptied
  BY <1>1, <1>2 DEF Emptied, Idle
<1>5. Legs /\ NothingStored /\ Offered
  BY <1>1, <1>3 DEF Legs, NothingStored, Offered
<1>6. Silent
  BY <1>1, EmptyQueue DEF Silent, LastWord
<1>7. QED
  BY <1>4, <1>5, <1>6 DEF Settled

LEMMA SettledStep ==
  ASSUME Evidence, Settled, Next
  PROVE  Settled'
  BY EmptiedKept, LegsKept, NothingStoredKept, OfferedKept, SilentKept DEF Settled, Evidence

-----------------------------------------------------------------------------
(* What holds until something goes wrong.                                  *)

LEMMA Counted ==
  ASSUME Evidence
  PROVE  /\ Wired /\ client \in ClientType /\ handler \in HandlerType
         /\ session \in SessionType /\ Len(session.log) \in Nat
         /\ client.last_sequence + 1 \in Nat
         /\ Len(to_client) \in Nat /\ Len(outgoing) \in Nat
         /\ \A i \in 1..Len(to_client) : to_client[i] \in Message
         /\ \A i \in 1..Len(outgoing) : outgoing[i] \in Message
<1>1. /\ Wired /\ client \in ClientType /\ handler \in HandlerType
      /\ session \in SessionType
      /\ to_client \in Seq(Message) /\ outgoing \in Seq(Message)
  BY Types DEF Evidence, Wired
<1>2. session.log \in Seq(EventTypes)
  BY <1>1 DEF SessionType
<1>3. client.last_sequence + 1 \in Nat
  BY DEF Evidence, Seen
<1>4. QED
  BY <1>1, <1>2, <1>3, Elements

\* A client that talks reads a numbered stream.
LEMMA PipedTalking ==
  ASSUME Evidence, Reachable, Numbered, client.stage \in Talking
  PROVE  \E a, b \in Nat : Piped(a, b)
<1>1. Attached
  BY DEF Evidence, Wired
<1>2. connected => handler.attached /\ handler.at # "starting"
  BY <1>1 DEF Attached
<1>3. QED
  BY <1>2 DEF Reachable, Numbered

LEMMA NeverRaises ==
  ASSUME Evidence, Settled, Reachable, Acknowledged, Numbered, Reading, client.outcome = "none"
  PROVE  ~Raises
<1>1. /\ Wired /\ client \in ClientType /\ Len(session.log) \in Nat
      /\ client.last_sequence + 1 \in Nat /\ to_client \in Seq(Message)
  BY Counted, Types DEF Wired
<1>2. client.stage \in Talking
  BY <1>1 DEF Wired, ClientShape, Reading, Talking, ClientType, Stages
<1>3. ~client.ended
  <2>1. CASE client.kind = "session"
    BY <2>1 DEF Settled, Legs, Reading
  <2>2. CASE client.kind = "probe"
    <3>1. CASE client.stage = "ending"
      BY <2>2, <3>1 DEF Reading
    <3>2. CASE client.stage # "ending"
      BY <1>2, <3>2, EndSeen DEF Settled, Emptied, Talking
    <3>3. QED
      BY <3>1, <3>2
  <2>3. QED
    BY <1>1, <2>1, <2>2 DEF ClientType
<1>4. PICK a \in Nat, b \in Nat : Piped(a, b)
  BY <1>2, PipedTalking
<1>5. CASE to_client = << >>
  <2>1. SUFFICES ASSUME ~connected PROVE FALSE
    BY <1>5 DEF Raises
  <2>2. /\ Final /\ handler.at \in {"closing", "idle"} /\ Len(outgoing) = 0
        /\ Len(handler.replay) = 0 /\ Len(to_client) = 0
    BY <1>2, <1>5, <2>1, EmptyQueue DEF Reachable, Numbered, Settled, Emptied
  <2>3. client.last_sequence + 1 = Len(session.log)
    BY <1>1, <1>4, <2>2, RunsNone DEF Piped
  <2>4. client.last_sequence # None /\ session.log[client.last_sequence + 1] = "final"
    <3>1. Len(session.log) > 0 /\ session.log[Len(session.log)] = "final"
      BY <2>2 DEF Final
    <3>2. client.last_sequence # None
      BY <1>1, <2>3, <3>1 DEF None
    <3>3. QED
      BY <2>3, <3>1, <3>2
  <2>5. QED
    BY <1>3, <2>4 DEF Evidence, Seen
<1>6. CASE to_client # << >>
  <2> DEFINE m == to_client[1]
  <2>1. /\ Head(to_client) = m /\ m \in Message /\ 1 \in 1..Len(to_client)
        /\ Dropped(to_client, Tail(to_client))
    BY <1>1, <1>6, TailDrops DEF Dropped
  <2>2. m.type # "error"
    BY <2>1 DEF Reachable
  <2>3. m.type = "audio_ack" => ~(m.value < client.last_ack)
    <3>1. m.type = "audio_ack" => client.last_ack <= m.value
      BY <2>1 DEF Acknowledged, Rising, IsAck
    <3>2. client.last_ack \in Int /\ m.value \in Int
      BY <1>1, <2>1 DEF ClientType, Message, None
    <3>3. QED
      BY <3>1, <3>2
  <2>4. m.type \in EventTypes => m.value = client.last_sequence + 1
    BY <1>1, <1>4, <2>1, RunsLess DEF Piped
  <2>5. QED
    BY <1>3, <1>6, <2>1, <2>2, <2>3, <2>4 DEF Raises, Rejected
<1>7. QED
  BY <1>5, <1>6

\* The steps at which nothing goes wrong and no result is reached.
Unexcused ==
  \/ Consume \/ ReceiveReady \/ CheckReceiver
  \/ (SendBlock /\ connected) \/ (SendEnd /\ connected) \/ (SendFrame /\ connected)
  \/ Disconnects \/ AskResume \/ Retries \/ Server

LEMMA QuietSteps ==
  ASSUME Grounds, Next, Quiet'
  PROVE  /\ Quiet /\ Unexcused
         /\ Evidence /\ Settled /\ Reachable /\ Acknowledged /\ Resumable /\ Numbered
<1>1. Wired /\ client \in ClientType /\ TypeOK /\ Evidence /\ Settled
  BY Counted DEF Grounds, Evidence, Wired
<1>2. excuse = "none"
  BY <1>1, ExcuseKept DEF Quiet
<1>3. client.outcome = "none"
  BY <1>1, ResultStays DEF Quiet
<1>4. Quiet /\ Reachable /\ Acknowledged /\ Resumable /\ Numbered
  BY <1>2, <1>3 DEF Grounds, Calm, Quiet
<1>5. ~ServerFails /\ ~ServerRestarts
  BY <1>2 DEF ServerFails, ServerRestarts, Excused, Quiet
<1>6. ~Fails /\ ~SessionResult /\ ~ProbeResult
  BY <1>1 DEF Fails, SessionResult, ProbeResult, Quiet, ClientType
<1>7. ~ReceiverBreaks
  BY <1>1, <1>4, NeverRaises DEF ReceiverBreaks
<1>8. CASE Gate
  BY <1>1, <1>4, <1>6, <1>7, <1>8, GateSteps DEF GateStep, Unexcused
<1>9. CASE Server
  BY <1>1, <1>4, <1>9 DEF Unexcused
<1>10. QED
  BY <1>5, <1>8, <1>9 DEF Next

\* What the gate's quiet steps leave alone.
LEMMA QuietGate ==
  ASSUME Wired, \/ CheckReceiver \/ (SendBlock /\ connected) \/ (SendEnd /\ connected)
                \/ (SendFrame /\ connected)
  PROVE  /\ client.stage \in {"sending", "permitted"} /\ client'.stage \in Talking
         /\ client'.kind = client.kind /\ client'.leg = client.leg
         /\ client'.first_ack = client.first_ack /\ client'.last_ack = client.last_ack
         /\ client'.buffered = client.buffered /\ client'.receiver = client.receiver
         /\ client'.last_sequence = client.last_sequence
         /\ UNCHANGED <<connected, to_client, handler, outgoing, session, excuse>>
<1>1. client \in ClientType
  BY Types DEF Wired
<1>2. CASE CheckReceiver \/ (SendEnd /\ connected)
  BY <1>1, <1>2 DEF CheckReceiver, SendEnd, serverVars, ClientType, Talking
<1>3. CASE SendBlock /\ connected
  <2>1. PICK samples \in Nat \ {0} :
          client' = [client EXCEPT !.stage = "sending", !.sent = @ + samples]
    BY <1>3, SendBlockEffect DEF FrameSent
  <2>2. QED
    BY <1>1, <1>3, <2>1, SendBlockEffect DEF ClientType, Talking
<1>4. CASE SendFrame /\ connected
  <2>1. PICK samples \in Nat \ {0} :
          client' = [client EXCEPT !.stage = "waiting", !.sent = @ + samples]
    BY <1>4, SendFrameEffect DEF FrameSent
  <2>2. QED
    BY <1>1, <1>4, <2>1, SendFrameEffect DEF ClientType, Talking
<1>5. QED
  BY <1>2, <1>3, <1>4

\* What the gate leaves of its state where it takes up a session.
LEMMA QuietTurns ==
  ASSUME Wired, Disconnects \/ AskResume \/ Retries
  PROVE  /\ client'.stage \in {"retrying", "resuming"} /\ client'.kind = client.kind
         /\ client'.last_ack = client.last_ack /\ client'.buffered = client.buffered
         /\ client'.receiver = client.receiver
         /\ client'.last_sequence = client.last_sequence
         /\ Len(to_client') = 0 /\ handler'.attached = FALSE
         /\ handler'.at = handler.at /\ handler'.buffer = handler.buffer
         /\ client.stage \in {"sending", "retrying", "resuming"}
         /\ AskResume \/ Retries => client'.leg = client.leg /\ client'.first_ack = client.first_ack
         /\ Disconnects \/ client.stage \in {"retrying", "resuming"}
         /\ Disconnects => client'.leg = 2 /\ client'.first_ack = client.last_ack
         /\ client'.stage = "resuming" => connected'
         /\ UNCHANGED <<outgoing, session, excuse>>
<1>1. client \in ClientType /\ handler \in HandlerType
  BY Types DEF Wired
<1>2. CASE AskResume
  <2>1. ~handler.attached /\ client.stage = "retrying"
    BY <1>2 DEF Wired, Gone, AskResume
  <2>2. handler.attached = FALSE
    BY <1>1, <2>1 DEF HandlerType
  <2>3. ~Disconnects
    BY <2>1 DEF Disconnects
  <2>4. QED
    BY <1>1, <1>2, <2>1, <2>2, <2>3, AskResumeEffect, EmptyQueue DEF ClientType
<1>3. CASE Disconnects
  <2>1. ~AskResume /\ ~Retries
    BY <1>3 DEF Disconnects, AskResume, Retries
  <2>2. QED
    BY <1>1, <1>3, <2>1, CloseEffect DEF ClientType, Disconnects
<1>4. CASE Retries
  <2>1. ~Disconnects
    BY <1>4 DEF Disconnects, Retries
  <2>2. QED
    BY <1>1, <1>4, <2>1, CloseEffect DEF ClientType, Retries
<1>5. QED
  BY <1>2, <1>3, <1>4

LEMMA FrameTaken ==
  ASSUME Wired, HandleFrame
  PROVE  to_server[1].type = "frame"
<1>1. PICK whole \in Nat, rest \in Nat, pauses \in BOOLEAN, q \in Seq(Message),
           p \in Message, ack \in Message : Stores(whole, rest, pauses, q, p, ack)
  BY HandleFrameEffect
<1>2. QED
  BY <1>1 DEF Stores

LEMMA ReachableKept ==
  ASSUME Grounds, Next, Quiet'
  PROVE  Reachable'
<1> DEFINE NoError(q) == \A i \in 1..Len(q) : q[i].type # "error"
<1>1. /\ Wired /\ client \in ClientType /\ handler \in HandlerType /\ session \in SessionType
      /\ Unexcused /\ Evidence /\ Settled /\ Reachable
      /\ Attached /\ Answered /\ ToClient /\ NoError(to_client)
      /\ Len(to_client) \in Nat /\ Len(session.log) \in Nat
  BY QuietSteps, Counted DEF Wired, Reachable
<1>2. /\ client.receiver # "failed"
      /\ client.stage = "starting" => connected
      /\ client.stage = "resuming" /\ ~connected =>
           Len(to_client) > 0 /\ to_client[1].type = "conflict"
      /\ client.stage \in Talking /\ ~connected => Final /\ handler.at \in {"closing", "idle"}
      /\ session.known \/ Final \/ client.stage = "starting"
  BY <1>1 DEF Reachable
<1>3. Running => session.known /\ ~Final
  <2>1. ASSUME Final PROVE ~Running
    <3>1. Len(session.log) \in 1..Len(session.log) /\ session.log[Len(session.log)] = "final"
      BY <1>1, <2>1 DEF Final
    <3>2. QED
      BY <1>1, <3>1 DEF Evidence, FinalLast, Running
  <2>2. QED
    BY <1>1, <2>1 DEF Evidence, FinalLast
<1>4. ASSUME NEW q, NEW r, NEW m, NoError(q), Added(q, r, m)
      PROVE  /\ m.type # "error" => NoError(r)
             /\ Len(q) > 0 => Len(r) > 0 /\ r[1] = q[1]
             /\ Len(q) = 0 => Len(r) > 0 /\ r[1] = m
  BY <1>4 DEF Added
<1>5. ASSUME NEW q, NEW r, NoError(q), Dropped(q, r) PROVE NoError(r)
  BY <1>5 DEF Dropped
<1> HIDE DEF NoError
<1>6. CASE Consume
  <2>1. /\ client.stage \in Talking /\ client'.stage \in Talking
        /\ client'.receiver # "failed" /\ Dropped(to_client, to_client')
        /\ UNCHANGED <<connected, handler, session>>
    BY <1>1, <1>2, <1>6, ConsumeEffect DEF Talking
  <2>2. NoError(to_client')
    BY <1>1, <1>5, <2>1
  <2>3. QED
    BY <1>2, <2>1, <2>2 DEF Reachable, NoError, Talking, Final
<1>7. CASE ReceiveReady
  <2>1. /\ client.stage \in Arriving /\ client'.stage = "sending" /\ to_client[1].type = "ready"
        /\ client'.receiver = client.receiver /\ Dropped(to_client, to_client')
        /\ UNCHANGED <<connected, handler, session>>
    BY <1>1, <1>7, ReceiveReadyEffect
  <2>2. NoError(to_client') /\ Len(to_client) > 0
    BY <1>1, <1>5, <2>1 DEF Dropped
  <2>3. connected
    BY <1>2, <2>1 DEF Arriving
  <2>4. session.known
    BY <1>1, <1>3, <2>1, <2>2, <2>3 DEF Answered, Running
  <2>5. QED
    BY <1>2, <2>1, <2>2, <2>3, <2>4 DEF Reachable, NoError
<1>8. CASE \/ CheckReceiver \/ (SendBlock /\ connected) \/ (SendEnd /\ connected)
           \/ (SendFrame /\ connected)
  <2>1. /\ client.stage \in Talking /\ client'.stage \in Talking
        /\ client'.receiver = client.receiver
        /\ UNCHANGED <<connected, to_client, handler, session>>
    BY <1>1, <1>8, QuietGate DEF Talking
  <2>2. QED
    BY <1>1, <1>2, <2>1 DEF Reachable, NoError, Talking, Final
<1>9. CASE Disconnects \/ AskResume \/ Retries
  <2>1. /\ client'.stage \in {"retrying", "resuming"} /\ client.stage # "starting"
        /\ client'.receiver = client.receiver /\ Len(to_client') = 0
        /\ client'.stage = "resuming" => connected' /\ UNCHANGED session
    BY <1>1, <1>9, QuietTurns
  <2>2. UNCHANGED session
    BY <1>9 DEF Disconnects, AskResume, Retries, serverVars
  <2>3. QED
    BY <1>2, <2>1, <2>2 DEF Reachable, Talking, Final
<1>10. ASSUME UNCHANGED client, connected' = connected,
              session'.known \/ Final' \/ client.stage = "starting",
              client.stage \in Talking /\ ~connected => Final' /\ handler'.at \in {"closing", "idle"},
              \/ UNCHANGED to_client
              \/ \E m : Added(to_client, to_client', m) /\ m.type # "error"
       PROVE  Reachable'
  <2>1. CASE UNCHANGED to_client
    BY <1>1, <1>2, <1>10, <2>1 DEF Reachable, NoError
  <2>2. ASSUME NEW m, Added(to_client, to_client', m), m.type # "error" PROVE Reachable'
    <3>1. /\ NoError(to_client')
          /\ Len(to_client) > 0 => Len(to_client') > 0 /\ to_client'[1] = to_client[1]
      BY <1>1, <1>4, <2>2
    <3>2. QED
      BY <1>2, <1>10, <3>1 DEF Reachable, NoError
  <2>3. QED
    BY <1>10, <2>1, <2>2
<1>11. CASE StartSession
  <2>1. /\ UNCHANGED <<client, connected>> /\ Added(to_client, to_client', Msg("ready", 0))
        /\ Msg("ready", 0).type = "ready" /\ connected
    BY <1>1, <1>11, StartEffect, FirstRequest
  <2>2. session'.known
    BY <1>1, <1>11 DEF StartSession, SessionType
  <2>3. QED
    BY <1>10, <2>1, <2>2
<1>12. CASE RefuseResume
  <2>1. PICK m \in Message :
          /\ client.stage = "resuming" /\ Len(to_client) = 0
          /\ m.type = IF session.known THEN "conflict" ELSE "error"
          /\ Added(to_client, to_client', m)
          /\ UNCHANGED <<client, handler, session>>
    BY <1>1, <1>12, RefuseEffect, FirstRequest
  <2>2. session.known
    BY <1>1, <1>2, <2>1 DEF Settled, Emptied
  <2>3. NoError(to_client') /\ Len(to_client') > 0 /\ to_client'[1].type = "conflict"
    BY <1>1, <1>4, <2>1, <2>2
  <2>4. QED
    BY <1>2, <2>1, <2>2, <2>3 DEF Reachable, NoError, Talking
<1>13. CASE OpenResume
  <2>1. /\ UNCHANGED <<client, connected, to_client>> /\ connected
        /\ session'.known
    BY <1>1, <1>13, OpenEffect, FirstRequest
  <2>2. QED
    BY <1>10, <2>1
<1>14. CASE Ready \/ QueueReplay \/ HandleFrame \/ HandleEnd \/ TakeChunk
  <2>1. Running /\ session.known
    BY <1>3, <1>14 DEF Ready, QueueReplay, HandleFrame, HandleEnd, TakeChunk, Running
  <2>2. ~(client.stage \in Talking /\ ~connected)
    BY <1>2, <1>3, <2>1
  <2>3. UNCHANGED <<client, connected>>
    BY <1>14 DEF Ready, QueueReplay, HandleFrame, HandleEnd, TakeChunk, clientSide
  <2>4. session'.known
    <3>1. Ready \/ QueueReplay => UNCHANGED session
      BY DEF Ready, QueueReplay
    <3>2. HandleFrame \/ HandleEnd => session'.known = session.known
      BY <1>1 DEF HandleFrame, HandleEnd, SessionType
    <3>3. TakeChunk => session'.known = session.known
      BY <1>1, TakeEffect DEF Takes
    <3>4. QED
      BY <1>14, <2>1, <3>1, <3>2, <3>3
  <2>5. CASE ~HandleFrame /\ ~HandleEnd
    <3>1. UNCHANGED to_client \/ \E m : Added(to_client, to_client', m) /\ m.type # "error"
      <4>1. CASE Ready
        BY <1>1, <4>1, ReadyEffect
      <4>2. CASE QueueReplay \/ TakeChunk
        BY <4>2 DEF QueueReplay, TakeChunk
      <4>3. QED
        BY <1>14, <2>5, <4>1, <4>2
    <3>2. QED
      BY <1>10, <2>2, <2>3, <2>4, <3>1
  <2>6. CASE HandleFrame \/ HandleEnd
    <3>1. client.stage \in Talking
      <4>1. to_server # << >>
        BY <2>6 DEF HandleFrame, HandleEnd
      <4>2. to_server[1].type \in {"frame", "end"}
        BY <1>1, <2>6, FrameTaken, HandleEndEffect
      <4>3. QED
        BY <1>1, <4>1, <4>2, FirstRequest
    <3>2. NoError(to_client')
      <4>1. CASE HandleFrame
        <5>1. PICK whole \in Nat, rest \in Nat, pauses \in BOOLEAN, q \in Seq(Message),
                   p \in Message, ack \in Message : Stores(whole, rest, pauses, q, p, ack)
          BY <1>1, <4>1, HandleFrameEffect
        <5>2. NoError(q)
          BY <1>1, <1>4, <5>1 DEF Stores
        <5>3. QED
          BY <1>4, <5>1, <5>2 DEF Stores
      <4>2. CASE HandleEnd
        <5>1. \/ UNCHANGED to_client
              \/ \E ack \in Message : ack.type = "audio_ack" /\ Added(to_client, to_client', ack)
          BY <1>1, <4>2, HandleEndEffect
        <5>2. QED
          BY <1>1, <1>4, <5>1
      <4>3. QED
        BY <2>6, <4>1, <4>2
    <3>3. QED
      BY <1>2, <2>2, <2>3, <2>4, <3>1, <3>2 DEF Reachable, NoError, Talking
  <2>7. QED
    BY <2>5, <2>6
<1>15. CASE WorkerEnds
  <2>1. PICK event \in Message : Ends(event)
    BY <1>1, <1>15, EndsEffect
  <2>2. /\ UNCHANGED <<client, connected, to_client>> /\ Running
        /\ session'.known \/ event.type = "final"
        /\ Added(session.log, session'.log, event.type)
    BY <2>1 DEF Ends, Running
  <2>3. event.type = "final" => Final'
    BY <2>2 DEF Final, Added
  <2>4. ~(client.stage \in Talking /\ ~connected)
    BY <1>2, <1>3, <2>2
  <2>5. QED
    BY <1>10, <2>2, <2>3, <2>4
<1>16. CASE Send
  <2>1. /\ UNCHANGED <<client, connected, handler, session>>
        /\ Added(to_client, to_client', outgoing[1]) /\ Dropped(outgoing, outgoing')
    BY <1>1, <1>16, SendEffect
  <2>2. outgoing[1].type # "error"
    <3>1. 1 \in 1..Len(outgoing)
      BY <2>1 DEF Dropped
    <3>2. QED
      BY <1>1, <3>1 DEF ToClient, Only, EventTypes
  <2>3. QED
    BY <1>2, <1>10, <2>1, <2>2 DEF Final
<1>17. CASE Detach
  <2>1. /\ UNCHANGED <<client, session, to_client>> /\ handler'.at = "closing"
        /\ Final' <=> Final
    BY <1>1, <1>17 DEF Detach, HandlerType, Final
  <2>2. CASE handler.attached
    <3>1. Final
      BY <1>1, <1>17, <2>2 DEF Detach, Settled, Emptied
    <3>2. client.stage \in {"ending", "done"}
      BY <1>1, <3>1 DEF Settled, Emptied
    <3>3. QED
      BY <1>1, <1>2, <2>1, <3>1, <3>2 DEF Reachable, NoError
  <2>3. CASE ~handler.attached
    <3>1. connected' = connected
      BY <1>17, <2>3 DEF Detach
    <3>2. QED
      BY <1>2, <1>10, <2>1, <3>1
  <2>4. QED
    BY <2>2, <2>3
<1>18. CASE Release
  <2>1. /\ UNCHANGED <<client, connected, session, to_client>> /\ handler'.at = "idle"
        /\ Final' <=> Final
    BY <1>18 DEF Release, Idle, clientSide, Final
  <2>2. QED
    BY <1>2, <1>10, <2>1
<1>19. QED
  BY <1>1, <1>6, <1>7, <1>8, <1>9, <1>11, <1>12, <1>13, <1>14, <1>15, <1>16, <1>17, <1>18
     DEF Unexcused, Server

\* The handlers of audio: what they acknowledge is what they have stored.
LEMMA FrameAcknowledged ==
  ASSUME Evidence, Acknowledged, HandleFrame \/ HandleEnd
  PROVE  Acknowledged'
<1>1. /\ Wired /\ client \in ClientType /\ handler \in HandlerType /\ session \in SessionType
      /\ \A i \in 1..Len(to_client) : to_client[i].value \in Int
  BY Counted DEF Message, None
<1>2. /\ client.last_ack \in Int /\ session.chunks \in Nat /\ handler.buffer \in Nat
      /\ client.last_ack + 1 <= session.chunks
      /\ Rising(to_client, client.last_ack, session.chunks, handler.buffer)
  BY <1>1 DEF Acknowledged, ClientType, SessionType, HandlerType, None
<1>3. CASE HandleFrame
  <2>1. PICK whole \in Nat, rest \in Nat, pauses \in BOOLEAN, q \in Seq(Message),
             p \in Message, ack \in Message : Stores(whole, rest, pauses, q, p, ack)
    BY <1>1, <1>3, HandleFrameEffect
  <2> DEFINE more == session.chunks + whole
  <2>2. /\ session'.chunks = more /\ handler'.buffer = rest /\ UNCHANGED client
        /\ p.type = "pause" /\ ack.type = "audio_ack" /\ ack.buffered = rest
        /\ pauses => Added(to_client, q, p)
        /\ ~pauses => q = to_client
        /\ Added(q, to_client', ack)
    BY <1>1, <2>1 DEF Stores, SessionType, HandlerType
  <2>3. ack.value = more - 1
    <3>1. ack.value = session.chunks + whole - 1
      BY <2>1, Zenon DEF Stores
    <3>2. session.chunks \in Nat /\ whole \in Nat
      BY <1>2
    <3>3. QED
      BY <3>1, <3>2
  <2>4. more \in Nat /\ session.chunks <= more /\ client.last_ack + 1 <= more
    BY <1>2
  <2> HIDE DEF more
  <2>5. ack.value \in Int /\ ack.value + 1 = more
    BY <2>3, <2>4
  <2>6. Rising(q, client.last_ack, session.chunks, handler.buffer)
    BY <1>2, <2>2, RisingSame DEF IsAck
  <2>7. \A i \in 1..Len(q) : q[i].value \in Int
    <3>1. \A i \in 1..Len(q) : q[i] \in Message
      BY Elements
    <3>2. QED
      BY <3>1 DEF Message, None
  <2>8. Rising(to_client', client.last_ack, more, rest) /\ ~NoAck(to_client')
    BY <1>2, <2>2, <2>4, <2>5, <2>6, <2>7, RisingMore DEF IsAck
  <2>9. QED
    BY <2>2, <2>4, <2>8 DEF Acknowledged
<1>4. CASE HandleEnd
  <2>1. CASE handler.buffer = 0 /\ UNCHANGED <<session, to_client>>
    <3>1. handler'.buffer = handler.buffer /\ UNCHANGED client
      BY <1>1, <1>4, <2>1, HandleEndEffect
    <3>2. QED
      BY <2>1, <3>1 DEF Acknowledged
  <2>2. ASSUME NEW ack \in Message,
               session' = [session EXCEPT !.chunks = @ + 1, !.stored = @ + handler.buffer],
               ack.type = "audio_ack", ack.value = session.chunks, ack.buffered = 0,
               Added(to_client, to_client', ack)
        PROVE  Acknowledged'
    <3> DEFINE more == session.chunks + 1
    <3>1. session'.chunks = more /\ handler'.buffer = 0 /\ UNCHANGED client
      BY <1>1, <1>4, <2>2, HandleEndEffect DEF SessionType
    <3>2. /\ more \in Nat /\ session.chunks <= more /\ client.last_ack + 1 <= more
          /\ ack.value \in Int /\ ack.value + 1 = more
      BY <1>2, <2>2
    <3> HIDE DEF more
    <3>3. /\ Rising(to_client', client.last_ack, more, handler'.buffer)
          /\ ~NoAck(to_client')
      <4>1. \A i \in 1..Len(to_client) : to_client[i].value \in Int
        BY <1>1
      <4>2. IsAck(ack)
        BY <2>2 DEF IsAck
      <4>3. QED
        BY <1>2, <2>2, <3>1, <3>2, <4>1, <4>2, RisingMore
    <3>4. QED
      BY <3>1, <3>2, <3>3 DEF Acknowledged
  <2>3. QED
    BY <1>1, <1>4, <2>1, <2>2, HandleEndEffect
<1>5. QED
  BY <1>3, <1>4

LEMMA AcknowledgedKept ==
  ASSUME Grounds, Next, Quiet'
  PROVE  Acknowledged'
<1>1. /\ Wired /\ client \in ClientType /\ handler \in HandlerType /\ session \in SessionType
      /\ Unexcused /\ Evidence /\ Settled /\ Reachable /\ Acknowledged /\ Quiet
      /\ Attached /\ Len(to_client) \in Nat
      /\ \A i \in 1..Len(to_client) : to_client[i] \in Message
  BY QuietSteps, Counted DEF Wired
<1>2. /\ client.last_ack \in Nat \cup {None} /\ session.chunks \in Nat
      /\ client.last_ack + 1 <= session.chunks
      /\ Rising(to_client, client.last_ack, session.chunks, handler.buffer)
      /\ NoAck(to_client) =>
           /\ client.last_ack + 1 = session.chunks
           /\ \/ client.buffered = handler.buffer
              \/ client.buffered = None /\ session.chunks = 0
  BY <1>1 DEF Acknowledged, ClientType, SessionType
\* Nothing that counts changes.
<1>3. ASSUME client'.last_ack = client.last_ack, client'.buffered = client.buffered,
             session'.chunks = session.chunks, handler'.buffer = handler.buffer,
             \/ UNCHANGED to_client
             \/ (NoAck(to_client) /\ NoAck(to_client'))
             \/ \E m : Added(to_client, to_client', m) /\ m.type # "audio_ack"
      PROVE  Acknowledged'
  <2>1. CASE UNCHANGED to_client
    BY <1>2, <1>3, <2>1 DEF Acknowledged
  <2>2. CASE NoAck(to_client) /\ NoAck(to_client')
    BY <1>2, <1>3, <2>2, RisingNone DEF Acknowledged
  <2>3. ASSUME NEW m, Added(to_client, to_client', m), m.type # "audio_ack"
        PROVE  Acknowledged'
    <3>1. /\ Rising(to_client', client.last_ack, session.chunks, handler.buffer)
          /\ NoAck(to_client') <=> NoAck(to_client)
      BY <1>2, <2>3, RisingSame DEF IsAck
    <3>2. QED
      BY <1>2, <1>3, <3>1 DEF Acknowledged
  <2>4. QED
    BY <1>3, <2>1, <2>2, <2>3
<1>4. client.stage \in {"starting", "resuming"} => NoAck(to_client)
  BY <1>1 DEF Evidence, Paced, Arriving
<1>5. CASE Consume
  <2> DEFINE m == to_client[1]
             q == to_client
             r == to_client'
  <2>1. /\ Dropped(q, r) /\ m \in Message /\ UNCHANGED <<handler, session>>
        /\ client'.last_ack = IF m.type = "audio_ack" /\ m.value # None THEN m.value
                              ELSE client.last_ack
        /\ client'.buffered = IF m.type = "audio_ack" THEN m.buffered ELSE client.buffered
    BY <1>1, <1>5, ConsumeEffect
  <2>2. m.value \in Nat \cup {None}
    BY <2>1 DEF Message
  <2>3. CASE m.type = "audio_ack"
    <3>1. /\ m.value + 1 <= session.chunks
          /\ Rising(r, m.value, session.chunks, handler.buffer)
          /\ NoAck(r) => m.value + 1 = session.chunks /\ m.buffered = handler.buffer
      BY <1>2, <2>1, <2>3, RisingLess DEF IsAck
    <3>2. client.last_ack <= m.value
      <4>1. 1 \in 1..Len(to_client)
        BY <2>1 DEF Dropped
      <4>2. QED
        BY <1>2, <2>3, <4>1 DEF Rising, IsAck
    <3>3. client'.last_ack = m.value
      BY <1>2, <2>1, <2>2, <2>3, <3>2 DEF None
    <3>4. QED
      BY <2>1, <2>3, <3>1, <3>3 DEF Acknowledged
  <2>4. CASE m.type # "audio_ack"
    <3>1. Rising(r, client.last_ack, session.chunks, handler.buffer) /\ (NoAck(r) => NoAck(q))
      BY <1>2, <2>1, <2>4, RisingLess DEF IsAck
    <3>2. QED
      BY <1>2, <2>1, <2>4, <3>1 DEF Acknowledged
  <2>5. QED
    BY <2>3, <2>4
<1>6. CASE ReceiveReady
  <2>1. /\ Dropped(to_client, to_client') /\ client.stage \in Arriving
        /\ client'.last_ack = client.last_ack /\ client'.buffered = client.buffered
        /\ UNCHANGED <<handler, session>>
    BY <1>1, <1>6, ReceiveReadyEffect
  <2>2. NoAck(to_client) /\ NoAck(to_client')
    BY <1>4, <2>1, AckKept DEF Arriving
  <2>3. QED
    BY <1>3, <2>1, <2>2
<1>7. CASE \/ CheckReceiver \/ (SendBlock /\ connected) \/ (SendEnd /\ connected)
           \/ (SendFrame /\ connected)
  <2>1. /\ client'.last_ack = client.last_ack /\ client'.buffered = client.buffered
        /\ UNCHANGED <<to_client, handler, session>>
    BY <1>1, <1>7, QuietGate
  <2>2. QED
    BY <1>3, <2>1
<1>8. CASE Disconnects \/ AskResume \/ Retries
  <2>1. /\ client'.last_ack = client.last_ack /\ client'.buffered = client.buffered
        /\ handler'.buffer = handler.buffer /\ UNCHANGED session /\ Len(to_client') = 0
    BY <1>1, <1>8, QuietTurns
  <2>2. NoAck(to_client)
    <3>1. CASE Disconnects
      BY <1>1, <3>1 DEF Evidence, Paced, Disconnects
    <3>2. CASE AskResume
      <4>1. to_client = << >>
        BY <1>1, <3>2 DEF Wired, Gone, AskResume
      <4>2. QED
        BY <4>1, EmptyQueue, AckKept
    <3>3. CASE Retries
      BY <1>4, <3>3 DEF Retries
    <3>4. QED
      BY <1>8, <3>1, <3>2, <3>3
  <2>3. QED
    BY <1>3, <2>1, <2>2, AckKept
<1>9. CASE HandleFrame \/ HandleEnd
  BY <1>1, <1>9, FrameAcknowledged
<1>10. CASE StartSession
  <2>1. /\ UNCHANGED client /\ Len(to_client) = 0 /\ client.stage = "starting"
        /\ handler'.buffer = 0 /\ Added(to_client, to_client', Msg("ready", 0))
        /\ Msg("ready", 0).type = "ready" /\ session'.chunks = session.chunks
    BY <1>1, <1>10, StartEffect, FirstRequest DEF SessionType
  <2>2. NoAck(to_client) /\ NoAck(to_client')
    BY <1>4, <2>1, AckKept
  <2>3. session.chunks = 0 /\ client.buffered = None
    BY <1>1, <2>1 DEF Evidence, Started
  <2>4. QED
    BY <1>2, <2>1, <2>2, <2>3, RisingNone DEF Acknowledged
<1>11. CASE Release
  <2>1. /\ UNCHANGED <<client, session, to_client>> /\ handler'.buffer = 0
        /\ handler.at = "closing"
    BY <1>11 DEF Release, clientSide, Idle
  <2>2. CASE Final
    <3>1. handler.buffer = 0
      BY <1>1, <2>2 DEF Settled, Emptied
    <3>2. QED
      BY <1>3, <2>1, <3>1
  <2>3. CASE ~Final
    <3>1. client.stage \in {"starting", "retrying", "resuming"}
      <4>1. client.stage \notin Talking
        BY <1>1, <2>1, <2>3 DEF Reachable, Attached
      <4>2. client.stage # "done" /\ client.stage \in Stages
        BY <1>1 DEF Wired, ClientShape, Quiet, ClientType
      <4>3. QED
        BY <4>1, <4>2 DEF Talking, Stages
    <3>2. NoAck(to_client)
      <4>1. CASE client.stage = "retrying"
        <5>1. to_client = << >>
          BY <1>1, <4>1 DEF Wired, Gone
        <5>2. QED
          BY <5>1, EmptyQueue, AckKept
      <4>2. QED
        BY <1>4, <3>1, <4>1
    <3>3. CASE client.stage = "starting"
      <4>1. session.chunks = 0 /\ client.buffered = None
        BY <1>1, <3>3 DEF Evidence, Started
      <4>2. QED
        BY <1>2, <2>1, <3>2, <4>1, RisingNone DEF Acknowledged
    <3>4. CASE client.stage \in {"retrying", "resuming"}
      <4>1. client.buffered = 0
        BY <1>1, <3>4 DEF Evidence, Halted
      <4>2. QED
        BY <1>2, <2>1, <3>2, <4>1, RisingNone DEF Acknowledged
    <3>5. QED
      BY <3>1, <3>3, <3>4
  <2>4. QED
    BY <2>2, <2>3
<1>12. CASE /\ Server /\ ~StartSession /\ ~Release /\ ~HandleFrame /\ ~HandleEnd
  <2>1. UNCHANGED client
    BY <1>1, <1>12, ServerLeaves
  <2>2. session'.chunks = session.chunks
    BY <1>1, <1>12, StoredSteps DEF Next
  <2>3. UNCHANGED to_client \/ \E m : Added(to_client, to_client', m) /\ m.type # "audio_ack"
    BY <1>1, <1>12, Deliveries
  <2>4. handler'.buffer = handler.buffer
    <3>1. OpenResume => handler'.buffer = handler.buffer
      BY <1>1, OpenEffect DEF Settled, Emptied
    <3>2. RefuseResume \/ Send => handler'.buffer = handler.buffer
      BY DEF RefuseResume, Send, serverVars
    <3>3. Ready \/ QueueReplay \/ Detach => handler'.buffer = handler.buffer
      BY <1>1, ReadyEffect, QueueReplayEffect DEF Detach, HandlerType
    <3>4. TakeChunk => handler'.buffer = handler.buffer
      BY <1>1 DEF TakeChunk, HandlerType
    <3>5. WorkerEnds => handler'.buffer = handler.buffer
      BY <1>1 DEF WorkerEnds, HandlerType
    <3>6. QED
      BY <1>12, <3>1, <3>2, <3>3, <3>4, <3>5 DEF Server
  <2>5. QED
    BY <1>3, <2>1, <2>2, <2>3, <2>4
<1>13. QED
  BY <1>1, <1>5, <1>6, <1>7, <1>8, <1>9, <1>10, <1>11, <1>12 DEF Unexcused

LEMMA ResumableKept ==
  ASSUME Grounds, Next, Quiet'
  PROVE  Resumable'
<1>1. /\ Wired /\ client \in ClientType /\ handler \in HandlerType /\ session \in SessionType
      /\ Unexcused /\ Evidence /\ Settled /\ Acknowledged /\ Resumable
  BY QuietSteps, Counted
<1>2. /\ session.chunks \in Nat /\ session.stored \in Nat /\ total_samples \in Nat
      /\ client.leg = 2 => client.first_ack \in Nat
  BY <1>1, Numbers DEF SessionType, Wired, ClientShape
<1>3. CASE Consume \/ ReceiveReady
  <2>1. /\ client'.stage \in Talking /\ client'.leg = client.leg
        /\ client'.first_ack = client.first_ack /\ UNCHANGED session
    BY <1>1, <1>3, ConsumeEffect, ReceiveReadyEffect DEF SameBut, Talking
  <2>2. QED
    BY <1>1, <2>1 DEF Resumable, Talking
<1>4. CASE \/ CheckReceiver \/ (SendBlock /\ connected) \/ (SendEnd /\ connected)
           \/ (SendFrame /\ connected)
  <2>1. /\ client'.stage \in Talking /\ client'.leg = client.leg
        /\ client'.first_ack = client.first_ack /\ UNCHANGED session
    BY <1>1, <1>4, QuietGate
  <2>2. QED
    BY <1>1, <2>1 DEF Resumable, Talking
<1>5. CASE AskResume \/ Retries
  <2>1. /\ client.stage \in {"retrying", "resuming"} /\ client'.leg = client.leg
        /\ client'.first_ack = client.first_ack /\ UNCHANGED session
    BY <1>1, <1>5, QuietTurns DEF AskResume, Retries
  <2>2. QED
    BY <1>1, <2>1 DEF Resumable
<1>6. CASE Disconnects
  <2>1. /\ client'.leg = 2 /\ client'.first_ack = client.last_ack /\ UNCHANGED session
    BY <1>1, <1>6, QuietTurns
  <2>2. /\ client.kind = "probe" /\ client.leg = 1 /\ client.stage = "sending"
        /\ client.buffered = 0
    BY <1>6 DEF Disconnects, Drained
  <2>3. client.last_ack + 1 = session.chunks
    BY <1>1, <2>2 DEF Evidence, Paced, Acknowledged
  <2>4. client.sent = session.stored
    <3>1. client.sent = session.stored + client.buffered
      BY <1>1, <2>2 DEF Evidence, Paced, None
    <3>2. QED
      BY <1>2, <2>2, <3>1
  <2>5. session.stored < total_samples
    BY <1>1, <2>2, <2>4 DEF Settled, Legs
  <2>6. QED
    BY <1>2, <2>1, <2>3, <2>5 DEF Resumable
<1>7. CASE HandleFrame \/ HandleEnd
  <2>1. client.stage \in Talking /\ UNCHANGED client
    <3>1. to_server # << >> /\ UNCHANGED client
      BY <1>7 DEF HandleFrame, HandleEnd, clientSide
    <3>2. to_server[1].type \in {"frame", "end"}
      BY <1>1, <1>7, FrameTaken, HandleEndEffect
    <3>3. QED
      BY <1>1, <3>1, <3>2, FirstRequest
  <2>2. /\ session'.chunks \in Nat /\ session.chunks <= session'.chunks
        /\ session'.chunks = session.chunks => session'.stored = session.stored
    <3>1. CASE HandleFrame
      <4>1. PICK whole \in Nat, rest \in Nat, pauses \in BOOLEAN, q \in Seq(Message),
                 p \in Message, ack \in Message : Stores(whole, rest, pauses, q, p, ack)
        BY <1>1, <3>1, HandleFrameEffect
      <4> DEFINE units == whole * internal_size
      <4>2. /\ units \in Nat /\ (units = 0 <=> whole = 0)
            /\ session'.chunks = session.chunks + whole
            /\ session'.stored = session.stored + units
        BY <1>1, <4>1 DEF Stores, SessionType
      <4> HIDE DEF units
      <4>3. QED
        BY <1>2, <4>2
    <3>2. CASE HandleEnd
      <4>1. \/ UNCHANGED session
            \/ session' = [session EXCEPT !.chunks = @ + 1, !.stored = @ + handler.buffer]
        BY <1>1, <3>2, HandleEndEffect
      <4>2. UNCHANGED session \/ session'.chunks = session.chunks + 1
        BY <1>1, <4>1 DEF SessionType
      <4>3. QED
        BY <1>2, <4>2
    <3>3. QED
      BY <1>7, <3>1, <3>2
  <2>3. client.stage \notin {"retrying", "resuming"}
    BY <2>1 DEF Talking
  <2>4. CASE client.leg = 2
    <3>1. client.first_ack + 1 <= session.chunks /\ client.first_ack \in Nat
      BY <1>1, <1>2, <2>4 DEF Resumable
    <3>2. client.first_ack + 1 <= session'.chunks
      BY <1>2, <2>2, <3>1
    <3>3. client.first_ack + 1 = session'.chunks => session'.chunks = session.chunks
      BY <1>2, <2>2, <3>1
    <3>4. QED
      BY <1>1, <2>1, <2>2, <2>3, <2>4, <3>2, <3>3 DEF Resumable
  <2>5. CASE client.leg # 2
    <3>1. client'.leg # 2 /\ client'.stage \notin {"retrying", "resuming"}
      BY <2>1, <2>3, <2>5
    <3>2. QED
      BY <3>1 DEF Resumable
  <2>6. QED
    BY <2>4, <2>5
<1>8. CASE Server /\ ~HandleFrame /\ ~HandleEnd
  <2>1. UNCHANGED client
    BY <1>1, <1>8, ServerLeaves
  <2>2. session'.chunks = session.chunks /\ session'.stored = session.stored
    BY <1>1, <1>8, StoredSteps DEF Next
  <2>3. QED
    BY <1>1, <2>1, <2>2 DEF Resumable
<1>9. QED
  BY <1>1, <1>3, <1>4, <1>5, <1>6, <1>7, <1>8 DEF Unexcused

\* Messages that are no events change no numbers.
LEMMA RunsAside ==
  ASSUME NEW q, NEW r, NEW lo \in Nat, NEW hi \in Nat, NEW m,
         Runs(q, lo, hi), Added(q, r, m), m.type \notin EventTypes
  PROVE  Runs(r, lo, hi)
  BY RunsMore DEF Following

\* The handler sends what is numbered, and only what the gate has not seen.
LEMMA NumberedWhere ==
  ASSUME Grounds, Next, Quiet'
  PROVE  /\ handler.attached /\ handler.at = "starting" =>
              /\ Len(to_client) = 0
              /\ \A i \in 1..Len(outgoing) : outgoing[i].type \notin EventTypes
              /\ handler.acknowledged = client.last_sequence
         /\ Running => ~Final
         /\ client.stage \in Arriving \cup {"retrying"} => ~Final
<1>1. Wired /\ Evidence /\ Settled /\ Numbered /\ Attached /\ Answered /\ Gone
      /\ client \in ClientType /\ Len(session.log) \in Nat
  BY QuietSteps, Counted DEF Wired
<1>2. handler.attached /\ handler.at = "starting" => Len(to_client) = 0
  <2>1. SUFFICES ASSUME handler.attached, handler.at = "starting" PROVE Len(to_client) = 0
    OBVIOUS
  <2>2. client.stage \notin Talking \cup {"done", "retrying"}
    BY <1>1, <2>1 DEF Attached, Gone
  <2>3. client.stage \in Arriving
    BY <1>1, <2>2 DEF ClientType, Stages, Talking, Arriving
  <2>4. QED
    BY <1>1, <2>1, <2>3 DEF Answered
<1>3. Running => ~Final
  <2>1. ASSUME Final PROVE ~Running
    <3>1. Len(session.log) \in 1..Len(session.log) /\ session.log[Len(session.log)] = "final"
      BY <1>1, <2>1 DEF Final
    <3>2. QED
      BY <1>1, <3>1 DEF Evidence, FinalLast, Running
  <2>2. QED
    BY <2>1
<1>4. client.stage \in Arriving \cup {"retrying"} => ~Final
  BY <1>1 DEF Settled, Emptied, Arriving
<1>5. QED
  BY <1>1, <1>2, <1>3, <1>4 DEF Numbered

LEMMA NumberedKept ==
  ASSUME Grounds, Next, Quiet'
  PROVE  Numbered'
<1> DEFINE seen == client.last_sequence + 1
           last == Len(session.log)
           Flows(q, out, replay, low, high) ==
             \E a, b \in Nat : Runs(q, low, a) /\ Runs(out, a, b) /\ Runs(replay, b, high)
           Flowing == (handler.attached /\ handler.at # "starting") \/ Final
<1>1. /\ Wired /\ client \in ClientType /\ handler \in HandlerType /\ session \in SessionType
      /\ Unexcused /\ Evidence /\ Settled /\ Reachable /\ Numbered /\ Quiet
      /\ Attached /\ Answered /\ ToClient
      /\ Len(to_client) \in Nat /\ Len(outgoing) \in Nat /\ last \in Nat /\ seen \in Nat
  BY QuietSteps, Counted DEF Wired
<1>2. /\ handler.attached /\ handler.at = "starting" =>
           /\ Len(to_client) = 0
           /\ \A i \in 1..Len(outgoing) : outgoing[i].type \notin EventTypes
           /\ handler.acknowledged = client.last_sequence
      /\ Running => ~Final
      /\ client.stage \in Arriving \cup {"retrying"} => ~Final
      /\ Final /\ handler.at \in {"closing", "idle"} => Len(outgoing) = 0
      /\ Flowing => Flows(to_client, outgoing, handler.replay, seen, last)
  BY <1>1, NumberedWhere DEF Numbered, Piped
<1>3. ASSUME Flows(to_client', outgoing', handler'.replay, seen', last')
      PROVE  \E a, b \in Nat : Piped(a, b)'
  BY <1>3 DEF Piped
<1>4. ASSUME Flowing' => Flows(to_client', outgoing', handler'.replay, seen', last'),
             ~(handler'.attached /\ handler'.at = "starting"),
             Final' /\ handler'.at \in {"closing", "idle"} => Len(outgoing') = 0
      PROVE  Numbered'
  BY <1>3, <1>4 DEF Numbered
<1>5. UNCHANGED session => (Final' <=> Final) /\ last' = last
  BY DEF Final
<1> HIDE DEF seen, last, Flows
<1>6. CASE Consume \/ ReceiveReady
  <2> DEFINE m == to_client[1]
             next == Following(m, seen)
  <2>1. /\ Dropped(to_client, to_client') /\ m \in Message
        /\ UNCHANGED <<handler, outgoing, session>>
    BY <1>1, <1>6, ConsumeEffect, ReceiveReadyEffect
  <2>2. handler.attached => handler.at # "starting"
    BY <1>2, <2>1 DEF Dropped
  <2>3. ASSUME Flowing PROVE Flows(to_client', outgoing', handler'.replay, seen', last')
    <3>1. PICK a \in Nat, b \in Nat : /\ Runs(to_client, seen, a) /\ Runs(outgoing, a, b)
                                      /\ Runs(handler.replay, b, last)
      BY <1>2, <2>3 DEF Flows
    <3>2. /\ m.type \in EventTypes => m.value = seen
          /\ Runs(to_client', next, a)
      BY <1>1, <2>1, <3>1, RunsLess
    <3>3. seen' = next
      <4>1. CASE Consume /\ m.type \in EventTypes
        <5>1. client'.last_sequence = m.value
          BY <1>1, <4>1, ConsumeEffect
        <5>2. QED
          BY <3>2, <4>1, <5>1 DEF seen, Following
      <4>2. CASE Consume /\ m.type \notin EventTypes
        <5>1. client'.last_sequence = client.last_sequence
          BY <1>1, <4>2, ConsumeEffect
        <5>2. QED
          BY <4>2, <5>1 DEF seen, Following
      <4>3. CASE ReceiveReady
        <5>1. client'.last_sequence = client.last_sequence /\ m.type = "ready"
          BY <1>1, <4>3, ReceiveReadyEffect
        <5>2. QED
          BY <5>1 DEF seen, Following, EventTypes
      <4>4. QED
        BY <1>6, <4>1, <4>2, <4>3
    <3>4. QED
      BY <1>5, <2>1, <3>1, <3>2, <3>3 DEF Flows
  <2>4. QED
    BY <1>2, <1>4, <1>5, <2>1, <2>2, <2>3
<1>7. CASE \/ CheckReceiver \/ (SendBlock /\ connected) \/ (SendEnd /\ connected)
           \/ (SendFrame /\ connected)
  <2>1. /\ client.stage \in Talking
        /\ client'.last_sequence = client.last_sequence
        /\ UNCHANGED <<to_client, handler, outgoing, session>>
    BY <1>1, <1>7, QuietGate DEF Talking
  <2>2. seen' = seen
    BY <2>1 DEF seen
  <2>3. handler.attached => handler.at # "starting"
    BY <1>1, <2>1 DEF Attached
  <2>4. QED
    BY <1>2, <1>4, <1>5, <2>1, <2>2, <2>3
<1>8. CASE Disconnects \/ AskResume \/ Retries
  <2>1. /\ handler'.attached = FALSE /\ UNCHANGED session
        /\ client.stage \in {"sending", "retrying", "resuming"}
    BY <1>1, <1>8, QuietTurns
  <2>2. ~Final
    BY <1>1, <2>1 DEF Settled, Emptied
  <2>3. QED
    BY <1>4, <1>5, <2>1, <2>2
<1>9. CASE StartSession
  <2>1. /\ client.stage = "starting" /\ Len(to_client) = 0 /\ UNCHANGED client
        /\ Added(to_client, to_client', Msg("ready", 0)) /\ Msg("ready", 0).type = "ready"
        /\ handler'.at = "serving" /\ handler'.replay = << >> /\ outgoing' = << >>
        /\ session'.log = session.log
    BY <1>1, <1>9, StartEffect, FirstRequest DEF SessionType
  <2>2. Len(session.log) = 0
    BY <1>1, <2>1 DEF Evidence, Started
  <2>3. last' = 0 /\ last = 0
    BY <2>1, <2>2 DEF last
  <2>4. seen' = 0
    <3>1. seen' = seen
      BY <2>1 DEF seen
    <3>2. seen \in 0..0
      BY <1>1, <2>2 DEF Evidence, Seen, seen
    <3>3. QED
      BY <3>1, <3>2
  <2>5. Runs(to_client', 0, 0)
    <3>1. Runs(to_client, 0, 0)
      BY <2>1, RunsNone
    <3>2. QED
      BY <2>1, <3>1, RunsAside DEF EventTypes
  <2>6. Runs(outgoing', 0, 0) /\ Runs(handler'.replay, 0, 0)
    BY <2>1, RunsNone, EmptyQueue
  <2>7. Flows(to_client', outgoing', handler'.replay, seen', last')
    BY <2>3, <2>4, <2>5, <2>6 DEF Flows
  <2>8. QED
    BY <1>4, <2>1, <2>7
<1>10. CASE RefuseResume
  <2>1. /\ client.stage = "resuming" /\ ~handler.attached
        /\ UNCHANGED <<client, handler, session>>
    BY <1>1, <1>10, RefuseEffect, FirstRequest
  <2>2. QED
    BY <1>2, <1>4, <1>5, <2>1 DEF Arriving
<1>11. CASE OpenResume
  <2>1. /\ client.stage = "resuming" /\ to_server[1].value = client.last_sequence
        /\ UNCHANGED client
        /\ handler'.at = "starting" /\ handler'.acknowledged = to_server[1].value
        /\ outgoing' = << >>
        /\ session'.log = session.log \/ Added(session.log, session'.log, "commit")
    BY <1>1, <1>11, OpenEffect, FirstRequest
  <2>2. ~Final'
    <3>1. ~Final
      BY <1>2, <2>1 DEF Arriving
    <3>2. QED
      BY <2>1, <3>1 DEF Final, Added
  <2>3. QED
    BY <2>1, <2>2, EmptyQueue DEF Numbered
<1>12. CASE Ready
  <2>1. /\ handler.at = "starting" /\ handler.attached
        /\ Added(to_client, to_client', Msg("ready", session.chunks))
        /\ Msg("ready", session.chunks).type = "ready"
        /\ handler'.at = "replaying" /\ UNCHANGED <<client, outgoing, session>>
        /\ handler'.replay \in Seq(Message)
    BY <1>1, <1>12, ReadyEffect
  <2>2. /\ Len(to_client) = 0 /\ handler.acknowledged = client.last_sequence
        /\ \A i \in 1..Len(outgoing) : outgoing[i].type \notin EventTypes
    BY <1>2, <2>1
  <2>3. Runs(to_client', seen, seen)
    <3>1. Runs(to_client, seen, seen)
      BY <1>1, <2>2, RunsNone
    <3>2. QED
      BY <1>1, <2>1, <3>1, RunsAside DEF EventTypes
  <2>4. Runs(outgoing', seen, seen)
    BY <1>1, <2>1, <2>2, RunsFlat
  <2>5. Runs(handler'.replay, seen, last)
    <3> DEFINE r == handler'.replay
    <3>1. /\ Len(r) = IF client.last_sequence + 1 <= Len(session.log)
                      THEN Len(session.log) - 1 - client.last_sequence ELSE 0
          /\ \A i \in 1..Len(r) :
               r[i].value = client.last_sequence + i /\ r[i].type \in EventTypes
      BY <1>1, <1>12, <2>2, ReadyEffect
    <3>2. client.last_sequence \in Int /\ seen = client.last_sequence + 1
      BY <1>1 DEF ClientType, None, seen
    <3>3. client.last_sequence + 1 <= Len(session.log) /\ Len(session.log) = last /\ last \in Nat
      BY <1>1 DEF Evidence, Seen, last
    <3>4. Len(r) \in Nat /\ seen + Len(r) = last
      BY <3>1, <3>2, <3>3
    <3>5. ASSUME NEW i \in 1..Len(r)
          PROVE  /\ r[i].type \in EventTypes /\ r[i].value \in Int
                 /\ r[i].value + 1 = seen + i
      <4> DEFINE at == client.last_sequence
                 v == r[i].value
      <4>1. v = at + i /\ r[i].type \in EventTypes
        BY <3>1
      <4>2. at \in Int /\ seen = at + 1 /\ i \in Int
        BY <3>2, <3>4
      <4> HIDE DEF at, v
      <4>3. v \in Int /\ v + 1 = seen + i
        BY <4>1, <4>2
      <4>4. QED
        BY <4>1, <4>3 DEF v
    <3> HIDE DEF r
    <3>6. Runs(r, seen, seen + Len(r))
      BY <1>1, <3>4, <3>5, RunsOfLog
    <3>7. QED
      BY <3>4, <3>6 DEF r
  <2>6. seen' = seen /\ last' = last
    BY <2>1 DEF seen, last
  <2>7. Flows(to_client', outgoing', handler'.replay, seen', last')
    BY <1>1, <2>3, <2>4, <2>5, <2>6 DEF Flows
  <2>8. QED
    BY <1>4, <2>1, <2>7
<1>13. CASE QueueReplay
  <2>1. /\ handler.at = "replaying" /\ handler'.at \in {"replaying", "serving"}
        /\ handler'.attached = handler.attached /\ UNCHANGED <<client, to_client, session>>
    BY <1>1, <1>13, QueueReplayEffect
  <2>2. seen' = seen
    BY <2>1 DEF seen
  <2>3. ASSUME Flowing PROVE Flows(to_client', outgoing', handler'.replay, seen', last')
    <3>1. PICK a \in Nat, b \in Nat : /\ Runs(to_client, seen, a) /\ Runs(outgoing, a, b)
                                      /\ Runs(handler.replay, b, last)
      BY <1>2, <2>3 DEF Flows
    <3>2. CASE UNCHANGED outgoing /\ handler'.replay = handler.replay
      BY <1>5, <2>1, <2>2, <3>1, <3>2 DEF Flows
    <3>3. ASSUME handler.replay[1] \in Message, Dropped(handler.replay, handler'.replay),
                 Added(outgoing, outgoing', handler.replay[1])
          PROVE  Flows(to_client', outgoing', handler'.replay, seen', last')
      <4> DEFINE m == handler.replay[1]
                 next == Following(m, b)
      <4>1. /\ m.type \in EventTypes => m.value = b
            /\ Runs(handler'.replay, next, last)
        BY <1>1, <3>1, <3>3, RunsLess
      <4>2. Runs(outgoing', a, next)
        BY <3>1, <3>3, <4>1, RunsMore
      <4>3. next \in Nat
        BY <3>1 DEF Following
      <4>4. QED
        BY <1>5, <2>1, <2>2, <3>1, <4>1, <4>2, <4>3 DEF Flows
    <3>4. QED
      BY <1>1, <1>13, <3>2, <3>3, QueueReplayEffect
  <2>4. Flowing' => Flowing
    BY <1>5, <2>1
  <2>5. QED
    BY <1>4, <2>1, <2>3, <2>4
<1>14. CASE HandleFrame \/ HandleEnd
  <2>1. /\ handler.at = "serving" /\ handler.attached
        /\ handler'.at \in {"serving", "finishing"} /\ handler'.replay = handler.replay
        /\ UNCHANGED <<client, outgoing>>
    BY <1>1, <1>14 DEF HandleFrame, HandleEnd, HandlerType, clientSide
  <2>2. session'.log = session.log
    BY <1>1, <1>14 DEF HandleFrame, HandleEnd, SessionType
  <2>3. seen' = seen /\ last' = last
    BY <2>1, <2>2 DEF seen, last
  <2>4. PICK a \in Nat, b \in Nat : /\ Runs(to_client, seen, a) /\ Runs(outgoing, a, b)
                                    /\ Runs(handler.replay, b, last)
    BY <1>2, <2>1 DEF Flows
  <2>5. Runs(to_client', seen, a)
    <3>1. CASE HandleFrame
      <4>1. PICK whole \in Nat, rest \in Nat, pauses \in BOOLEAN, q \in Seq(Message),
                 p \in Message, ack \in Message : Stores(whole, rest, pauses, q, p, ack)
        BY <1>1, <3>1, HandleFrameEffect
      <4>2. /\ pauses => Added(to_client, q, p)
            /\ ~pauses => q = to_client
            /\ Added(q, to_client', ack) /\ p.type = "pause" /\ ack.type = "audio_ack"
        BY <4>1 DEF Stores
      <4>3. Runs(q, seen, a)
        BY <1>1, <2>4, <4>2, RunsAside DEF EventTypes
      <4>4. QED
        BY <1>1, <4>2, <4>3, RunsAside DEF EventTypes
    <3>2. CASE HandleEnd
      <4>1. \/ UNCHANGED to_client
            \/ \E ack \in Message : ack.type = "audio_ack" /\ Added(to_client, to_client', ack)
        BY <1>1, <3>2, HandleEndEffect
      <4>2. QED
        BY <1>1, <2>4, <4>1, RunsAside DEF EventTypes
    <3>3. QED
      BY <1>14, <3>1, <3>2
  <2>6. Flows(to_client', outgoing', handler'.replay, seen', last')
    BY <2>1, <2>3, <2>4, <2>5 DEF Flows
  <2>7. QED
    BY <1>4, <2>1, <2>6
<1>15. CASE TakeChunk
  <2>1. PICK q \in Seq(Message), flow \in Message, event \in Message,
             kind \in {"nothing", "partial", "commit"}, drops \in BOOLEAN :
               Takes(q, flow, event, kind, drops)
    BY <1>1, <1>15, TakeEffect
  <2>2. /\ Running /\ handler.attached /\ flow.type = "resume"
        /\ q = outgoing \/ Added(outgoing, q, flow)
        /\ UNCHANGED <<client, to_client>>
        /\ \/ kind = "nothing" /\ session'.log = session.log /\ outgoing' = q
           \/ /\ kind # "nothing" /\ Added(session.log, session'.log, kind)
              /\ event.type = kind /\ event.value = Len(session.log)
              /\ handler.at \notin {"starting", "replaying"} /\ Added(q, outgoing', event)
    BY <2>1 DEF Takes, Quiet
  <2>3. /\ handler'.at = handler.at /\ handler'.replay = handler.replay
        /\ handler'.attached = handler.attached
        /\ handler'.acknowledged = handler.acknowledged
    BY <1>1, <1>15 DEF TakeChunk, HandlerType
  <2>4. seen' = seen
    BY <2>2 DEF seen
  <2>5. CASE handler.at = "starting"
    <3>1. session'.log = session.log /\ outgoing' = q
      BY <2>2, <2>5
    <3>2. \A i \in 1..Len(q) : q[i].type \notin EventTypes
      BY <1>2, <2>2, <2>5 DEF Added, EventTypes
    <3>3. ~Final'
      BY <1>2, <2>2, <3>1 DEF Final
    <3>4. QED
      BY <1>2, <2>2, <2>3, <2>5, <3>1, <3>2, <3>3 DEF Numbered
  <2>6. CASE handler.at # "starting"
    <3>1. PICK a \in Nat, b \in Nat : /\ Runs(to_client, seen, a) /\ Runs(outgoing, a, b)
                                      /\ Runs(handler.replay, b, last)
      BY <1>2, <2>2, <2>6 DEF Flows
    <3>2. Runs(q, a, b)
      BY <2>2, <3>1, RunsAside DEF EventTypes
    <3>3. CASE kind = "nothing"
      <4>1. last' = last
        BY <2>2, <3>3 DEF last
      <4>2. QED
        BY <1>4, <2>2, <2>3, <2>4, <2>6, <3>1, <3>2, <3>3, <4>1 DEF Flows, Running
    <3>4. CASE kind # "nothing"
      <4>1. handler.at \in {"serving", "finishing"}
        BY <2>2, <3>4 DEF Running
      <4>2. Len(handler.replay) = 0
        BY <1>1, <4>1, EmptyQueue DEF Settled, Emptied
      <4>3. b = last /\ event.value = last
        BY <1>1, <2>2, <3>1, <3>4, <4>2, RunsNone DEF last
      <4>4. event.type \in EventTypes
        BY <2>1, <2>2, <3>4 DEF EventTypes
      <4>5. last' = last + 1
        BY <1>1, <2>2, <3>4 DEF Added, last
      <4>6. Runs(outgoing', a, last + 1)
        <5>1. Runs(outgoing', a, Following(event, b))
          BY <2>2, <3>1, <3>2, <3>4, <4>3, RunsMore
        <5>2. QED
          BY <4>3, <4>4, <5>1 DEF Following
      <4>7. Runs(handler'.replay, last + 1, last + 1)
        <5>1. last + 1 \in Nat
          BY <1>1
        <5>2. QED
          BY <2>3, <4>2, <5>1, RunsNone
      <4>8. Flows(to_client', outgoing', handler'.replay, seen', last')
        BY <1>1, <2>2, <2>4, <3>1, <4>5, <4>6, <4>7 DEF Flows
      <4>9. QED
        BY <1>4, <2>2, <2>3, <2>6, <4>8 DEF Running
    <3>5. QED
      BY <3>3, <3>4
  <2>7. QED
    BY <2>5, <2>6
<1>16. CASE WorkerEnds
  <2>1. PICK event \in Message : Ends(event)
    BY <1>1, <1>16, EndsEffect
  <2>2. /\ handler.at = "finishing" /\ handler.attached /\ UNCHANGED <<client, to_client>>
        /\ event.type \in EventTypes /\ event.value = Len(session.log)
        /\ Added(session.log, session'.log, event.type) /\ Added(outgoing, outgoing', event)
    BY <2>1 DEF Ends, EventTypes
  <2>3. handler'.at \in {"finishing", "ended"} /\ handler'.replay = handler.replay
    BY <1>1, <1>16 DEF WorkerEnds, HandlerType
  <2>4. seen' = seen
    BY <2>2 DEF seen
  <2>5. PICK a \in Nat, b \in Nat : /\ Runs(to_client, seen, a) /\ Runs(outgoing, a, b)
                                    /\ Runs(handler.replay, b, last)
    BY <1>2, <2>2 DEF Flows
  <2>6. Len(handler.replay) = 0
    BY <1>1, <2>2, EmptyQueue DEF Settled, Emptied
  <2>7. b = last /\ event.value = last
    BY <1>1, <2>2, <2>5, <2>6, RunsNone DEF last
  <2>8. last' = last + 1
    BY <1>1, <2>2 DEF Added, last
  <2>9. Runs(outgoing', a, last + 1)
    <3>1. Runs(outgoing', a, Following(event, b))
      BY <2>2, <2>5, <2>7, RunsMore
    <3>2. QED
      BY <2>2, <2>7, <3>1 DEF Following
  <2>10. Runs(handler'.replay, last + 1, last + 1)
    <3>1. last + 1 \in Nat
      BY <1>1
    <3>2. QED
      BY <2>3, <2>6, <3>1, RunsNone
  <2>11. Flows(to_client', outgoing', handler'.replay, seen', last')
    BY <1>1, <2>2, <2>4, <2>5, <2>8, <2>9, <2>10 DEF Flows
  <2>12. QED
    BY <1>4, <2>3, <2>11
<1>17. CASE Send
  <2> DEFINE m == outgoing[1]
  <2>1. /\ handler.at \in {"replaying", "serving", "finishing", "ended"} /\ handler.attached
        /\ Dropped(outgoing, outgoing') /\ Added(to_client, to_client', m)
        /\ UNCHANGED <<client, handler, session>>
    BY <1>1, <1>17, SendEffect
  <2>2. seen' = seen
    BY <2>1 DEF seen
  <2>3. PICK a \in Nat, b \in Nat : /\ Runs(to_client, seen, a) /\ Runs(outgoing, a, b)
                                    /\ Runs(handler.replay, b, last)
    BY <1>2, <2>1 DEF Flows
  <2> DEFINE next == Following(m, a)
  <2>4. /\ m.type \in EventTypes => m.value = a
        /\ Runs(outgoing', next, b)
    BY <2>1, <2>3, RunsLess
  <2>5. Runs(to_client', seen, next)
    BY <1>1, <2>1, <2>3, <2>4, RunsMore
  <2>6. next \in Nat
    BY <2>3 DEF Following
  <2>7. Flows(to_client', outgoing', handler'.replay, seen', last')
    BY <1>5, <2>1, <2>2, <2>3, <2>4, <2>5, <2>6 DEF Flows
  <2>8. QED
    BY <1>4, <2>1, <2>7
<1>18. CASE Detach
  <2>1. /\ UNCHANGED <<client, session, to_client, outgoing>> /\ handler'.at = "closing"
        /\ handler'.replay = handler.replay /\ handler'.attached = handler.attached
    BY <1>1, <1>18 DEF Detach, HandlerType
  <2>2. seen' = seen
    BY <2>1 DEF seen
  <2>3. handler.attached => handler.at = "ended" /\ outgoing = << >>
    BY <1>18 DEF Detach
  <2>4. Final => Len(outgoing) = 0
    <3>1. SUFFICES ASSUME Final, ~handler.attached PROVE FALSE
      BY <2>3, EmptyQueue
    <3>2. handler.at = "ended"
      BY <1>2, <1>18, <3>1 DEF Detach
    <3>3. client.stage = "ending"
      BY <1>1, <3>1 DEF Settled, Emptied, Quiet, Wired, ClientShape
    <3>4. QED
      BY <1>1, <3>1, <3>2, <3>3 DEF Attached, Reachable, Talking
  <2>5. Flowing' => Flowing
    BY <1>5, <2>1, <2>3
  <2>6. QED
    BY <1>2, <1>4, <1>5, <2>1, <2>2, <2>4, <2>5
<1>19. CASE Release
  <2>1. /\ UNCHANGED <<client, session, to_client>> /\ handler.at = "closing"
        /\ handler'.attached = FALSE /\ handler'.replay = << >> /\ outgoing' = << >>
    BY <1>19 DEF Release, clientSide, Idle
  <2>2. seen' = seen
    BY <2>1 DEF seen
  <2>3. ASSUME Final PROVE Flows(to_client', outgoing', handler'.replay, seen', last')
    <3>1. PICK a \in Nat, b \in Nat : /\ Runs(to_client, seen, a) /\ Runs(outgoing, a, b)
                                      /\ Runs(handler.replay, b, last)
      BY <1>2, <2>3 DEF Flows
    <3>2. Len(outgoing) = 0 /\ Len(handler.replay) = 0
      BY <1>1, <1>2, <2>1, <2>3, EmptyQueue DEF Settled, Emptied
    <3>3. a = b /\ b = last
      BY <1>1, <3>1, <3>2, RunsNone
    <3>4. Runs(outgoing', last, last) /\ Runs(handler'.replay, last, last)
      BY <1>1, <2>1, RunsNone, EmptyQueue
    <3>5. QED
      BY <1>1, <1>5, <2>1, <2>2, <3>1, <3>3, <3>4 DEF Flows
  <2>4. QED
    BY <1>4, <1>5, <2>1, <2>3, EmptyQueue
<1>20. QED
  BY <1>1, <1>6, <1>7, <1>8, <1>9, <1>10, <1>11, <1>12, <1>13, <1>14, <1>15, <1>16, <1>17,
     <1>18, <1>19 DEF Unexcused, Server

-----------------------------------------------------------------------------
(* A failed result has a cause.                                            *)

LEMMA GroundsInit == Init => Grounds
<1> SUFFICES ASSUME Init PROVE Grounds
  OBVIOUS
<1>1. Evidence /\ Settled
  BY EvidenceInit, SettledInit
<1>2. /\ client.stage = "starting" /\ client.receiver = "running" /\ client.leg = 1
      /\ client.last_ack = None /\ client.buffered = None
      /\ connected = TRUE /\ to_client = << >> /\ handler = Idle
      /\ session.chunks = 0 /\ session.log = << >>
  BY DEF Init
<1>3. Len(to_client) = 0 /\ ~Final /\ NoAck(to_client)
  BY <1>2, EmptyQueue, AckKept DEF Final
<1>4. Reachable
  BY <1>2, <1>3 DEF Reachable, Talking
<1>5. Acknowledged
  BY <1>2, <1>3, RisingNone DEF Acknowledged, None
<1>6. Resumable /\ Numbered
  BY <1>2, <1>3 DEF Resumable, Numbered, Idle
<1>7. QED
  BY <1>1, <1>4, <1>5, <1>6 DEF Grounds, Calm

LEMMA GroundsStep == Grounds /\ [Next]_vars => Grounds'
<1> SUFFICES ASSUME Grounds, [Next]_vars PROVE Grounds'
  OBVIOUS
<1>1. CASE Next
  <2>1. Evidence' /\ Settled'
    BY <1>1, EvidenceStep, SettledStep DEF Grounds
  <2>2. Calm'
    <3>1. ASSUME Quiet' PROVE Reachable' /\ Acknowledged' /\ Resumable' /\ Numbered'
      BY <1>1, <3>1, ReachableKept, AcknowledgedKept, ResumableKept, NumberedKept
    <3>2. QED
      BY <3>1 DEF Calm
  <2>3. QED
    BY <2>1, <2>2 DEF Grounds
<1>2. CASE UNCHANGED vars
  <2>1. Evidence'
    BY <1>2, EvidenceStep DEF Grounds
  <2>2. Settled'
    BY <1>2 DEF Grounds, Settled, Emptied, Legs, NothingStored, Offered, Silent, LastWord,
       NoAck, Final, vars
  <2>3. Calm'
    <3>1. Quiet' <=> Quiet
      BY <1>2 DEF Quiet, vars
    <3>2. Reachable' <=> Reachable
      BY <1>2 DEF Reachable, Final, vars
    <3>3. Acknowledged' <=> Acknowledged
      BY <1>2 DEF Acknowledged, Rising, IsAck, NoAck, vars
    <3>4. Resumable' <=> Resumable
      BY <1>2 DEF Resumable, vars
    <3>5. Numbered' <=> Numbered
      BY <1>2 DEF Numbered, Piped, Runs, Final, vars
    <3>6. QED
      BY <3>1, <3>2, <3>3, <3>4, <3>5 DEF Grounds, Calm
  <2>4. QED
    BY <2>1, <2>2, <2>3 DEF Grounds
<1>3. QED
  BY <1>1, <1>2

\* After the result the gate does nothing.
LEMMA GateOpen ==
  ASSUME Wired, Gate
  PROVE  client.outcome = "none"
<1>1. client.outcome # "none" => client.stage = "done"
  BY DEF Wired, ClientShape
<1>2. QED
  BY <1>1 DEF Gate, Consume, ConsumeRaises, ReceiveReady, StartRejected, CheckReceiver,
     SendBlock, SendEnd, ReceiverFailed, SessionResult, SendFrame, TooShort, Disconnect,
     AskResume, StillActive, ProbeResult

\* All of the audio is acknowledged where the terminal event has been read.
LEMMA AllAcknowledged ==
  ASSUME Evidence, Settled, Acknowledged, client.ended
  PROVE  /\ client.buffered = 0 /\ client.last_ack # None
         /\ client.last_ack + 1 = session.chunks /\ session.stored = total_samples
<1>1. Final /\ session.stored = total_samples
  BY EndSeen
<1>2. session.chunks # 0
  BY <1>1, Numbers DEF Settled, NothingStored
<1>3. NoAck(to_client) /\ handler.buffer = 0
  BY <1>1 DEF Settled, Silent, Emptied
<1>4. client.last_ack + 1 = session.chunks /\ client.buffered = 0
  BY <1>2, <1>3 DEF Acknowledged
<1>5. QED
  BY <1>1, <1>2, <1>4 DEF None

\* The answer to a request is the one that is expected.
LEMMA NeverRefused ==
  ASSUME Evidence, Settled, Reachable, Resumable, client.stage \in Arriving
  PROVE  ~Refused
<1>1. /\ Wired /\ client \in ClientType /\ to_client \in Seq(Message)
      /\ Len(to_client) \in Nat /\ Answered /\ ClientShape
  BY Counted, Types DEF Wired
<1>2. to_client = << >> => connected
  BY <1>1, EmptyQueue DEF Reachable, Arriving
<1>3. ASSUME to_client # << >>
      PROVE  LET m == Head(to_client) IN
             /\ m.type \in {"ready", "conflict"}
             /\ m.type = "ready" => ReadyFits(m)
  <2>1. Head(to_client) = to_client[1] /\ 1 \in 1..Len(to_client) /\ Len(to_client) > 0
    BY <1>1, <1>3, TailDrops DEF Dropped
  <2>2. to_client[1].type \in {"ready", "conflict"}
    <3>1. CASE connected
      BY <1>1, <2>1, <3>1 DEF Answered
    <3>2. CASE ~connected
      BY <3>2 DEF Reachable, Arriving
    <3>3. QED
      BY <3>1, <3>2
  <2>3. ASSUME to_client[1].type = "ready", client.leg # 1
        PROVE  to_client[1].value = client.first_ack + 1
    <3>1. client.leg = 2 /\ client.stage = "resuming"
      BY <1>1, <2>3 DEF ClientType, ClientShape, Arriving
    <3>2. to_client[1].value = session.chunks
      BY <2>1, <2>3, <3>1 DEF Settled, Offered
    <3>3. QED
      BY <3>1, <3>2 DEF Resumable
  <2>4. QED
    BY <2>1, <2>2, <2>3 DEF ReadyFits
<1>4. QED
  BY <1>2, <1>3 DEF Refused

LEMMA FailureHasCause ==
  ASSUME Grounds, FailsForCause, Next
  PROVE  FailsForCause'
<1> SUFFICES ASSUME client'.outcome = "failed", excuse' = "none"
             PROVE  FALSE
  BY DEF FailsForCause
<1>1. Wired /\ client \in ClientType /\ Evidence /\ Settled
  BY Counted DEF Grounds
<1>2. excuse = "none"
  BY <1>1, ExcuseKept DEF Wired
<1>3. CASE Server \/ ServerFails \/ ServerRestarts
  BY <1>1, <1>2, <1>3, ServerLeaves DEF FailsForCause
<1>4. CASE Gate
  <2>1. client.outcome = "none"
    BY <1>1, <1>4, GateOpen
  <2>2. Reachable /\ Acknowledged /\ Resumable /\ Numbered
    BY <1>2, <2>1 DEF Grounds, Calm, Quiet
  <2>3. client'.outcome # client.outcome
    BY <2>1
  <2>4. ~Excused("too short") /\ ~Excused("gave up") /\ ~Excused("below threshold")
    BY <1>2 DEF Excused
  <2>5. ~Consume /\ ~ReceiveReady
    BY <1>1, <2>3, ConsumeEffect, ReceiveReadyEffect DEF SameBut
  <2>6. ~ConsumeRaises
    BY <1>1, <2>1, <2>2, NeverRaises DEF ConsumeRaises
  <2>7. ~StartRejected
    BY <1>1, <2>2, NeverRefused DEF StartRejected, Arriving
  <2>8. ~CheckReceiver /\ ~AskResume
    BY <1>1, <2>3 DEF CheckReceiver, AskResume, ClientType
  <2>9. ~SendBlock /\ ~SendEnd /\ ~SendFrame
    <3>1. SendBlock \/ SendEnd \/ SendFrame => connected
      BY <1>1, <2>2 DEF SendBlock, SendEnd, SendFrame, Settled, Emptied, Reachable, Talking
    <3>2. connected => ~SendEnd
      BY <1>1, <2>3 DEF SendEnd, ClientType
    <3>3. connected => ~SendBlock
      <4>1. ASSUME SendBlock, connected PROVE FALSE
        <5>1. FrameSent("sending")
          BY <1>1, <4>1, SendBlockEffect
        <5>2. QED
          BY <1>1, <2>3, <5>1 DEF FrameSent, ClientType
      <4>2. QED
        BY <4>1
    <3>4. connected => ~SendFrame
      <4>1. ASSUME SendFrame, connected PROVE FALSE
        <5>1. FrameSent("waiting")
          BY <1>1, <4>1, SendFrameEffect
        <5>2. QED
          BY <1>1, <2>3, <5>1 DEF FrameSent, ClientType
      <4>2. QED
        BY <4>1
    <3>5. QED
      BY <3>1, <3>2, <3>3, <3>4
  <2>10. ~ReceiverFailed
    BY <2>2 DEF ReceiverFailed, Reachable
  <2>11. ~SessionResult
    <3>1. ASSUME SessionResult PROVE FALSE
      <4>1. PICK within \in BOOLEAN :
              /\ client' = [client EXCEPT
                   !.stage = "done",
                   !.outcome = IF within /\ client.last_ack # None /\ client.buffered = 0
                               THEN "passed" ELSE "failed"]
              /\ IF within THEN UNCHANGED excuse ELSE Excused("below threshold")
        BY <3>1 DEF SessionResult
      <4>2. within
        BY <2>4, <4>1
      <4>3. client.ended
        BY <1>1, <3>1 DEF SessionResult, Wired, ClientShape
      <4>4. client.last_ack # None /\ client.buffered = 0
        BY <1>1, <2>2, <4>3, AllAcknowledged
      <4>5. client'.outcome = "passed"
        BY <1>1, <4>1, <4>2, <4>4 DEF ClientType
      <4>6. QED
        BY <4>5
    <3>2. QED
      BY <3>1
  <2>12. ~TooShort
    BY <2>4 DEF TooShort
  <2>13. ~Disconnect
    <3>1. ASSUME Disconnect PROVE FALSE
      <4>1. Drained
        BY <3>1 DEF Disconnect, NeedsMore
      <4>2. client' = [client EXCEPT !.stage = "retrying", !.leg = 2,
                                     !.first_ack = client.last_ack]
        BY <3>1, <4>1 DEF Disconnect
      <4>3. QED
        BY <1>1, <2>3, <4>2 DEF ClientType
    <3>2. QED
      BY <3>1
  <2>14. ~StillActive
    <3>1. ASSUME StillActive PROVE FALSE
      <4>1. client' = [client EXCEPT !.stage = "retrying"]
        BY <2>4, <3>1 DEF StillActive
      <4>2. QED
        BY <1>1, <2>3, <4>1 DEF ClientType
    <3>2. QED
      BY <3>1
  <2>15. ~ProbeResult
    <3>1. ASSUME ProbeResult PROVE FALSE
      <4>1. client.ended /\ client.leg = 2
        BY <1>1, <3>1 DEF ProbeResult, Wired, ClientShape
      <4>2. /\ client.buffered = 0 /\ client.last_ack + 1 = session.chunks
            /\ session.stored = total_samples
        BY <1>1, <2>2, <4>1, AllAcknowledged
      <4>3. /\ client.first_ack \in Nat /\ client.last_ack \in Int /\ session.chunks \in Nat
            /\ total_samples \in Nat
        BY <1>1, <4>1, Counted, Numbers DEF Wired, ClientShape, ClientType, SessionType, None
      <4>4. client.first_ack + 1 <= session.chunks /\ client.first_ack + 1 # session.chunks
        BY <2>2, <4>1, <4>2, <4>3 DEF Resumable
      <4>5. client.last_ack > client.first_ack
        BY <4>2, <4>3, <4>4
      <4>6. client'.outcome = "passed"
        BY <1>1, <3>1, <4>2, <4>5 DEF ProbeResult, ClientType
      <4>7. QED
        BY <4>6
    <3>2. QED
      BY <3>1
  <2>16. QED
    BY <1>4, <2>5, <2>6, <2>7, <2>8, <2>9, <2>10, <2>11, <2>12, <2>13, <2>14, <2>15 DEF Gate
<1>5. QED
  BY <1>3, <1>4 DEF Next

\* The invariant that the causes of a failure are proved from.
THEOREM GroundsInvariant == Spec => [](Grounds /\ FailsForCause)
<1>1. Init => Grounds /\ FailsForCause
  <2>1. Init => FailsForCause
    BY DEF Init, FailsForCause
  <2>2. QED
    BY <2>1, GroundsInit
<1>2. (Grounds /\ FailsForCause) /\ [Next]_vars => (Grounds /\ FailsForCause)'
  <2>1. SUFFICES ASSUME Grounds, FailsForCause, [Next]_vars
                 PROVE  Grounds' /\ FailsForCause'
    OBVIOUS
  <2>2. Grounds'
    BY <2>1, GroundsStep
  <2>3. CASE Next
    BY <2>1, <2>2, <2>3, FailureHasCause
  <2>4. CASE UNCHANGED vars
    BY <2>1, <2>2, <2>4 DEF FailsForCause, vars
  <2>5. QED
    BY <2>1, <2>3, <2>4
<1>3. QED
  BY <1>1, <1>2, PTL DEF Spec

\* A session or a recovery probe fails only where the server failed or was
\* restarted, the probe gave up, its audio is too short, an event was dropped
\* or came before the replay, or a limit of the gate is exceeded.
THEOREM FailedForCause == Spec => []FailsForCause
<1>1. Spec => [](Grounds /\ FailsForCause)
  BY GroundsInvariant
<1>2. QED
  BY <1>1, PTL

-----------------------------------------------------------------------------
(***************************************************************************)
(* ProductionGate.                                                         *)
(***************************************************************************)

Kinds == BoundKinds \cup {"release", "quality", "websocket", "profile", "model",
                          "configuration"}

\* What may be in the file of a kind.
Proper(kind, content) ==
  /\ kind \in {"release", "quality", "websocket"} => content \in Maybe(Measurements)
  /\ kind \in {"activation", "rehearsal"} => content \in Maybe(Transitions)
  /\ kind = "state" => content \in Maybe(States)
  /\ kind \in {"manifest", "model", "configuration"} => content \in Maybe(Contents)
  /\ kind \in {"wheel", "lock", "sbom"} => content \in Contents

FilesTyped ==
  /\ files = [kind \in Kinds |-> files[kind]]
  /\ \A kind \in Kinds : Proper(kind, files[kind])

\* The host without its history.  Every reboot is a disturbance, so a boot has
\* a number.
HostTyped ==
  /\ now \in 0..MaxTime /\ offset \in Offsets
  /\ disturbances \in 0..MaxDisturbances /\ boot \in 0..disturbances
  /\ active \in Commits /\ pending \in Maybe(Markers)
  /\ parts \in [Parts -> Contents] /\ reloaded \in BOOLEAN
  /\ verdict \in {"none", "passed", "failed"}

\* The history is about the past, and so is the state file, in the host's time.
HistoryTyped ==
  /\ lastLive \in [Situations -> Maybe(0..MaxTime)]
  /\ \A s \in Situations : lastLive[s] # Absent => lastLive[s] <= now
StateIsPast == files.state # Absent => files.state.created_at <= now + offset

\* The profile was taken in a situation in which the candidate was live, and
\* not before the state it binds.
ProfileSituation ==
  <<files.profile.boot, files.profile.model, files.profile.package,
    files.profile.dependencies, files.profile.configuration>>
ProfileWasLive ==
  files.profile # Absent =>
    /\ ProfileSituation \in Situations
    /\ lastLive[ProfileSituation] # Absent
    /\ LET state == files.profile.artifacts["state"]
       IN  state # Absent => /\ state.created_at \in Int
                           /\ state.created_at <= lastLive[ProfileSituation] + offset

\* The verdict is about the evidence as it still is.
VerdictStands ==
  verdict = "passed" => NoFailures /\ \A kind \in Kinds : files[kind] # Absent

EvidenceHolds ==
  /\ HostTyped /\ FilesTyped /\ HistoryTyped
  /\ StateIsPast /\ ProfileWasLive /\ VerdictStands

-----------------------------------------------------------------------------
LEMMA KindsAreFields ==
  Kinds = {"activation", "rehearsal", "state", "manifest", "wheel", "lock", "sbom",
           "release", "quality", "websocket", "profile", "model", "configuration"}
  BY DEF Kinds, BoundKinds

LEMMA PlatformNumbers ==
  /\ Offsets \subseteq Int /\ MaxTime \in Nat /\ MaxDisturbances \in Nat
  /\ ReportValidity \in Nat /\ StateValidity \in Nat /\ MaxClockSkew \in Nat
  /\ Absent \notin Int /\ candidate # previous /\ Reviewed \in Contents
  /\ candidate \in Commits /\ previous \in Commits /\ Absent \notin Commits
  BY GateAssumption DEF Commits

LEMMA InitHolds == GateInit => EvidenceHolds
<1> SUFFICES ASSUME GateInit PROVE EvidenceHolds
  OBVIOUS
<1>1. HostTyped
  BY PlatformNumbers DEF GateInit, HostTyped, Maybe
<1>2. FilesTyped
  <2>1. files = NoEvidence
    BY DEF GateInit
  <2>2. NoEvidence = [kind \in Kinds |-> NoEvidence[kind]]
    BY KindsAreFields DEF NoEvidence
  <2>3. \A kind \in Kinds : Proper(kind, NoEvidence[kind])
    BY KindsAreFields, PlatformNumbers DEF NoEvidence, Proper, Maybe
  <2>4. QED
    BY <2>1, <2>2, <2>3 DEF FilesTyped
<1>3. HistoryTyped
  BY DEF GateInit, HistoryTyped, Maybe
<1>4. StateIsPast /\ ProfileWasLive /\ VerdictStands
  BY DEF GateInit, NoEvidence, StateIsPast, ProfileWasLive, VerdictStands
<1>5. QED
  BY <1>1, <1>2, <1>3, <1>4 DEF EvidenceHolds

\* What any step but the gate's own does to the history and the clock.
LEMMA HistoryGrows ==
  ASSUME HostTyped, HistoryTyped, HostTyped', now <= now', Observed
  PROVE  /\ HistoryTyped'
         /\ \A s \in Situations : lastLive[s] # Absent =>
              lastLive'[s] # Absent /\ lastLive[s] <= lastLive'[s]
         /\ offset' = offset /\ verdict' = "none"
         /\ CandidateLive(active', pending', reloaded') =>
              lastLive'[Situation(boot', parts')] = now'
<1> DEFINE here == Situation(boot', parts')
<1>1. /\ now \in Int /\ now' \in Int /\ now' \in 0..MaxTime /\ now <= now'
      /\ lastLive \in [Situations -> Maybe(0..MaxTime)]
      /\ now' # Absent
  BY PlatformNumbers DEF HostTyped, HistoryTyped
<1>2. here \in Situations
  <2>1. boot' \in Boots
    BY PlatformNumbers DEF HostTyped, Boots
  <2>2. \A p \in Parts : parts'[p] \in Contents
    BY DEF HostTyped
  <2>3. QED
    BY <2>1, <2>2 DEF Situations, Situation, Parts
<1> HIDE DEF here
<1>3. \A s \in Situations : lastLive[s] # Absent => lastLive[s] \in Int /\ lastLive[s] <= now
  BY <1>1 DEF HistoryTyped, Maybe
<1>4. lastLive' = lastLive \/ lastLive' = [lastLive EXCEPT ![here] = now']
  BY DEF Observed, here
<1>5. HistoryTyped'
  BY <1>1, <1>2, <1>3, <1>4 DEF HistoryTyped, Maybe
<1>6. \A s \in Situations : lastLive[s] # Absent =>
        lastLive'[s] # Absent /\ lastLive[s] <= lastLive'[s]
  BY <1>1, <1>2, <1>3, <1>4
<1>7. CandidateLive(active', pending', reloaded') => lastLive'[here] = now'
  BY <1>1, <1>2 DEF Observed, here
<1>8. QED
  BY <1>5, <1>6, <1>7 DEF Observed, here

\* A step that leaves the files alone.
LEMMA FilesKept ==
  ASSUME EvidenceHolds, HostTyped', now <= now', Observed, UNCHANGED files
  PROVE  EvidenceHolds'
<1>1. /\ HistoryTyped' /\ offset' = offset /\ verdict' = "none"
      /\ \A s \in Situations : lastLive[s] # Absent =>
           lastLive'[s] # Absent /\ lastLive[s] <= lastLive'[s]
  BY HistoryGrows DEF EvidenceHolds
<1>2. FilesTyped'
  BY DEF EvidenceHolds, FilesTyped
<1>3. /\ now \in Int /\ now' \in Int /\ offset \in Int
  BY PlatformNumbers DEF EvidenceHolds, HostTyped
<1>4. StateIsPast'
  <2>1. files.state # Absent => files.state.created_at \in Int
    BY KindsAreFields, PlatformNumbers
       DEF EvidenceHolds, FilesTyped, Proper, Maybe, States, Stamps
  <2>2. QED
    BY <1>1, <1>3, <2>1 DEF EvidenceHolds, StateIsPast
<1>5. ProfileWasLive'
  <2> SUFFICES ASSUME files.profile # Absent
               PROVE  ProfileWasLive'
    BY DEF ProfileWasLive
  <2> DEFINE s == ProfileSituation
             state == files.profile.artifacts["state"]
  <2>1. /\ s \in Situations /\ lastLive[s] # Absent /\ s' = s /\ state' = state
        /\ state # Absent => state.created_at \in Int /\ state.created_at <= lastLive[s] + offset
    BY DEF EvidenceHolds, ProfileWasLive, ProfileSituation
  <2>2. lastLive[s] \in Int /\ lastLive'[s] \in Int /\ lastLive'[s] # Absent /\ lastLive[s] <= lastLive'[s]
    BY <1>1, <2>1 DEF EvidenceHolds, HistoryTyped, Maybe
  <2>3. state # Absent => state.created_at <= lastLive'[s] + offset
    BY <1>3, <2>1, <2>2
  <2> HIDE DEF s, state
  <2>4. s' \in Situations /\ lastLive'[s'] # Absent
    BY <2>1, <2>2
  <2>5. state' # Absent => state'.created_at \in Int /\ state'.created_at <= lastLive'[s'] + offset'
    BY <1>1, <2>1, <2>3
  <2>6. QED
    BY <2>4, <2>5 DEF ProfileWasLive, s, state
<1>6. QED
  BY <1>1, <1>2, <1>4, <1>5 DEF EvidenceHolds, VerdictStands

\* A step that writes one file, and leaves the host alone.
LEMMA FileWritten ==
  ASSUME EvidenceHolds, NEW kind \in Kinds, NEW content, Proper(kind, content),
         files' = [files EXCEPT ![kind] = content], HostTyped', now <= now', Observed,
         kind = "state" => content = Absent \/ content.created_at <= now + offset,
         kind = "profile" => ProfileWasLive'
  PROVE  EvidenceHolds'
<1>1. /\ HistoryTyped' /\ offset' = offset /\ verdict' = "none"
      /\ \A s \in Situations : lastLive[s] # Absent =>
           lastLive'[s] # Absent /\ lastLive[s] <= lastLive'[s]
  BY HistoryGrows DEF EvidenceHolds
<1>2. /\ files = [k \in Kinds |-> files[k]]
      /\ files' = [k \in Kinds |-> IF k = kind THEN content ELSE files[k]]
      /\ files'[kind] = content /\ \A k \in Kinds \ {kind} : files'[k] = files[k]
  BY DEF EvidenceHolds, FilesTyped
<1>3. FilesTyped'
  BY <1>2 DEF EvidenceHolds, FilesTyped
<1>4. /\ now \in Int /\ now' \in Int /\ offset \in Int
  BY PlatformNumbers DEF EvidenceHolds, HostTyped
<1>5. StateIsPast'
  <2>1. files'["state"] # Absent => files'["state"].created_at \in Int
    BY <1>3, KindsAreFields, PlatformNumbers
       DEF FilesTyped, Proper, Maybe, States, Stamps
  <2>2. files'["state"] # Absent => files'["state"].created_at <= now + offset
    BY <1>2, KindsAreFields DEF EvidenceHolds, StateIsPast
  <2>3. QED
    BY <1>1, <1>4, <2>1, <2>2 DEF StateIsPast
<1>6. ProfileWasLive'
  <2>1. CASE kind = "profile"
    BY <2>1
  <2>2. CASE kind # "profile"
    <3> SUFFICES ASSUME files'["profile"] # Absent
                 PROVE  ProfileWasLive'
      BY DEF ProfileWasLive
    <3>1. files'["profile"] = files["profile"]
      BY <1>2, <2>2, KindsAreFields
    <3> DEFINE s == ProfileSituation
               state == files.profile.artifacts["state"]
    <3>2. /\ s \in Situations /\ lastLive[s] # Absent /\ s' = s /\ state' = state
          /\ state # Absent => state.created_at \in Int /\ state.created_at <= lastLive[s] + offset
      BY <3>1 DEF EvidenceHolds, ProfileWasLive, ProfileSituation
    <3>3. lastLive[s] \in Int /\ lastLive'[s] \in Int /\ lastLive'[s] # Absent /\ lastLive[s] <= lastLive'[s]
      BY <1>1, <3>2 DEF EvidenceHolds, HistoryTyped, Maybe
    <3>4. state # Absent => state.created_at <= lastLive'[s] + offset
      BY <1>4, <3>2, <3>3
    <3> HIDE DEF s, state
    <3>5. s' \in Situations /\ lastLive'[s'] # Absent
      BY <3>2, <3>3
    <3>6. state' # Absent => state'.created_at \in Int /\ state'.created_at <= lastLive'[s'] + offset'
      BY <1>1, <3>2, <3>4
    <3>7. QED
      BY <3>5, <3>6 DEF ProfileWasLive, s, state
  <2>3. QED
    BY <2>1, <2>2
<1>7. QED
  BY <1>1, <1>3, <1>5, <1>6 DEF EvidenceHolds, VerdictStands

-----------------------------------------------------------------------------
\* The report of a switch, as the host is when the command is done.
LEMMA TransitionProper ==
  ASSUME HostTyped, NEW from \in Commits, NEW to \in Commits
  PROVE  Transition(from, to) \in Transitions
<1>1. now + offset \in Stamps /\ boot \in Boots
  BY PlatformNumbers DEF HostTyped, Stamps, Boots
<1>2. parts["model"] \in Contents
  BY DEF HostTyped, Parts
<1>3. QED
  BY <1>1, <1>2 DEF Transition, Transitions, LinuxBootId

\* The host and its operators: the clock, the machine and the markers.
LEMMA HostSteps ==
  ASSUME EvidenceHolds, Tick \/ Reboot \/ DaemonReload \/ Finalize \/ Recover
         \/ \E part \in Parts : Replace(part)
  PROVE  EvidenceHolds'
<1>1. /\ now \in 0..MaxTime /\ offset \in Offsets /\ MaxTime \in Nat
      /\ MaxDisturbances \in Nat
      /\ disturbances \in 0..MaxDisturbances /\ boot \in 0..disturbances
      /\ active \in Commits /\ pending \in Maybe(Markers)
      /\ parts \in [Parts -> Contents] /\ reloaded \in BOOLEAN
  BY PlatformNumbers DEF EvidenceHolds, HostTyped
<1>2. pending # Absent => pending.safe \in Commits /\ pending.reported \in BOOLEAN
                        /\ [pending EXCEPT !.reported = FALSE] \in Markers
  BY <1>1 DEF Maybe, Markers
<1>3. Observed /\ UNCHANGED files /\ now <= now'
  BY <1>1 DEF Tick, Reboot, DaemonReload, Finalize, Recover, Replace
<1>4. HostTyped'
  <2>1. CASE Tick
    BY <1>1, <2>1 DEF Tick, Observed, Undisturbed, host, HostTyped
  <2>2. CASE Reboot
    BY <1>1, <1>2, <2>2 DEF Reboot, Observed, Disturbed, HostTyped, Maybe
  <2>3. CASE DaemonReload
    BY <1>1, <2>3 DEF DaemonReload, Observed, Undisturbed, HostTyped
  <2>4. CASE Finalize
    BY <1>1, <2>4 DEF Finalize, Observed, Undisturbed, HostTyped, Maybe
  <2>5. CASE Recover
    BY <1>1, <1>2, <2>5
       DEF Recover, Observed, Disturbed, Undisturbed, HostTyped, Maybe
  <2>6. ASSUME NEW part \in Parts, Replace(part) PROVE HostTyped'
    BY <1>1, <2>6 DEF Replace, Observed, Disturbed, HostTyped
  <2>7. QED
    BY <2>1, <2>2, <2>3, <2>4, <2>5, <2>6
<1>5. QED
  BY <1>3, <1>4, FilesKept

\* The switches, which leave a marker and, when reported, a file.
LEMMA SwitchSteps ==
  ASSUME EvidenceHolds, NEW commit \in Commits, NEW reported \in BOOLEAN,
         Activate(commit, reported) \/ Rehearse(commit, reported)
  PROVE  EvidenceHolds'
<1>1. /\ now \in 0..MaxTime /\ MaxDisturbances \in Nat /\ MaxTime \in Nat
      /\ disturbances \in 0..MaxDisturbances /\ boot \in 0..disturbances
      /\ active \in Commits /\ candidate \in Commits /\ previous \in Commits
  BY PlatformNumbers DEF EvidenceHolds, HostTyped
<1>2. /\ Observed /\ now' = now /\ boot' = boot /\ active' = commit
      /\ UNCHANGED <<parts, reloaded>>
  BY DEF Activate, Rehearse
<1>3. pending' \in Markers
  BY <1>1 DEF Activate, Rehearse, Markers
<1>4. disturbances' \in 0..MaxDisturbances /\ disturbances <= disturbances'
  BY <1>1 DEF Activate, Rehearse, Disturbed, Undisturbed
<1>5. HostTyped'
  BY <1>1, <1>2, <1>3, <1>4 DEF Observed, EvidenceHolds, HostTyped, Maybe
<1>6. CASE UNCHANGED files
  BY <1>1, <1>2, <1>5, <1>6, FilesKept
<1>7. ASSUME NEW kind \in {"activation", "rehearsal"}, NEW from \in Commits,
             NEW to \in Commits,
             files' = [files EXCEPT ![kind] = Transition(from, to)]
      PROVE  EvidenceHolds'
  <2>1. Proper(kind, Transition(from, to))
    BY TransitionProper DEF EvidenceHolds, Proper, Maybe
  <2>2. kind \in Kinds /\ kind # "state" /\ kind # "profile" /\ now <= now'
    BY <1>1, <1>2, KindsAreFields
  <2>3. QED
    BY <1>2, <1>5, <1>7, <2>1, <2>2, FileWritten
<1>8. \/ UNCHANGED files
      \/ files' = [files EXCEPT !["activation"] = Transition(active, commit)]
      \/ files' = [files EXCEPT !["rehearsal"] = Transition(previous, candidate)]
  BY DEF Activate, Rehearse
<1>9. QED
  BY <1>1, <1>6, <1>7, <1>8

\* The commands that leave evidence do not touch the host.
LEMMA HostUntouched ==
  ASSUME EvidenceHolds, UNCHANGED <<now, host>>, Observed, Undisturbed \/ Disturbed
  PROVE  HostTyped' /\ now <= now'
<1>1. /\ now \in 0..MaxTime /\ MaxTime \in Nat /\ MaxDisturbances \in Nat
      /\ disturbances \in 0..MaxDisturbances /\ boot \in 0..disturbances
  BY PlatformNumbers DEF EvidenceHolds, HostTyped
<1>2. QED
  BY <1>1 DEF host, Observed, Disturbed, Undisturbed, EvidenceHolds, HostTyped

LEMMA Measures ==
  ASSUME EvidenceHolds, NEW kind \in {"release", "quality", "websocket"},
         NEW model \in Contents, Measure(kind, model)
  PROVE  EvidenceHolds'
<1>1. PICK lacks \in Shortfalls[kind] :
        /\ Undisturbed \/ Disturbed
        /\ Write(kind, [created_at |-> now + offset, lacks |-> lacks, model |-> model])
  BY DEF Measure
<1> DEFINE report == [created_at |-> now + offset, lacks |-> lacks, model |-> model]
<1>2. report \in Measurements
  <2>1. now + offset \in Stamps
    BY DEF EvidenceHolds, HostTyped, Stamps
  <2>2. lacks \in UNION {Shortfalls[k] : k \in DOMAIN Shortfalls}
    BY DEF Shortfalls
  <2>3. QED
    BY <2>1, <2>2 DEF Measurements
<1> HIDE DEF report
<1>3. Proper(kind, report) /\ kind \in Kinds /\ kind # "state" /\ kind # "profile"
  BY <1>2, KindsAreFields DEF Proper, Maybe
<1>4. files' = [files EXCEPT ![kind] = report] /\ UNCHANGED <<now, host>> /\ Observed
  BY <1>1 DEF Write, report
<1>5. HostTyped' /\ now <= now'
  BY <1>1, <1>4, HostUntouched
<1>6. QED
  BY <1>3, <1>4, <1>5, FileWritten

LEMMA MeasureSteps ==
  ASSUME EvidenceHolds, RunReleaseGate \/ EvaluateQualityGate \/ RunWebsocketGate
  PROVE  EvidenceHolds'
<1>1. parts["model"] \in Contents
  BY DEF EvidenceHolds, HostTyped, Parts
<1>2. files.release # Absent => files.release.model \in Contents
  BY KindsAreFields DEF EvidenceHolds, FilesTyped, Proper, Maybe, Measurements
<1>3. QED
  BY <1>1, <1>2, Measures
     DEF RunReleaseGate, EvaluateQualityGate, RunWebsocketGate, ObservedModelFiles

\* Files of one content: an artifact of another build, and the manifest.
LEMMA ContentSteps ==
  ASSUME EvidenceHolds,
         \/ CreateModelManifest
         \/ \E kind \in Artifacts : Misplace(kind)
         \/ \E part \in {"model", "configuration"} : Retain(part)
  PROVE  EvidenceHolds'
<1>1. \A part \in {"model", "configuration"} : parts[part] \in Contents
  BY DEF EvidenceHolds, HostTyped, Parts
<1>2. PICK kind \in Artifacts \cup {"manifest"}, content \in Contents :
        /\ files' = [files EXCEPT ![kind] = content]
        /\ UNCHANGED <<now, host>> /\ Observed /\ (Undisturbed \/ Disturbed)
  <2>1. CASE CreateModelManifest
    BY <1>1, <2>1 DEF CreateModelManifest, Write, EnumerateModelFiles
  <2>2. CASE \E kind \in Artifacts : Misplace(kind)
    BY <2>2 DEF Misplace
  <2>3. CASE \E part \in {"model", "configuration"} : Retain(part)
    BY <1>1, <2>3 DEF Retain, Write, Artifacts
  <2>4. QED
    BY <2>1, <2>2, <2>3
<1>3. Proper(kind, content) /\ kind \in Kinds /\ kind # "state" /\ kind # "profile"
  BY KindsAreFields DEF Proper, Maybe, Artifacts
<1>4. HostTyped' /\ now <= now'
  BY <1>2, HostUntouched
<1>5. QED
  BY <1>2, <1>3, <1>4, FileWritten

\* The state is stamped with the host's time as it is.
LEMMA StateStep ==
  ASSUME EvidenceHolds, CreateDeploymentState
  PROVE  EvidenceHolds'
<1> DEFINE state == [created_at |-> now + offset, boot |-> LinuxBootId,
                     active_commit |-> ActiveReleaseCommit, pending |-> pending # Absent,
                     configuration |-> parts["configuration"]]
<1>1. /\ now + offset \in Int /\ now + offset \in Stamps /\ boot \in Boots
      /\ parts["configuration"] \in Contents /\ active \in Commits
  BY PlatformNumbers DEF EvidenceHolds, HostTyped, Stamps, Boots, Parts
<1>2. state \in States /\ state.created_at = now + offset
  BY <1>1 DEF States, LinuxBootId, ActiveReleaseCommit
<1>3. /\ files' = [files EXCEPT !["state"] = state]
      /\ UNCHANGED <<now, host>> /\ Observed /\ Undisturbed
  BY DEF CreateDeploymentState, Write
<1> HIDE DEF state
<1>4. Proper("state", state) /\ "state" \in Kinds /\ state.created_at <= now + offset
  BY <1>1, <1>2, KindsAreFields DEF Proper, Maybe
<1>5. HostTyped' /\ now <= now'
  BY <1>3, HostUntouched
<1>6. QED
  BY <1>3, <1>4, <1>5, FileWritten

\* The profile is taken of a live candidate, and binds a state of the past.
LEMMA ProfileStep ==
  ASSUME EvidenceHolds, CreateHostProfile
  PROVE  EvidenceHolds'
<1>1. /\ pending = Absent /\ active = candidate /\ reloaded
      /\ files' = [files EXCEPT !["profile"] = HostProfile]
      /\ UNCHANGED <<now, host>> /\ Observed /\ Undisturbed
  BY DEF CreateHostProfile, NoPendingTransaction, InstalledRuntimeIsActive,
     ActiveReleaseCommit, CaptureEffectiveConfiguration, Write
<1>2. HostTyped' /\ now <= now'
  BY <1>1, HostUntouched
<1>3. CandidateLive(active', pending', reloaded')
  BY <1>1 DEF host, CandidateLive
<1>4. lastLive'[Situation(boot', parts')] = now' /\ offset' = offset
  BY <1>1, <1>2, <1>3, HistoryGrows DEF EvidenceHolds
<1>5. ProfileWasLive'
  <2>1. files'["profile"] = HostProfile
    BY <1>1, KindsAreFields DEF EvidenceHolds, FilesTyped
  <2>2. /\ HostProfile.boot = boot
        /\ HostProfile.model = parts["model"]
        /\ HostProfile.package = parts["package"]
        /\ HostProfile.dependencies = parts["dependencies"]
        /\ HostProfile.configuration = parts["configuration"]
        /\ HostProfile.artifacts = Digests(files)
    BY DEF HostProfile, LinuxBootId, EnumerateModelFiles, InstalledDistribution
  <2>3. Digests(files)["state"] = files.state
    BY DEF Digests, BoundKinds
  <2>4. /\ boot \in Boots /\ \A p \in Parts : parts[p] \in Contents
        /\ now \in Int /\ now # Absent /\ now' = now /\ boot' = boot
        /\ parts' = parts
    BY <1>1, PlatformNumbers DEF EvidenceHolds, HostTyped, Boots, Parts, host
  <2>5. files.state # Absent => files.state.created_at \in Int /\ files.state.created_at <= now + offset
    BY KindsAreFields, PlatformNumbers
       DEF EvidenceHolds, FilesTyped, Proper, Maybe, States, Stamps, StateIsPast
  <2>6. ProfileSituation' = Situation(boot, parts)
    BY <2>1, <2>2 DEF ProfileSituation, Situation
  <2>7. ProfileSituation' \in Situations /\ lastLive'[ProfileSituation'] = now
    <3>1. Situation(boot, parts) \in Situations
      BY <2>4 DEF Situations, Situation, Parts
    <3>2. Situation(boot', parts') = Situation(boot, parts)
      BY <2>4
    <3>3. QED
      BY <1>4, <2>4, <2>6, <3>1, <3>2
  <2>8. files'["profile"].artifacts["state"] = files.state
    BY <2>1, <2>2, <2>3
  <2>9. QED
    BY <1>4, <2>4, <2>5, <2>7, <2>8 DEF ProfileWasLive
<1>6. Proper("profile", HostProfile) /\ "profile" \in Kinds
  BY KindsAreFields DEF Proper
<1>7. QED
  BY <1>1, <1>2, <1>5, <1>6, FileWritten

\* The gate looks and says.
LEMMA VerdictStep ==
  ASSUME EvidenceHolds, RunProductionGate
  PROVE  EvidenceHolds'
<1>1. /\ UNCHANGED <<now, offset, boot, active, pending, parts, reloaded, files,
                     disturbances, lastLive>>
      /\ verdict' = IF NoFailures THEN "passed" ELSE "failed"
      /\ \A kind \in DOMAIN files : files[kind] # Absent
  BY DEF RunProductionGate, host
<1>2. DOMAIN files = Kinds
  BY DEF EvidenceHolds, FilesTyped
<1>3. NoFailures' <=> NoFailures
  BY <1>1
     DEF NoFailures, ValidateRelease, ValidateQuality, ValidateWebsocket,
         ValidateReport, Fresh, ValidateSessions, ValidateWheel, SbomMatchesLock,
         ValidateSbom, ValidateDependencyLock, ValidateModelManifest,
         ValidateHostProfile, ProfileRuntime,
         ProfileArtifacts, Digests, ValidateEffectiveConfiguration,
         ProfileDependencies, ValidateDeploymentState,
         ValidateDeploymentActivation, ValidateRollbackRehearsal, ValidatePhase,
         SameRevisionAs, SameBoot, ValidateConfiguration, SameModel
<1>4. VerdictStands'
  BY <1>1, <1>2, <1>3 DEF VerdictStands
<1>5. /\ HostTyped' /\ FilesTyped' /\ HistoryTyped' /\ StateIsPast'
      /\ ProfileWasLive'
  BY <1>1
     DEF EvidenceHolds, HostTyped, FilesTyped, HistoryTyped, StateIsPast,
         ProfileWasLive, ProfileSituation
<1>6. QED
  BY <1>4, <1>5 DEF EvidenceHolds

LEMMA NextHolds == EvidenceHolds /\ [GateNext]_gateVars => EvidenceHolds'
<1> SUFFICES ASSUME EvidenceHolds, [GateNext]_gateVars PROVE EvidenceHolds'
  OBVIOUS
<1>1. CASE UNCHANGED gateVars
  <2>1. NoFailures' <=> NoFailures
    BY <1>1
       DEF gateVars, NoFailures, ValidateRelease, ValidateQuality,
           ValidateWebsocket, ValidateReport, Fresh, ValidateSessions,
           ValidateWheel, SbomMatchesLock, ValidateSbom, ValidateDependencyLock,
           ValidateModelManifest, ValidateHostProfile,
           ProfileRuntime, ProfileArtifacts, Digests,
           ValidateEffectiveConfiguration, ProfileDependencies,
           ValidateDeploymentState, ValidateDeploymentActivation,
           ValidateRollbackRehearsal, ValidatePhase, SameRevisionAs, SameBoot,
           ValidateConfiguration, SameModel
  <2>2. QED
    BY <1>1, <2>1
       DEF gateVars, EvidenceHolds, HostTyped, FilesTyped, HistoryTyped,
           StateIsPast, ProfileWasLive, ProfileSituation, VerdictStands
<1>2. CASE GateNext
  BY <1>2, HostSteps, SwitchSteps, MeasureSteps, ContentSteps, StateStep,
     ProfileStep, VerdictStep
     DEF GateNext
<1>3. QED
  BY <1>1, <1>2

-----------------------------------------------------------------------------
\* Every command writes evidence of its own shape, and the host keeps its.
THEOREM GateTypeCorrect == GateSpec => []GateTypeOK
<1>1. EvidenceHolds => GateTypeOK
  <2> SUFFICES ASSUME EvidenceHolds PROVE GateTypeOK
    OBVIOUS
  <2>1. boot \in Boots
    BY PlatformNumbers DEF EvidenceHolds, HostTyped, Boots
  <2>2. /\ \A kind \in {"release", "quality", "websocket"} : files[kind] \in Maybe(Measurements)
        /\ \A kind \in {"activation", "rehearsal"} : files[kind] \in Maybe(Transitions)
        /\ files.state \in Maybe(States)
        /\ {files.manifest, files.model, files.configuration} \subseteq Maybe(Contents)
        /\ {files.wheel, files.lock, files.sbom} \subseteq Contents
    BY KindsAreFields DEF EvidenceHolds, FilesTyped, Proper
  <2>3. QED
    BY <2>1, <2>2 DEF EvidenceHolds, HostTyped, HistoryTyped, GateTypeOK
<1>2. QED
  BY <1>1, InitHolds, NextHolds, PTL DEF GateSpec

\* The inductive invariant of the evidence.
THEOREM GateInvariant == GateSpec => []EvidenceHolds
  BY InitHolds, NextHolds, PTL DEF GateSpec

\* run_production_gate passes only if, within the validity of the state, the
\* candidate was live on the boot of its activation with all the parts that the
\* evidence names: host-profile looks at a live release as a whole, under the
\* deployment lock, and binds the state file, whose stamp is checked; and the gate
\* compares what it saw with the retained files.  production_gate.py:3369.
THEOREM PassedWasLive == GateSpec => []CandidateWasLive
<1>1. EvidenceHolds => CandidateWasLive
  <2> SUFFICES ASSUME EvidenceHolds, verdict = "passed"
               PROVE  LET seen == lastLive[<<files.activation.boot, files.websocket.model,
                                             files.wheel, files.sbom,
                                             files.configuration>>]
                      IN  seen # Absent /\ now - seen <= StateValidity + offset
    BY DEF CandidateWasLive
  <2>1. NoFailures /\ files["profile"] # Absent /\ files["state"] # Absent
    BY KindsAreFields DEF EvidenceHolds, VerdictStands
  <2>2. /\ files.profile.boot = files.activation.boot
        /\ files.profile.package = files.wheel
        /\ files.profile.configuration = files.configuration
        /\ files.profile.artifacts = Digests(files)
        /\ now - files.state.created_at <= StateValidity
    BY <2>1 DEF NoFailures, SameBoot, ValidateHostProfile, ProfileArtifacts,
       ProfileRuntime, ValidateEffectiveConfiguration, ValidateDeploymentState, Fresh
  <2>3. files.profile.model = files.websocket.model
    BY <2>1 DEF NoFailures, ValidateHostProfile, ProfileArtifacts,
       ValidateModelManifest, SameModel
  <2>4. files.profile.dependencies = files.sbom
    BY <2>1 DEF NoFailures, SbomMatchesLock, ValidateSbom, ValidateDependencyLock,
       ProfileDependencies
  <2>5. Digests(files)["state"] = files.state
    BY DEF Digests, BoundKinds
  <2> DEFINE seen == lastLive[<<files.activation.boot, files.websocket.model,
                                files.wheel, files.sbom, files.configuration>>]
  <2>6. seen = lastLive[ProfileSituation]
    BY <2>2, <2>3, <2>4 DEF ProfileSituation
  <2> HIDE DEF seen
  <2>7. seen # Absent /\ files.state.created_at \in Int /\ files.state.created_at <= seen + offset
    BY <2>1, <2>2, <2>5, <2>6 DEF EvidenceHolds, ProfileWasLive
  <2>8. seen \in Maybe(0..MaxTime)
    BY <2>1, <2>6 DEF EvidenceHolds, ProfileWasLive, HistoryTyped
  <2>9. seen \in Int /\ now \in Int /\ offset \in Int /\ StateValidity \in Int
    BY <2>7, <2>8, PlatformNumbers DEF Maybe, EvidenceHolds, HostTyped
  <2>10. now - seen <= StateValidity + offset
    BY <2>2, <2>7, <2>9
  <2>11. QED
    BY <2>7, <2>10 DEF seen
<1>2. QED
  BY <1>1, GateInvariant, PTL

=============================================================================
