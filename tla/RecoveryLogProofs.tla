------------------------- MODULE RecoveryLogProofs -------------------------
(***************************************************************************)
(* What the session logs and what its client receives, for every length of *)
(* the session and every limit of the log.                                 *)
(***************************************************************************)
EXTENDS RecoveryLog, SequenceTheorems, WellFoundedInduction, TLAPS

\* The counters are numbers.
LEMMA Numbers ==
  ASSUME TypeOK
  PROVE  /\ MaxAudio \in Nat /\ MaxEvents \in Nat
         /\ next_event_sequence \in Nat /\ next_segment_index \in Nat
         /\ next_event_sequence <= MaxEvents
         /\ transcribed_through \in Nat /\ audio \in Nat /\ audio <= MaxAudio
         /\ position \in Nat /\ input_end \in Nat /\ window_start \in Nat
         /\ index \in Nat /\ revision \in Nat /\ last_end \in Nat
         /\ produced \in Logged!Validator
         /\ hand \subseteq Yield /\ commits \subseteq Yield
<1>1. MaxAudio \in Nat /\ MaxEvents \in Nat
  BY LogAssumption
<1>2. Times = 0..MaxAudio
  BY DEF Times
<1>3. /\ next_event_sequence \in 0..MaxEvents /\ next_segment_index \in Nat
      /\ transcribed_through \in Times /\ audio \in Times
      /\ position \in Times /\ input_end \in Times /\ window_start \in Times
      /\ index \in Nat /\ revision \in Nat /\ last_end \in Times
      /\ produced \in Logged!Validator
      /\ hand \subseteq Yield /\ commits \subseteq Yield
  BY DEF TypeOK
<1>4. QED
  BY <1>1, <1>2, <1>3

LEMMA YieldFields ==
  ASSUME NEW e \in Yield
  PROVE  /\ e.kind \in {"partial", "commit", "replace", "end"}
         /\ e.kind # "end" =>
              /\ e.segment_id \in Indexes /\ e.segment_id \in Nat
              /\ e.revision \in Nat /\ e.end \in Nat /\ e.start \in Nat
         /\ e.kind = "end" => e.start \in Nat
BY LogAssumption DEF Yield, Times, Indexes

\* The event append_event makes of what the worker yielded.
Payload(e) ==
  LET sent == [sequence |-> next_event_sequence,
               acknowledged_sequence |-> audio - 1]
  IN [f \in DOMAIN e \cup DOMAIN sent |->
        IF f \in DOMAIN e THEN e[f] ELSE sent[f]]

\* A payload is an event: what the worker yielded, numbered, with what the
\* session has accepted.
LEMMA PayloadIsEvent ==
  ASSUME TypeOK, NEW e \in Yield
  PROVE  /\ Payload(e) \in Event
         /\ Payload(e).kind = e.kind /\ Payload(e).start = e.start
         /\ Payload(e).sequence = next_event_sequence
         /\ Payload(e).acknowledged_sequence = audio - 1
         /\ e.kind # "end" => /\ Payload(e).segment_id = e.segment_id
                              /\ Payload(e).revision = e.revision
                              /\ Payload(e).end = e.end
<1> DEFINE sent == [sequence |-> next_event_sequence,
                    acknowledged_sequence |-> audio - 1]
           P == Payload(e)
<1>0. /\ next_event_sequence \in Nat /\ audio \in Nat
      /\ audio - 1 \in Nat \cup {Logged!None}
  BY Numbers DEF Logged!None
<1>1. CASE e.kind = "end"
  <2>1. e \in [kind : {"end"}, start : Times]
    BY <1>1 DEF Yield
  <2>2. P = [sequence |-> next_event_sequence, kind |-> "end",
             start |-> e.start, acknowledged_sequence |-> audio - 1]
    BY <2>1 DEF Payload
  <2>3. P \in Logged!EndEvent
    BY <1>0, <2>1, <2>2 DEF Logged!EndEvent
  <2>4. QED
    BY <1>1, <2>2, <2>3 DEF Event
<1>2. CASE e.kind # "end"
  <2>1. e \in [segment_id : Indexes, kind : {"partial", "commit", "replace"},
               revision : Nat, start : Times, end : Times]
    BY <1>2 DEF Yield
  <2>2. P = [sequence |-> next_event_sequence, segment_id |-> e.segment_id,
             kind |-> e.kind, revision |-> e.revision, start |-> e.start,
             end |-> e.end, acknowledged_sequence |-> audio - 1]
    BY <2>1 DEF Payload
  <2>3. P \in Logged!Event
    BY <1>0, <2>1, <2>2 DEF Logged!Event, Logged!SegmentKinds
  <2>4. QED
    BY <2>1, <2>2, <2>3 DEF Event
<1>3. QED
  BY <1>1, <1>2

\* What the validator knows after an event.
LEMMA AfterEvent ==
  ASSUME NEW v \in Logged!Validator, NEW e \in Event
  PROVE  LET w == Logged!After(v, e)
         IN /\ w \in Logged!Validator
            /\ w.last_sequence = e.sequence
            /\ w.last_acknowledged_sequence =
                 IF e.acknowledged_sequence = Logged!None
                 THEN v.last_acknowledged_sequence
                 ELSE e.acknowledged_sequence
            /\ w.ended = (v.ended \/ e.kind = "end")
            /\ e.kind = "end" => /\ w.states = v.states
                                 /\ w.revisions = v.revisions
                                 /\ w.max_end = v.max_end
                                 /\ w.last_commit_start = v.last_commit_start
            /\ e.kind # "end" =>
                 /\ w.states = [v.states EXCEPT ![e.segment_id] = e.kind]
                 /\ w.revisions = [v.revisions EXCEPT ![e.segment_id] = e.revision]
                 /\ w.max_end = Logged!Later(v.max_end, e.end)
                 /\ w.last_commit_start =
                      IF e.kind = "commit" THEN e.start ELSE v.last_commit_start
<1> DEFINE o == Logged!AfterOrder(v, e)
           w == Logged!After(v, e)
<1>1. o = [v EXCEPT
     !.last_sequence = e.sequence,
     !.last_acknowledged_sequence =
        IF e.acknowledged_sequence = Logged!None
        THEN v.last_acknowledged_sequence ELSE e.acknowledged_sequence]
  BY DEF Logged!AfterOrder
<1>2. e.sequence \in Nat /\ e.acknowledged_sequence \in Nat \cup {Logged!None}
  BY DEF Event, Logged!Event, Logged!EndEvent
<1>3. o \in Logged!Validator
  BY <1>1, <1>2 DEF Logged!Validator
<1>4. /\ o.states = v.states /\ o.revisions = v.revisions
      /\ o.ended = v.ended /\ v.ended \in BOOLEAN
      /\ o.max_end = v.max_end /\ o.last_commit_start = v.last_commit_start
      /\ o.last_sequence = e.sequence
      /\ o.last_acknowledged_sequence =
           IF e.acknowledged_sequence = Logged!None
           THEN v.last_acknowledged_sequence ELSE e.acknowledged_sequence
  BY <1>1 DEF Logged!Validator
<1>5. CASE e.kind = "end"
  <2>1. w = [o EXCEPT !.ended = TRUE]
    BY <1>5 DEF Logged!After
  <2>2. w \in Logged!Validator
    BY <2>1, <1>3 DEF Logged!Validator
  <2>3. /\ w.states = o.states /\ w.revisions = o.revisions /\ w.ended = TRUE
        /\ w.max_end = o.max_end /\ w.last_commit_start = o.last_commit_start
        /\ w.last_sequence = o.last_sequence
        /\ w.last_acknowledged_sequence = o.last_acknowledged_sequence
    BY <1>3, <2>1 DEF Logged!Validator
  <2>4. QED
    BY <1>5, <1>4, <2>2, <2>3
<1>6. CASE e.kind # "end"
  <2>1. e \in Logged!Event
    BY <1>6 DEF Event, Logged!EndEvent
  <2>2. /\ e.segment_id \in Indexes /\ e.kind \in Logged!SegmentKinds
        /\ e.revision \in Nat /\ e.start \in Nat /\ e.end \in Nat
    BY <2>1, LogAssumption DEF Logged!Event, Times
  <2>3. w = [o EXCEPT
               !.revisions = [o.revisions EXCEPT ![e.segment_id] = e.revision],
               !.states = [o.states EXCEPT ![e.segment_id] = e.kind],
               !.max_end = Logged!Later(o.max_end, e.end),
               !.last_commit_start = IF e.kind = "commit" THEN e.start
                                     ELSE o.last_commit_start]
    BY <1>6, <2>2 DEF Logged!After, Logged!AfterSegment, Logged!AfterMerge,
       Logged!SegmentKinds
  <2> DEFINE revisions == [o.revisions EXCEPT ![e.segment_id] = e.revision]
             states == [o.states EXCEPT ![e.segment_id] = e.kind]
             max_end == Logged!Later(o.max_end, e.end)
             start == IF e.kind = "commit" THEN e.start ELSE o.last_commit_start
  <2>a. /\ revisions \in [Indexes -> Nat]
        /\ states \in [Indexes -> {"new"} \cup Logged!SegmentKinds]
        /\ max_end \in Nat /\ start \in Nat
    BY <2>2, <1>3 DEF Logged!Validator, Logged!Later
  <2>4. w \in Logged!Validator
    <3>1. w = [o EXCEPT !.revisions = revisions, !.states = states,
                        !.max_end = max_end, !.last_commit_start = start]
      BY <2>3
    <3> HIDE DEF w, revisions, states, max_end, start, o
    <3>2. QED
      BY <2>a, <3>1, <1>3 DEF Logged!Validator
  <2>5. /\ w.states = states /\ w.revisions = revisions /\ w.ended = o.ended
        /\ w.max_end = max_end /\ w.last_commit_start = start
        /\ w.last_sequence = o.last_sequence
        /\ w.last_acknowledged_sequence = o.last_acknowledged_sequence
    BY <1>3, <2>3 DEF Logged!Validator
  <2>6. QED
    BY <1>6, <1>4, <2>4, <2>5
<1>7. QED
  BY <1>5, <1>6

\* Retaining an event puts it at the end and drops a beginning of the log.
LEMMA RetainsLatest ==
  ASSUME TypeOK, NEW e \in Event, NEW newLog, Retains(e, newLog)
  PROVE  /\ newLog \in [DOMAIN newLog -> Event]
         /\ DOMAIN newLog \subseteq 0..next_event_sequence
         /\ next_event_sequence \in DOMAIN newLog
         /\ newLog[next_event_sequence] = e
         /\ \A q \in DOMAIN newLog : q # next_event_sequence =>
              q \in DOMAIN log /\ newLog[q] = log[q]
         /\ \A q \in DOMAIN newLog : \A r \in DOMAIN log :
              q <= r => r \in DOMAIN newLog
<1> DEFINE next == next_event_sequence
           all == [r \in DOMAIN log \cup {next} |-> IF r = next THEN e ELSE log[r]]
<1>1. PICK first \in Later(0, next + 1 - max_events_per_session)..next :
        newLog = [r \in {x \in DOMAIN all : x >= first} |-> all[r]]
  BY DEF Retains
<1>2. next \in Nat /\ first \in Nat /\ first <= next
  BY LogAssumption, <1>1 DEF TypeOK, Later
<1>3. /\ DOMAIN log \subseteq 0..(next - 1) /\ log \in [DOMAIN log -> Event]
  BY DEF TypeOK
<1>4. DOMAIN newLog = {x \in DOMAIN log \cup {next} : x >= first}
  BY <1>1
<1>5. \A q \in DOMAIN newLog : newLog[q] = IF q = next THEN e ELSE log[q]
  BY <1>1
<1>6. \A q \in DOMAIN newLog : newLog[q] \in Event
  BY <1>3, <1>4, <1>5
<1>7. newLog \in [DOMAIN newLog -> Event]
  BY <1>1, <1>6
<1>8. QED
  BY <1>2, <1>3, <1>4, <1>5, <1>7

LEMMA EventFields ==
  ASSUME NEW e \in Event
  PROVE  /\ e.sequence \in Nat /\ e.start \in Nat
         /\ e.kind \in {"partial", "commit", "replace", "end"}
         /\ e.acknowledged_sequence \in Nat \cup {-1}
         /\ e.kind # "end" =>
              e.segment_id \in Indexes /\ e.revision \in Nat /\ e.end \in Nat
<1>1. Times \subseteq Nat
  BY LogAssumption DEF Times
<1>2. QED
  BY <1>1 DEF Event, Logged!Event, Logged!EndEvent, Logged!SegmentKinds, Logged!None

LEMMA ValidatorFields ==
  ASSUME NEW v \in Logged!Validator
  PROVE  /\ v.states \in [Indexes -> {"new", "partial", "commit", "replace"}]
         /\ v.revisions \in [Indexes -> Nat]
         /\ v.ended \in BOOLEAN /\ v.max_end \in Nat /\ v.last_commit_start \in Nat
         /\ v.last_sequence \in Nat \cup {-1}
         /\ v.last_acknowledged_sequence \in Nat \cup {-1}
BY DEF Logged!Validator, Logged!SegmentKinds, Logged!None

\* What retaining an event does to the session and to the validator of its log.
LEMMA RetainEffects ==
  ASSUME TypeOK, NEW e \in Event, Retain(e)
  PROVE  /\ next_event_sequence' = next_event_sequence + 1
         /\ LastLogged' = e
         /\ next_segment_index' = IF e.kind = "end" THEN next_segment_index
                                  ELSE Later(next_segment_index, e.segment_id + 1)
         /\ transcribed_through' =
              IF e.kind \in {"commit", "replace"}
              THEN Later(transcribed_through, e.end) ELSE transcribed_through
         /\ produced' \in Logged!Validator
         /\ produced'.last_sequence = e.sequence
         /\ produced'.last_acknowledged_sequence =
              IF e.acknowledged_sequence = -1
              THEN produced.last_acknowledged_sequence
              ELSE e.acknowledged_sequence
         /\ produced'.ended = (produced.ended \/ e.kind = "end")
         /\ e.kind = "end" =>
              /\ produced'.states = produced.states
              /\ produced'.revisions = produced.revisions
              /\ produced'.max_end = produced.max_end
              /\ produced'.last_commit_start = produced.last_commit_start
         /\ e.kind # "end" =>
              /\ produced'.states = [produced.states EXCEPT ![e.segment_id] = e.kind]
              /\ produced'.revisions =
                   [produced.revisions EXCEPT ![e.segment_id] = e.revision]
              /\ produced'.max_end = Logged!Later(produced.max_end, e.end)
              /\ produced'.last_commit_start =
                   IF e.kind = "commit" THEN e.start ELSE produced.last_commit_start
<1>1. /\ next_event_sequence' = next_event_sequence + 1
      /\ next_event_sequence \in Nat /\ produced \in Logged!Validator
      /\ produced' = Logged!After(produced, e)
  BY LogAssumption DEF Retain, TypeOK
<1>2. log'[next_event_sequence] = e
  BY RetainsLatest DEF Retain
<1>3. LastLogged' = e
  BY <1>1, <1>2 DEF LastLogged
<1>4. QED
  BY <1>1, <1>3, AfterEvent DEF Retain, Logged!None

\* The log after an event, position by position.
LEMMA RetainLog ==
  ASSUME TypeOK, NEW e \in Event, Retain(e)
  PROVE  /\ next_event_sequence \in DOMAIN log'
         /\ log'[next_event_sequence] = e
         /\ DOMAIN log' \subseteq 0..next_event_sequence
         /\ \A q \in DOMAIN log' : q # next_event_sequence =>
              /\ q \in DOMAIN log /\ log'[q] = log[q]
              /\ q \in Nat /\ q < next_event_sequence
         /\ \A q \in DOMAIN log' : \A r \in DOMAIN log :
              q <= r => r \in DOMAIN log' /\ log'[r] = log[r]
<1>1. DOMAIN log \subseteq 0..(next_event_sequence - 1) /\ next_event_sequence \in Nat
  BY Numbers DEF TypeOK
<1>2. /\ DOMAIN log' \subseteq 0..next_event_sequence
      /\ next_event_sequence \in DOMAIN log'
      /\ log'[next_event_sequence] = e
      /\ \A q \in DOMAIN log' : q # next_event_sequence =>
           q \in DOMAIN log /\ log'[q] = log[q]
      /\ \A q \in DOMAIN log' : \A r \in DOMAIN log :
           q <= r => r \in DOMAIN log'
  BY RetainsLatest DEF Retain
<1>3. \A r \in DOMAIN log : r # next_event_sequence
  BY <1>1
<1>4. QED
  BY <1>1, <1>2, <1>3

\* An event that goes on from where the log is, but for what an end may close
\* and a recovery commit may acknowledge.
Fits(e) ==
  /\ ~produced.ended
  /\ e.sequence = next_event_sequence
  /\ e.acknowledged_sequence <= audio - 1
  /\ e.kind # "end" =>
       /\ e.segment_id <= next_event_sequence
       /\ e.start <= e.end /\ e.end <= audio
  /\ e.kind = "partial" => e.acknowledged_sequence = audio - 1
  /\ e.kind \in {"partial", "commit"} =>
       /\ Continues(e.segment_id, e.revision) /\ e.revision > 0
       /\ transcribed_through <= e.start
       /\ \A q \in OpenPartials : log[q].segment_id = e.segment_id
  /\ e.kind = "replace" =>
       /\ e.end <= transcribed_through
       /\ produced.states[e.segment_id] = "commit"
       /\ produced.revisions[e.segment_id] < e.revision

LogFacts == TypeOK /\ Accounted /\ LogInOrder /\ OpenIsLatest

\* What is known of a segment that has events, and of one that continues.
LEMMA FitsSegment ==
  ASSUME LogFacts, NEW e \in Event, Fits(e), e.kind # "end"
  PROVE  /\ e.segment_id \in Indexes /\ e.segment_id \in Nat
         /\ e.revision \in Nat /\ e.start \in Nat /\ e.end \in Nat
         /\ e.kind \in {"partial", "commit", "replace"}
         /\ e.kind = "replace" => e.segment_id < next_segment_index
         /\ e.kind \in {"partial", "commit"} =>
              /\ next_segment_index <= e.segment_id + 1
              /\ produced.states[e.segment_id] \in {"new", "partial"}
              /\ produced.revisions[e.segment_id] < e.revision
         /\ /\ next_segment_index' = Later(next_segment_index, e.segment_id + 1)
            /\ e.kind \in {"partial", "commit"}
            => next_segment_index' = e.segment_id + 1
<1>1. /\ e.segment_id \in Indexes /\ e.segment_id \in Nat
      /\ e.revision \in Nat /\ e.start \in Nat /\ e.end \in Nat
      /\ e.kind \in {"partial", "commit", "replace"}
      /\ next_segment_index \in Nat
  BY EventFields, LogAssumption DEF Indexes, LogFacts, TypeOK
<1>2. ASSUME e.kind = "replace"
      PROVE  e.segment_id < next_segment_index
  <2>1. produced.states[e.segment_id] = "commit"
    BY <1>2 DEF Fits
  <2>2. ~(e.segment_id >= next_segment_index)
    BY <1>1, <2>1 DEF LogFacts, Accounted
  <2>3. QED
    BY <1>1, <2>2
<1>3. ASSUME e.kind \in {"partial", "commit"}
      PROVE  /\ next_segment_index <= e.segment_id + 1
             /\ produced.states[e.segment_id] \in {"new", "partial"}
             /\ produced.revisions[e.segment_id] < e.revision
  <2>1. Continues(e.segment_id, e.revision) /\ e.revision > 0
    BY <1>3 DEF Fits
  <2>2. CASE next_segment_index <= e.segment_id
    <3>1. produced.states[e.segment_id] = "new"
          /\ produced.revisions[e.segment_id] = 0
      BY <1>1, <2>2 DEF LogFacts, Accounted
    <3>2. QED
      BY <1>1, <2>1, <2>2, <3>1
  <2>3. CASE /\ e.segment_id + 1 = next_segment_index
             /\ produced.states[e.segment_id] = "partial"
             /\ produced.revisions[e.segment_id] < e.revision
    BY <1>1, <2>3
  <2>4. QED
    BY <2>1, <2>2, <2>3 DEF Continues
<1>4. QED
  BY <1>1, <1>2, <1>3 DEF Later

\* The validator of the log accepts it as the next of its segment, and in order
\* when it acknowledges no less than the log did.
LEMMA FitsAcceptedSegment ==
  ASSUME LogFacts, NEW e \in Event, Fits(e), e.kind # "end"
  PROVE  Logged!AcceptsSegment(produced, e)
<1>1. /\ produced \in Logged!Validator /\ next_event_sequence \in Nat
      /\ transcribed_through \in Nat
  BY Numbers DEF LogFacts
<1>2. Logged!AcceptsSegment(produced, e)
  <2>1. /\ e.kind \in {"partial", "commit", "replace"}
        /\ e.revision \in Nat /\ e.start \in Nat /\ e.segment_id \in Indexes
    BY FitsSegment
  <2>2. Logged!AcceptsRevision(produced, e)
    <3>1. produced.revisions[e.segment_id] < e.revision
      BY <2>1, FitsSegment DEF Fits
    <3>2. produced.revisions[e.segment_id] \in Nat
      BY <1>1, <2>1, ValidatorFields
    <3>3. QED
      BY <2>1, <3>1, <3>2 DEF Logged!AcceptsRevision
  <2>3. e.kind \in Logged!MayFollow(produced.states[e.segment_id])
    BY <2>1, FitsSegment DEF Fits, Logged!MayFollow
  <2>4. e.kind = "commit" => e.start >= produced.last_commit_start
    <3>1. produced.last_commit_start <= transcribed_through
      BY DEF LogFacts, Accounted
    <3>2. e.kind = "commit" => transcribed_through <= e.start
      BY DEF Fits
    <3>3. produced.last_commit_start \in Nat
      BY <1>1, ValidatorFields
    <3>4. QED
      BY <1>1, <2>1, <3>1, <3>2, <3>3
  <2>5. QED
    BY <2>2, <2>3, <2>4 DEF Logged!AcceptsSegment
<1>3. QED
  BY <1>2

LEMMA FitsAccepted ==
  ASSUME LogFacts, NEW e \in Event, Fits(e), e.kind # "end",
         \/ e.acknowledged_sequence = -1
         \/ produced.last_acknowledged_sequence <= e.acknowledged_sequence
  PROVE  Logged!Accepts(produced, e)
<1>1. /\ produced \in Logged!Validator /\ next_event_sequence \in Nat
      /\ transcribed_through \in Nat
  BY Numbers DEF LogFacts
<1>2. Logged!AcceptsOrder(produced, e)
  BY <1>1, ValidatorFields, EventFields
     DEF Fits, LogFacts, Accounted, Logged!AcceptsOrder, Logged!None
<1>3. Logged!AcceptsSegment(produced, e)
  BY FitsAcceptedSegment
<1>4. e.kind # "speaker_merge"
  BY EventFields
<1>5. QED
  BY <1>2, <1>3, <1>4 DEF Logged!Accepts

\* What the counters say stays true of the validator.
LEMMA RetainAccounted ==
  ASSUME LogFacts, NEW e \in Event, Fits(e), Retain(e), UNCHANGED audio
  PROVE  Accounted'
<1> DEFINE v == produced
           w == produced'
<1>1. /\ v \in Logged!Validator /\ audio \in Nat /\ next_event_sequence \in Nat
      /\ transcribed_through \in Nat /\ next_segment_index \in Nat
  BY Numbers DEF LogFacts
<1>2. /\ w \in Logged!Validator /\ audio' = audio
      /\ next_event_sequence' = next_event_sequence + 1
  BY RetainEffects DEF LogFacts
<1>a. /\ w.last_sequence = e.sequence
      /\ w.last_acknowledged_sequence \in
           {v.last_acknowledged_sequence, e.acknowledged_sequence}
  BY RetainEffects DEF LogFacts
<1>b. /\ e.sequence = next_event_sequence /\ e.acknowledged_sequence <= audio - 1
      /\ v.last_acknowledged_sequence <= audio - 1
  BY DEF Fits, LogFacts, Accounted
<1>3. /\ w.last_sequence = next_event_sequence' - 1
      /\ w.last_acknowledged_sequence <= audio' - 1
  BY <1>1, <1>2, <1>a, <1>b
<1>4. CASE e.kind = "end"
  <2>1. /\ next_segment_index' = next_segment_index
        /\ transcribed_through' = transcribed_through
        /\ w.states = v.states /\ w.revisions = v.revisions
        /\ w.max_end = v.max_end /\ w.last_commit_start = v.last_commit_start
    BY <1>4, RetainEffects DEF LogFacts
  <2>2. QED
    BY <1>1, <1>2, <1>3, <2>1 DEF LogFacts, Accounted
<1>5. CASE e.kind # "end"
  <2> DEFINE s == e.segment_id
  <2>1. /\ s \in Indexes /\ s \in Nat /\ e.start \in Nat /\ e.end \in Nat
        /\ e.start <= e.end /\ e.end <= audio /\ s <= next_event_sequence
    BY <1>5, FitsSegment DEF Fits
  <2>2. /\ next_segment_index' = Later(next_segment_index, s + 1)
        /\ transcribed_through' =
             IF e.kind \in {"commit", "replace"}
             THEN Later(transcribed_through, e.end) ELSE transcribed_through
        /\ w.states = [v.states EXCEPT ![s] = e.kind]
        /\ w.revisions = [v.revisions EXCEPT ![s] = e.revision]
        /\ w.max_end = Logged!Later(v.max_end, e.end)
        /\ w.last_commit_start = IF e.kind = "commit" THEN e.start
                                 ELSE v.last_commit_start
    BY <1>5, RetainEffects DEF LogFacts
  <2>3. /\ v.max_end <= audio /\ v.last_commit_start <= transcribed_through
        /\ transcribed_through <= audio /\ next_segment_index <= next_event_sequence
        /\ v.max_end \in Nat /\ v.last_commit_start \in Nat
    BY <1>1, ValidatorFields DEF LogFacts, Accounted
  <2>4. /\ w.last_commit_start <= transcribed_through'
        /\ w.max_end <= audio' /\ transcribed_through' <= audio'
        /\ next_segment_index' <= next_event_sequence'
    BY <1>1, <1>2, <2>1, <2>2, <2>3 DEF Later, Logged!Later
  <2>5. ASSUME NEW t \in Indexes, t >= next_segment_index'
        PROVE  w.states[t] = "new" /\ w.revisions[t] = 0
    <3>1. t # s /\ t >= next_segment_index
      BY <1>1, <2>1, <2>2, <2>5, LogAssumption DEF Later, Indexes
    <3>2. v.states[t] = "new" /\ v.revisions[t] = 0
      BY <3>1 DEF LogFacts, Accounted
    <3>3. QED
      BY <1>1, <2>2, <3>1, <3>2, ValidatorFields
  <2>6. QED
    BY <1>3, <2>4, <2>5 DEF Accounted
<1>6. QED
  BY <1>4, <1>5

\* The partials that are still open after an event.
LEMMA OpenAfter ==
  ASSUME LogFacts, NEW e \in Event, Fits(e), Retain(e)
  PROVE  /\ e.kind = "partial" => OpenPartials' = {next_event_sequence}
         /\ e.kind = "commit" => OpenPartials' = {}
         /\ e.kind \in {"replace", "end"} =>
              \A q \in OpenPartials' :
                /\ q \in OpenPartials /\ log'[q] = log[q]
                /\ q # next_event_sequence
<1> DEFINE next == next_event_sequence
<1>1. TypeOK
  BY DEF LogFacts
<1>2. /\ next \in DOMAIN log' /\ log'[next] = e /\ DOMAIN log' \subseteq 0..next
      /\ next \in Nat
      /\ \A q \in DOMAIN log' : q # next =>
           /\ q \in DOMAIN log /\ log'[q] = log[q] /\ q \in Nat /\ q < next
      /\ \A q \in DOMAIN log' : \A r \in DOMAIN log :
           q <= r => r \in DOMAIN log' /\ log'[r] = log[r]
      /\ DOMAIN log \subseteq 0..(next - 1)
  BY <1>1, RetainLog, Numbers DEF TypeOK
<1>3. ASSUME NEW q \in OpenPartials', q # next
      PROVE  /\ q \in OpenPartials /\ log'[q] = log[q]
             /\ e.kind # "end" => e.segment_id # log[q].segment_id
  <2>1. /\ q \in DOMAIN log' /\ log'[q].kind = "partial"
        /\ \A r \in DOMAIN log' :
             log'[r].kind # "end" /\ log'[r].segment_id = log'[q].segment_id => r <= q
    BY <1>3 DEF OpenPartials
  <2>2. /\ q \in DOMAIN log /\ log'[q] = log[q] /\ q \in Nat /\ q < next
    BY <1>2, <1>3, <2>1
  <2>3. ASSUME NEW r \in DOMAIN log, log[r].kind # "end",
               log[r].segment_id = log[q].segment_id
        PROVE  r <= q
    <3>1. r \in Nat
      BY <1>2
    <3>2. CASE q <= r
      BY <1>2, <2>1, <2>2, <2>3, <3>2
    <3>3. QED
      BY <2>2, <3>1, <3>2
  <2>4. q \in OpenPartials
    BY <2>1, <2>2, <2>3 DEF OpenPartials
  <2>5. e.kind # "end" => e.segment_id # log[q].segment_id
    BY <1>2, <2>1, <2>2
  <2>6. QED
    BY <2>2, <2>4, <2>5
<1>4. ASSUME e.kind \in {"partial", "commit"}, NEW q \in OpenPartials'
      PROVE  q = next
  BY <1>3, <1>4 DEF Fits
<1>6. ASSUME e.kind = "partial"
      PROVE  next \in OpenPartials'
  <2>1. \A r \in DOMAIN log' : r <= next
    BY <1>2
  <2>2. QED
    BY <1>2, <1>6, <2>1 DEF OpenPartials
<1>7. e.kind # "partial" => next \notin OpenPartials'
  BY <1>2 DEF OpenPartials
<1>8. QED
  BY <1>3, <1>4, <1>6, <1>7

\* The log stays in order.
LEMMA RetainOrdered ==
  ASSUME LogFacts, NEW e \in Event, Fits(e), Retain(e)
  PROVE  LogInOrder'
<1> DEFINE next == next_event_sequence
<1>1. TypeOK
  BY DEF LogFacts
<1>2. /\ next \in DOMAIN log' /\ log'[next] = e /\ DOMAIN log' \subseteq 0..next
      /\ next \in Nat /\ next' = next + 1
      /\ \A q \in DOMAIN log' : q # next =>
           /\ q \in DOMAIN log /\ log'[q] = log[q] /\ q \in Nat /\ q < next
      /\ \A q \in DOMAIN log' : \A r \in DOMAIN log :
           q <= r => r \in DOMAIN log' /\ log'[r] = log[r]
      /\ DOMAIN log \subseteq 0..(next - 1)
  BY <1>1, RetainLog, RetainEffects, Numbers DEF TypeOK
<1>3. /\ produced'.ended = (produced.ended \/ e.kind = "end")
      /\ produced \in Logged!Validator /\ produced' \in Logged!Validator
      /\ next_segment_index \in Nat /\ next_segment_index' \in Nat
      /\ next_segment_index <= next_segment_index'
      /\ e.kind # "end" => e.segment_id \in Indexes /\ e.segment_id < next_segment_index'
  <2>1. /\ next_segment_index \in Nat /\ produced \in Logged!Validator
        /\ produced' \in Logged!Validator
        /\ produced'.ended = (produced.ended \/ e.kind = "end")
        /\ next_segment_index' = IF e.kind = "end" THEN next_segment_index
                                 ELSE Later(next_segment_index, e.segment_id + 1)
    BY <1>1, Numbers, RetainEffects
  <2>2. e.kind # "end" => e.segment_id \in Indexes /\ e.segment_id \in Nat
    BY FitsSegment
  <2>3. QED
    BY <2>1, <2>2 DEF Later
<1>4. ASSUME NEW t \in Indexes, e.kind # "end" => t # e.segment_id
      PROVE  /\ produced'.states[t] = produced.states[t]
             /\ produced'.revisions[t] = produced.revisions[t]
  <2>1. CASE e.kind = "end"
    BY <1>1, <2>1, RetainEffects
  <2>2. CASE e.kind # "end"
    BY <1>1, <1>3, <1>4, <2>2, RetainEffects, ValidatorFields
  <2>3. QED
    BY <2>1, <2>2
<1>5. ASSUME e.kind # "end"
      PROVE  /\ produced'.states[e.segment_id] = e.kind
             /\ produced'.revisions[e.segment_id] = e.revision
  BY <1>1, <1>3, <1>5, RetainEffects, ValidatorFields
<1>6. ASSUME NEW q \in DOMAIN log', NEW r \in q..(next' - 1)
      PROVE  r \in DOMAIN log'
  <2>1. CASE r = next
    BY <1>2, <2>1
  <2>2. CASE r # next
    <3>1. q \in Nat /\ q # next /\ q \in DOMAIN log /\ r \in q..(next - 1)
      BY <1>2, <1>6, <2>2
    <3>2. r \in DOMAIN log /\ q <= r
      BY <1>2, <3>1 DEF LogFacts, LogInOrder
    <3>3. QED
      BY <1>2, <1>6, <3>2
  <2>3. QED
    BY <2>1, <2>2
<1>7. ASSUME NEW q \in DOMAIN log'
      PROVE  /\ log'[q].sequence = q
             /\ log'[q].kind = "end" => produced'.ended
             /\ log'[q].kind # "end" => log'[q].segment_id < next_segment_index'
  <2>1. CASE q = next
    BY <1>2, <1>3, <2>1 DEF Fits
  <2>2. CASE q # next
    <3>1. q \in DOMAIN log /\ log'[q] = log[q]
      BY <1>2, <2>2
    <3>2. /\ log[q].sequence = q
          /\ log[q].kind = "end" => produced.ended
          /\ log[q].kind # "end" => log[q].segment_id < next_segment_index
      BY <3>1 DEF LogFacts, LogInOrder
    <3>3. log[q].kind # "end" => log[q].segment_id \in Nat
      BY <1>1, <3>1, EventFields, LogAssumption DEF TypeOK, Indexes
    <3>4. log'[q].kind = "end" => produced'.ended
      <4>1. produced'.ended = (produced.ended \/ e.kind = "end")
        BY <1>1, RetainEffects
      <4>a. produced.ended => produced'.ended
        <5>1. produced.ended \in BOOLEAN
          BY <1>3, ValidatorFields
        <5>2. QED
          BY <4>1, <5>1
      <4>2. QED
        BY <3>1, <3>2, <4>a, Zenon
    <3>5. log'[q].kind # "end" => log'[q].segment_id < next_segment_index'
      <4>1. /\ next_segment_index \in Nat /\ next_segment_index' \in Nat
            /\ next_segment_index <= next_segment_index'
        BY <1>3
      <4>2. QED
        BY <3>1, <3>2, <3>3, <4>1
    <3>6. QED
      BY <3>1, <3>2, <3>4, <3>5
  <2>3. QED
    BY <2>1, <2>2
<1>8. ASSUME NEW q \in DOMAIN log', log'[q].kind # "end",
             \A r \in DOMAIN log' :
               log'[r].kind # "end" /\ log'[r].segment_id = log'[q].segment_id =>
                 r <= q
      PROVE  /\ produced'.states[log'[q].segment_id] = log'[q].kind
             /\ produced'.revisions[log'[q].segment_id] = log'[q].revision
  <2>1. CASE q = next
    BY <1>2, <1>5, <1>8, <2>1
  <2>2. CASE q # next
    <3>1. q \in DOMAIN log /\ log'[q] = log[q] /\ q \in Nat /\ q < next
      BY <1>2, <2>2
    <3>2. e.kind # "end" => e.segment_id # log[q].segment_id
      BY <1>2, <1>8, <3>1
    <3>3. ASSUME NEW r \in DOMAIN log, log[r].kind # "end",
                 log[r].segment_id = log[q].segment_id
          PROVE  r <= q
      <4>1. r \in Nat
        BY <1>2
      <4>2. CASE q <= r
        BY <1>2, <1>8, <3>1, <3>3, <4>2
      <4>3. QED
        BY <3>1, <4>1, <4>2
    <3>4. /\ produced.states[log[q].segment_id] = log[q].kind
          /\ produced.revisions[log[q].segment_id] = log[q].revision
      BY <1>8, <3>1, <3>3 DEF LogFacts, LogInOrder, EventsOf
    <3>5. log[q].segment_id \in Indexes
      BY <1>1, <1>8, <3>1, EventFields DEF TypeOK
    <3>6. QED
      BY <1>4, <3>1, <3>2, <3>4, <3>5
  <2>3. QED
    BY <2>1, <2>2
<1>9. ASSUME NEW t \in Indexes, produced'.states[t] = "partial"
      PROVE  \/ \A q \in DOMAIN log' : log'[q].kind = "end" \/ log'[q].segment_id # t
             \/ \E q \in OpenPartials' : log'[q].segment_id = t
  <2>1. CASE e.kind # "end" /\ t = e.segment_id
    <3>1. e.kind = "partial"
      BY <1>5, <1>9, <2>1
    <3>2. next \in OpenPartials'
      BY <3>1, OpenAfter
    <3>3. QED
      BY <1>2, <2>1, <3>2
  <2>2. CASE e.kind = "end" \/ t # e.segment_id
    <3>1. produced.states[t] = "partial"
      BY <1>4, <1>9, <2>2
    <3>2. \A q \in DOMAIN log' : log'[q].kind # "end" /\ log'[q].segment_id = t =>
            q # next /\ q \in DOMAIN log /\ log'[q] = log[q] /\ q \in EventsOf(t)
      BY <1>2, <2>2 DEF EventsOf
    <3>3. CASE EventsOf(t) = {}
      BY <3>2, <3>3
    <3>4. ASSUME NEW p \in OpenPartials, log[p].segment_id = t
          PROVE  \/ \A q \in DOMAIN log' : log'[q].kind = "end" \/ log'[q].segment_id # t
                 \/ \E q \in OpenPartials' : log'[q].segment_id = t
      <4>1. /\ p \in DOMAIN log /\ log[p].kind = "partial"
            /\ \A r \in EventsOf(t) : r <= p
        BY <3>4 DEF OpenPartials, EventsOf
      <4>2. CASE p \in DOMAIN log'
        <5>1. log'[p] = log[p]
          BY <1>2, <4>1, <4>2
        <5>2. \A r \in DOMAIN log' :
                log'[r].kind # "end" /\ log'[r].segment_id = log'[p].segment_id => r <= p
          BY <3>2, <3>4, <4>1, <5>1
        <5>3. p \in OpenPartials'
          BY <4>1, <4>2, <5>1, <5>2 DEF OpenPartials
        <5>4. QED
          BY <3>4, <5>1, <5>3
      <4>3. CASE p \notin DOMAIN log'
        BY <1>2, <3>2, <4>1, <4>3
      <4>4. QED
        BY <4>2, <4>3
    <3>5. QED
      BY <3>1, <3>3, <3>4 DEF LogFacts, LogInOrder
  <2>3. QED
    BY <2>1, <2>2
<1>10. next' > 0 /\ next' - 1 \in DOMAIN log'
  BY <1>2
<1>11. QED
  BY <1>6, <1>7, <1>8, <1>9, <1>10 DEF LogInOrder, EventsOf

\* What is open can still be committed as it stands.
LEMMA RetainOpen ==
  ASSUME LogFacts, NEW e \in Event, Fits(e), Retain(e), UNCHANGED audio
  PROVE  OpenIsLatest'
<1> DEFINE next == next_event_sequence
<1>1. TypeOK
  BY DEF LogFacts
<1>2. /\ next \in DOMAIN log' /\ log'[next] = e /\ DOMAIN log' \subseteq 0..next
      /\ next \in Nat /\ next' = next + 1
      /\ \A q \in DOMAIN log' : q # next =>
           /\ q \in DOMAIN log /\ log'[q] = log[q] /\ q \in Nat /\ q < next
  BY <1>1, RetainLog, RetainEffects, Numbers DEF TypeOK
<1>3. /\ audio' = audio /\ audio \in Nat /\ next_segment_index \in Nat
      /\ transcribed_through \in Nat
  BY <1>1, Numbers
<1>4. CASE e.kind = "partial"
  <2>1. /\ next_segment_index' = e.segment_id + 1
        /\ transcribed_through' = transcribed_through
        /\ produced'.last_acknowledged_sequence =
             IF e.acknowledged_sequence = -1 THEN produced.last_acknowledged_sequence
             ELSE e.acknowledged_sequence
    BY <1>1, <1>4, FitsSegment, RetainEffects
  <2>2. /\ e.revision > 0 /\ transcribed_through <= e.start
        /\ e.start <= e.end /\ e.end <= audio
        /\ e.acknowledged_sequence <= audio - 1
    BY <1>4 DEF Fits
  <2>3. \A r \in DOMAIN log' : ~(r > next)
    BY <1>2
  <2>4. QED
    BY <1>2, <1>3, <1>4, <2>1, <2>2, <2>3, OpenAfter DEF OpenIsLatest, Logged!None
<1>5. CASE e.kind = "commit"
  <2>1. OpenPartials' = {}
    BY <1>5, OpenAfter
  <2>2. QED
    BY <2>1 DEF OpenIsLatest
<1>6. CASE e.kind \in {"replace", "end"}
  <2>1. /\ next_segment_index' = next_segment_index
        /\ transcribed_through' = transcribed_through
    <3>1. CASE e.kind = "end"
      BY <1>1, <3>1, RetainEffects
    <3>2. CASE e.kind = "replace"
      <4>1. /\ e.segment_id < next_segment_index /\ e.segment_id \in Nat
            /\ e.end <= transcribed_through /\ e.end \in Nat
        BY <3>2, FitsSegment DEF Fits
      <4>2. /\ next_segment_index' = Later(next_segment_index, e.segment_id + 1)
            /\ transcribed_through' = Later(transcribed_through, e.end)
        BY <1>1, <3>2, RetainEffects
      <4>3. QED
        BY <1>3, <4>1, <4>2 DEF Later
    <3>3. QED
      BY <1>6, <3>1, <3>2
  <2>2. ASSUME NEW q \in OpenPartials'
        PROVE  /\ q \in OpenPartials /\ log'[q] = log[q] /\ q # next' - 1
               /\ \A r \in DOMAIN log' : r > q => log'[r].kind \in {"replace", "end"}
    <3>1. q \in OpenPartials /\ log'[q] = log[q] /\ q # next
      BY <1>6, OpenAfter
    <3>2. \A r \in DOMAIN log : r > q => log[r].kind \in {"replace", "end"}
      BY <3>1 DEF LogFacts, OpenIsLatest
    <3>3. QED
      BY <1>2, <1>6, <3>1, <3>2
  <2>3. QED
    BY <1>3, <2>1, <2>2 DEF LogFacts, OpenIsLatest
<1>7. QED
  BY <1>4, <1>5, <1>6, EventFields

-----------------------------------------------------------------------------
\* Retaining an event keeps what is stored well formed.
LEMMA RetainTyped ==
  ASSUME TypeOK, NEW e \in Event, e.sequence = next_event_sequence,
         Retain(e)
  PROVE  /\ log' \in [DOMAIN log' -> Event]
         /\ next_event_sequence' \in 0..MaxEvents
         /\ DOMAIN log' \subseteq 0..(next_event_sequence' - 1)
         /\ next_segment_index' \in Nat /\ transcribed_through' \in Times
         /\ produced' \in Logged!Validator
         /\ missing' \subseteq Nat /\ refused' \subseteq Nat /\ early' \subseteq Nat
<1>1. /\ log' \in [DOMAIN log' -> Event]
      /\ DOMAIN log' \subseteq 0..next_event_sequence
  BY RetainsLatest DEF Retain
<1>2. next_event_sequence' = next_event_sequence + 1
      /\ next_event_sequence \in Nat /\ next_event_sequence < MaxEvents
  BY LogAssumption DEF Retain, TypeOK
<1>3. produced' \in Logged!Validator
  BY AfterEvent DEF Retain, TypeOK
<1>4. next_segment_index' \in Nat
  <2>1. e.kind # "end" => e.segment_id \in Nat
    BY EventFields, LogAssumption DEF Indexes
  <2>2. QED
    BY <2>1 DEF Retain, TypeOK, Later
<1>5. transcribed_through' \in Times
  <2>1. e.kind # "end" => e.end \in Times
    BY DEF Event, Logged!Event, Logged!EndEvent
  <2>2. e.kind \in {"commit", "replace"} => e.kind # "end"
    OBVIOUS
  <2>3. QED
    BY <2>1, <2>2 DEF Retain, TypeOK, Later
<1>6. missing' \subseteq Nat /\ refused' \subseteq Nat /\ early' \subseteq Nat
  BY <1>2 DEF Retain, TypeOK
<1>7. QED
  BY <1>1, <1>2, <1>3, <1>4, <1>5, <1>6, LogAssumption

\* What the second pass makes of a commit is a yield too.
LEMMA ReplacementTyped ==
  ASSUME NEW e \in Yield, e.kind = "commit"
  PROVE  LET r == [e EXCEPT !.kind = "replace", !.revision = @ + 1]
         IN /\ r \in Yield /\ r.kind = "replace" /\ r.segment_id = e.segment_id
            /\ r.revision = e.revision + 1 /\ r.start = e.start /\ r.end = e.end
<1> DEFINE T == [segment_id : Indexes, kind : {"partial", "commit", "replace"},
                 revision : Nat, start : Times, end : Times]
           n == e.revision + 1
           r == [e EXCEPT !.kind = "replace", !.revision = n]
<1>1. e \in T
  BY DEF Yield
<1>2. n \in Nat
  BY <1>1
<1> HIDE DEF n
<1>3. r \in T /\ r.kind = "replace" /\ r.segment_id = e.segment_id
      /\ r.revision = n /\ r.start = e.start /\ r.end = e.end
  BY <1>1, <1>2
<1>4. QED
  BY <1>3 DEF Yield, n

\* The windows the worker makes are within the audio it has consumed.
LEMMA YieldsTyped ==
  ASSUME TypeOK, NEW kind \in {"partial", "commit"}, NEW to \in Times,
         Yields(kind, to), index \in Indexes
  PROVE  /\ last_end' \in Times
         /\ \E e \in Yield :
              /\ hand' = {e}
              /\ e.kind = kind /\ e.segment_id = index /\ e.revision = revision
              /\ window_start <= e.start /\ e.start <= e.end /\ e.end <= to
<1>1. PICK start \in window_start..to : \E end \in start..to :
        /\ hand' = {[segment_id |-> index, kind |-> kind, revision |-> revision,
                     start |-> start, end |-> end]}
        /\ last_end' = Later(last_end, end)
  BY DEF Yields
<1>a. PICK end \in start..to :
        /\ hand' = {[segment_id |-> index, kind |-> kind, revision |-> revision,
                     start |-> start, end |-> end]}
        /\ last_end' = Later(last_end, end)
  BY <1>1
<1> DEFINE e == [segment_id |-> index, kind |-> kind, revision |-> revision,
                 start |-> start, end |-> end]
<1>b. window_start \in 0..MaxAudio /\ to \in 0..MaxAudio /\ MaxAudio \in Nat
  BY Numbers DEF TypeOK, Times
<1>2. start \in Times /\ end \in Times /\ start <= end /\ end <= to
      /\ window_start <= start
  BY <1>a, <1>b DEF Times
<1>3. e \in Yield
  <2>1. revision \in Nat
    BY DEF TypeOK
  <2>2. e \in [segment_id : Indexes, kind : {"partial", "commit", "replace"},
               revision : Nat, start : Times, end : Times]
    BY <1>2, <2>1
  <2>3. QED
    BY <2>2 DEF Yield
<1>4. last_end' \in Times
  BY <1>a, <1>2 DEF TypeOK, Later
<1>5. QED
  BY <1>a, <1>2, <1>3, <1>4

-----------------------------------------------------------------------------
(* The two ways an event enters the log.                                   *)

\* What the worker has yielded goes on from where the log is.
LEMMA HandFitsLog ==
  ASSUME LogInv, NEW e \in hand
  PROVE  /\ Payload(e) \in Event /\ Fits(Payload(e))
         /\ e \in Yield /\ hand = {e}
<1> DEFINE P == Payload(e)
<1>1. /\ e \in Yield /\ hand = {e} /\ produced.ended = FALSE /\ TypeOK
      /\ audio \in Nat
  <2>1. TypeOK /\ hand = {e}
    BY DEF LogInv, HandFits
  <2>2. /\ e \in Yield /\ audio \in Nat /\ produced.ended \in BOOLEAN
    BY <2>1, Numbers, ValidatorFields
  <2>3. ~produced.ended
    BY <2>1 DEF LogInv, Rests
  <2>4. QED
    BY <2>1, <2>2, <2>3
<1>2. /\ P \in Event /\ P.kind = e.kind /\ P.start = e.start
      /\ P.sequence = next_event_sequence
      /\ P.acknowledged_sequence = audio - 1
      /\ e.kind # "end" => /\ P.segment_id = e.segment_id
                           /\ P.revision = e.revision /\ P.end = e.end
  BY <1>1, PayloadIsEvent
<1> HIDE DEF P
<1>3. e.kind # "end" => /\ e.segment_id <= next_event_sequence
                        /\ e.start <= e.end /\ e.end <= audio
  <2>1. SUFFICES ASSUME e.kind # "end"
                 PROVE  /\ e.segment_id <= next_event_sequence
                        /\ e.start <= e.end /\ e.end <= audio
    OBVIOUS
  <2>2. /\ stage # "stopped" /\ e.segment_id <= next_event_sequence
        /\ e.start <= e.end /\ e.end <= position
    BY <2>1 DEF LogInv, HandFits
  <2>3. position <= audio
    BY <2>2 DEF LogInv, WorkerFollows
  <2>4. e.end \in Nat /\ position \in Nat /\ audio \in Nat
    BY <1>1, <2>1, Numbers, YieldFields
  <2>5. QED
    BY <2>2, <2>3, <2>4
<1>4. e.kind \in {"partial", "commit"} =>
        /\ Continues(e.segment_id, e.revision) /\ e.revision > 0
        /\ transcribed_through <= e.start
  BY DEF LogInv, HandFits
<1>5. e.kind = "replace" =>
        /\ e.end <= transcribed_through
        /\ produced.states[e.segment_id] = "commit"
        /\ produced.revisions[e.segment_id] < e.revision
  BY DEF LogInv, HandFits
<1>6. ASSUME e.kind \in {"partial", "commit"}, NEW q \in OpenPartials
      PROVE  log[q].segment_id = e.segment_id
  <2>1. /\ stage # "stopped"
        /\ e.kind = "partial" => index = e.segment_id
        /\ e.kind = "commit" => index = e.segment_id + 1
    BY <1>6 DEF LogInv, HandFits
  <2>2. \/ log[q].segment_id = index
        \/ \E f \in hand : f.kind = "commit" /\ log[q].segment_id = f.segment_id
    BY <2>1 DEF LogInv, WorkerFollows
  <2>3. CASE \E f \in hand : f.kind = "commit" /\ log[q].segment_id = f.segment_id
    BY <1>1, <2>3
  <2>4. CASE log[q].segment_id = index
    <3>1. CASE e.kind = "partial"
      BY <2>1, <2>4, <3>1
    <3>2. CASE e.kind = "commit"
      <4>1. log[q].segment_id + 1 = next_segment_index
        BY DEF LogInv, OpenIsLatest
      <4>2. next_segment_index <= e.segment_id + 1
        BY <1>4, <1>6, <3>2, YieldFields, Numbers, <1>1 DEF Continues
      <4>3. index = e.segment_id + 1 /\ index \in Nat /\ e.segment_id \in Nat
        BY <1>1, <2>1, <3>2, YieldFields, Numbers
      <4>4. QED
        BY <2>4, <4>1, <4>2, <4>3
    <3>3. QED
      BY <1>6, <3>1, <3>2
  <2>5. QED
    BY <2>2, <2>3, <2>4
<1>7. Fits(P)
  BY <1>1, <1>2, <1>3, <1>4, <1>5, <1>6 DEF Fits
<1>8. QED
  BY <1>1, <1>2, <1>7 DEF P

\* append_event retains the payload, and no other change touches the log.
LEMMA AppendRetains ==
  ASSUME LogInv, AppendEvent
  PROVE  \E e \in hand :
           /\ Retain(Payload(e)) /\ unsent' = {Payload(e)} /\ hand' = {}
           /\ UNCHANGED <<audio, completed, conn, outgoing, snapshot, workerVars,
                          seen, highest, dropped>>
BY DEF AppendEvent, Payload

\* The event open commits a partial with.
Closing(q) ==
  [log[q] EXCEPT !.kind = "commit", !.revision = @ + 1,
                 !.sequence = next_event_sequence]

LEMMA ClosingFields ==
  ASSUME TypeOK, NEW q \in OpenPartials
  PROVE  /\ Closing(q) \in Event
         /\ Closing(q).kind = "commit" /\ Closing(q).sequence = next_event_sequence
         /\ Closing(q).revision = log[q].revision + 1
         /\ Closing(q).segment_id = log[q].segment_id
         /\ Closing(q).start = log[q].start /\ Closing(q).end = log[q].end
         /\ Closing(q).acknowledged_sequence = log[q].acknowledged_sequence
<1> DEFINE p == log[q]
           e == Closing(q)
           r == p.revision + 1
<1>1. p \in Event /\ p.kind = "partial" /\ next_event_sequence \in Nat
  BY LogAssumption DEF OpenPartials, TypeOK
<1>2. p \in Logged!Event
  BY <1>1 DEF Event, Logged!EndEvent
<1>3. r \in Nat /\ e = [p EXCEPT !.kind = "commit", !.revision = r,
                                 !.sequence = next_event_sequence]
  BY <1>2 DEF Logged!Event, Closing
<1> HIDE DEF r, p, e
<1>4. e \in Logged!Event
  BY <1>1, <1>2, <1>3 DEF Logged!Event, Logged!SegmentKinds
<1>5. /\ e.kind = "commit" /\ e.revision = r /\ e.sequence = next_event_sequence
      /\ e.segment_id = p.segment_id /\ e.start = p.start /\ e.end = p.end
      /\ e.acknowledged_sequence = p.acknowledged_sequence
  BY <1>2, <1>3 DEF Logged!Event
<1>6. QED
  BY <1>4, <1>5 DEF Event, e, p, r

LEMMA ClosingFits ==
  ASSUME LogInv, conn = "finalizing", NEW q \in OpenPartials
  PROVE  Closing(q) \in Event /\ Fits(Closing(q)) /\ Closing(q).kind = "commit"
<1> DEFINE p == log[q]
           e == Closing(q)
<1>1. TypeOK /\ p \in Event /\ p.kind = "partial"
  BY DEF LogInv, TypeOK, OpenPartials
<1>2. /\ e \in Event /\ e.kind = "commit" /\ e.sequence = next_event_sequence
      /\ e.revision = p.revision + 1 /\ e.segment_id = p.segment_id
      /\ e.start = p.start /\ e.end = p.end
      /\ e.acknowledged_sequence = p.acknowledged_sequence
  BY <1>1, ClosingFields
<1>3. /\ p.segment_id \in Nat /\ p.revision \in Nat
      /\ next_segment_index \in Nat /\ next_event_sequence \in Nat
  BY <1>1, EventFields, Numbers, LogAssumption DEF Indexes
<1>4. /\ p.segment_id + 1 = next_segment_index /\ p.revision > 0
      /\ transcribed_through <= p.start /\ p.start <= p.end /\ p.end <= audio
      /\ p.acknowledged_sequence <= audio - 1
      /\ next_segment_index <= next_event_sequence
  BY DEF LogInv, OpenIsLatest, Accounted
<1>5. produced.states[p.segment_id] = "partial"
      /\ produced.revisions[p.segment_id] = p.revision
  <2>1. \A r \in EventsOf(p.segment_id) : r <= q
    BY DEF OpenPartials, EventsOf
  <2>2. q \in DOMAIN log
    BY DEF OpenPartials
  <2>3. QED
    BY <1>1, <2>1, <2>2 DEF LogInv, LogInOrder
<1>6. ~produced.ended
  BY DEF LogInv, Rests
<1> HIDE DEF e, p
<1>7. Continues(e.segment_id, e.revision) /\ e.revision > 0
  BY <1>2, <1>3, <1>4, <1>5 DEF Continues
<1>8. e.segment_id <= next_event_sequence
  BY <1>2, <1>3, <1>4
<1>9. ASSUME NEW r \in OpenPartials
      PROVE  log[r].segment_id = e.segment_id
  <2>1. log[r].segment_id + 1 = next_segment_index
    BY DEF LogInv, OpenIsLatest
  <2>2. log[r].segment_id \in Nat
    BY <1>1, EventFields, LogAssumption DEF OpenPartials, TypeOK, Indexes
  <2>3. QED
    BY <1>2, <1>3, <1>4, <2>1, <2>2
<1>10. Fits(e)
  BY <1>2, <1>4, <1>6, <1>7, <1>8, <1>9 DEF Fits
<1>11. QED
  BY <1>2, <1>10 DEF e

LEMMA FinalizeRetains ==
  ASSUME LogInv, FinalizePartial
  PROVE  /\ conn = "finalizing"
         /\ \E q \in OpenPartials : Retain(Closing(q))
         /\ UNCHANGED <<audio, completed, conn, outgoing, snapshot, workerVars,
                        hand, unsent, seen, highest, dropped>>
BY DEF FinalizePartial, Closing

-----------------------------------------------------------------------------
LEMMA TypedNext ==
  ASSUME LogInv, [Next]_vars
  PROVE  TypeOK'
<1>0. TypeOK /\ index \in Nat
  BY DEF LogInv, TypeOK
<1> USE <1>0 DEF storeVars, workerVars, clientVars
<1>a. Working /\ stage = "listening" => index \in Indexes
  BY <1>0, Numbers DEF LogInv, WorkerFollows, Working, Indexes
<1>1. CASE Consume
  <2> DEFINE to == position + 1
  <2>1. to \in Times /\ position' = to /\ input_end' = to
    BY <1>1, Numbers DEF Consume, Times
  <2>2. UNCHANGED <<log, next_event_sequence, next_segment_index,
                    transcribed_through, produced, refused, early, audio, completed, conn,
                    outgoing, snapshot, stage, unsent, clientVars, dropped>>
    BY <1>1 DEF Consume
  <2>3. CASE Quiet /\ window_start' \in {window_start, to}
    BY <2>1, <2>2, <2>3 DEF TypeOK, Quiet
  <2>4. ASSUME NEW kind \in {"partial", "commit"}, Segment(kind, to)
        PROVE  TypeOK'
    <3>1. /\ last_end' \in Times
          /\ \E e \in Yield : hand' = {e}
      BY <1>1, <1>a, <2>1, <2>4, YieldsTyped DEF Segment, Consume
    <3>2. /\ hand' \subseteq Yield
          /\ window_start' \in {window_start, to}
          /\ revision' \in {1, revision + 1} /\ index' \in {index, index + 1}
          /\ commits' \subseteq commits \cup hand'
      BY <2>4, <3>1 DEF Segment
    <3>3. /\ window_start' \in Times /\ position' \in Times /\ input_end' \in Times
          /\ index' \in Nat /\ revision' \in Nat
          /\ commits' \subseteq Yield
      BY <2>1, <3>1, <3>2 DEF TypeOK
    <3>4. QED
      BY <2>2, <3>1, <3>2, <3>3 DEF TypeOK
  <2>5. \/ Quiet /\ window_start' \in {window_start, to}
        \/ Segment("partial", to)
        \/ Segment("commit", to)
    BY <1>1 DEF Consume
  <2>6. QED
    BY <2>3, <2>4, <2>5
<1>2. CASE FinishWindow
  <2>1. /\ stage' = "post"
        /\ UNCHANGED <<log, next_event_sequence, next_segment_index,
                       transcribed_through, produced, refused, early, audio, completed, conn,
                       outgoing, snapshot, position, input_end, unsent,
                       clientVars, dropped>>
    BY <1>2 DEF FinishWindow
  <2>2. CASE Quiet /\ UNCHANGED window_start
    BY <2>1, <2>2 DEF TypeOK, Quiet
  <2>3. CASE Segment("commit", position)
    <3>1. /\ last_end' \in Times
          /\ \E e \in Yield : hand' = {e}
      BY <1>2, <1>a, <2>3, YieldsTyped DEF Segment, FinishWindow, TypeOK
    <3>2. /\ hand' \subseteq Yield
          /\ window_start' = position
          /\ revision' = 1 /\ index' = index + 1
          /\ commits' \subseteq commits \cup hand'
      BY <2>3, <3>1 DEF Segment
    <3>3. QED
      BY <2>1, <3>1, <3>2 DEF TypeOK
  <2>4. QED
    BY <1>2, <2>2, <2>3 DEF FinishWindow
<1>3. CASE Break
  BY <1>3 DEF Break, TypeOK
<1>4. CASE PostProcess
  <2>1. PICK e \in commits :
          /\ commits' = commits \ {e}
          /\ \/ UNCHANGED hand
             \/ hand' = {[e EXCEPT !.kind = "replace", !.revision = @ + 1]}
    BY <1>4 DEF PostProcess
  <2>2. e \in Yield /\ e.kind = "commit"
    BY <1>4, <2>1 DEF PostProcess, LogInv, WorkerFollows, TypeOK
  <2>3. [e EXCEPT !.kind = "replace", !.revision = @ + 1] \in Yield
    BY <2>2, ReplacementTyped
  <2>4. hand' \subseteq Yield /\ commits' \subseteq Yield
    BY <2>1, <2>3 DEF TypeOK
  <2>5. UNCHANGED <<storeVars, audio, completed, conn, outgoing, snapshot, stage,
                    position, input_end, window_start, index, revision, last_end,
                    unsent, clientVars, dropped>>
    BY <1>4 DEF PostProcess
  <2>6. QED
    BY <2>4, <2>5 DEF TypeOK
<1>5. CASE EndTranscript
  <2>1. Later(last_end, input_end) \in Times
    BY DEF Later, TypeOK
  <2>2. [kind |-> "end", start |-> Later(last_end, input_end)] \in Yield
    BY <2>1 DEF Yield
  <2>3. hand' \subseteq Yield /\ completed' \in BOOLEAN /\ stage' = "stopped"
    BY <1>5, <2>2 DEF EndTranscript, TypeOK
  <2>4. UNCHANGED <<storeVars, audio, conn, outgoing, snapshot, position,
                 input_end, window_start, index, revision, last_end, commits,
                 unsent, clientVars, dropped>>
    BY <1>5 DEF EndTranscript
  <2>5. QED
    BY <2>3, <2>4 DEF TypeOK
<1>6. CASE AppendEvent
  <2>1. PICK e \in hand :
           /\ Retain(Payload(e)) /\ unsent' = {Payload(e)} /\ hand' = {}
           /\ UNCHANGED <<audio, completed, conn, outgoing, snapshot, workerVars,
                          seen, highest, dropped>>
    BY <1>6, AppendRetains
  <2>2. Payload(e) \in Event /\ Payload(e).sequence = next_event_sequence
    BY HandFitsLog DEF Fits
  <2>3. /\ log' \in [DOMAIN log' -> Event]
        /\ next_event_sequence' \in 0..MaxEvents
        /\ DOMAIN log' \subseteq 0..(next_event_sequence' - 1)
        /\ next_segment_index' \in Nat /\ transcribed_through' \in Times
        /\ produced' \in Logged!Validator /\ missing' \subseteq Nat
        /\ refused' \subseteq Nat /\ early' \subseteq Nat
    BY <2>1, <2>2, RetainTyped
  <2>4. unsent' \subseteq Event /\ hand' \subseteq Yield
    BY <2>1, <2>2
  <2>5. UNCHANGED <<audio, completed, conn, outgoing, snapshot, stage, position,
                    input_end, window_start, index, revision, last_end, commits,
                    seen, highest, dropped>>
    BY <2>1
  <2>6. QED
    BY <2>3, <2>4, <2>5 DEF TypeOK
<1>7. CASE QueueEvent
  <2>1. PICK e \in unsent :
          \/ outgoing' = Append(outgoing, e) /\ dropped' = dropped
          \/ outgoing' = outgoing /\ dropped' = dropped \cup {e.sequence}
          \/ UNCHANGED <<outgoing, dropped>>
    BY <1>7 DEF QueueEvent
  <2>2. e \in Event /\ e.sequence \in Nat
    BY <2>1, EventFields DEF TypeOK
  <2>3. outgoing' \in Seq(Event) /\ dropped' \subseteq Nat
    <3>1. outgoing \in Seq(Event) /\ dropped \subseteq Nat
      BY DEF TypeOK
    <3>2. outgoing' \in {outgoing, Append(outgoing, e)}
          /\ dropped' \in {dropped, dropped \cup {e.sequence}}
      BY <2>1
    <3>3. Append(outgoing, e) \in Seq(Event)
      BY <2>2, <3>1
    <3>4. QED
      BY <2>2, <3>1, <3>2, <3>3
  <2>4. unsent' = {}
    BY <1>7 DEF QueueEvent
  <2>5. UNCHANGED <<storeVars, audio, completed, conn, snapshot, workerVars, hand,
                 clientVars>>
    BY <1>7 DEF QueueEvent
  <2>6. QED
    BY <2>3, <2>4, <2>5 DEF TypeOK
<1>8. CASE WorkerFails
  BY <1>8 DEF WorkerFails, TypeOK
<1>9. CASE Ready
  <2>1. snapshot' \subseteq Event
    BY <1>9 DEF Ready, TypeOK
  <2>2. QED
    BY <1>9, <2>1 DEF Ready, TypeOK, Conn
<1>10. CASE ReplayRaises
  BY <1>10 DEF ReplayRaises, TypeOK, Conn
<1>11. CASE QueueReplay
  <2>1. outgoing' \in Seq(Event) /\ snapshot' \subseteq Event
    BY <1>11 DEF QueueReplay, TypeOK
  <2>2. QED
    BY <1>11, <2>1 DEF QueueReplay, TypeOK
<1>12. CASE ReplayDone
  BY <1>12 DEF ReplayDone, TypeOK, Conn
<1>13. CASE AcceptAudio
  <2>1. audio' \in Times
    BY <1>13, Numbers DEF AcceptAudio, Times
  <2>2. QED
    BY <1>13, <2>1 DEF AcceptAudio, TypeOK
<1>14. CASE ClientEnds
  BY <1>14 DEF ClientEnds, TypeOK, Conn
<1>15. CASE ClientCancels
  BY <1>15 DEF ClientCancels, TypeOK, Conn
<1>16. CASE Deliver
  <2>1. Head(outgoing) \in Event /\ outgoing' \in Seq(Event)
    BY <1>16, HeadTailProperties DEF Deliver, TypeOK
  <2>2. seen' \in Logged!Validator
    BY <1>16, <2>1, AfterEvent DEF Deliver, TypeOK
  <2>3. highest' \in Int /\ missing' \subseteq Nat
    BY <1>16, <2>1, EventFields DEF Deliver, TypeOK, Later
  <2>4. UNCHANGED <<storeVars, audio, completed, conn, snapshot, workerVars, hand,
                 unsent, dropped>>
    BY <1>16 DEF Deliver
  <2>5. QED
    BY <2>1, <2>2, <2>3, <2>4 DEF TypeOK
<1>17. CASE Disconnect
  BY <1>17 DEF Disconnect, TypeOK, Conn
<1>18. CASE Release
  BY <1>18 DEF Release, TypeOK, Conn
<1>19. CASE Resume
  BY <1>19 DEF Resume, TypeOK, Conn
<1>20. CASE FinalizePartial
  <2>1. PICK q \in OpenPartials : Retain(Closing(q))
    BY <1>20, FinalizeRetains
  <2>2. UNCHANGED <<audio, completed, conn, outgoing, snapshot, workerVars,
                        hand, unsent, seen, highest, dropped>>
    BY <1>20, FinalizeRetains
  <2>3. Closing(q) \in Event /\ Closing(q).sequence = next_event_sequence
    BY <1>20, ClosingFits, FinalizeRetains DEF Fits
  <2>4. /\ log' \in [DOMAIN log' -> Event]
        /\ next_event_sequence' \in 0..MaxEvents
        /\ DOMAIN log' \subseteq 0..(next_event_sequence' - 1)
        /\ next_segment_index' \in Nat /\ transcribed_through' \in Times
        /\ produced' \in Logged!Validator /\ missing' \subseteq Nat
        /\ refused' \subseteq Nat /\ early' \subseteq Nat
    BY <2>1, <2>3, RetainTyped
  <2>5. QED
    BY <2>2, <2>4 DEF TypeOK
<1>21. CASE StartWorker
  <2>1. UNCHANGED <<storeVars, audio, completed, outgoing, snapshot, hand, unsent,
                 clientVars, dropped>>
    BY <1>21 DEF StartWorker, StartWorkerFrom
  <2>2. /\ conn' = "starting" /\ stage' = "listening" /\ position' \in Times
        /\ window_start' \in Times /\ input_end' \in Times /\ last_end' \in Times
        /\ index' \in Nat /\ revision' \in Nat /\ commits' = {}
    BY <1>21, LogAssumption DEF StartWorker, StartWorkerFrom, TypeOK, Times
  <2>3. QED
    BY <2>1, <2>2 DEF TypeOK, Conn
<1>22. CASE UNCHANGED vars
  BY <1>22 DEF vars, TypeOK
<1>23. QED
  BY <1>1, <1>2, <1>3, <1>4, <1>5, <1>6, <1>7, <1>8, <1>9, <1>10, <1>11,
     <1>12, <1>13, <1>14, <1>15, <1>16, <1>17, <1>18, <1>19, <1>20, <1>21,
     <1>22 DEF Next, Worker, Transcribe, Handler, Reopen

-----------------------------------------------------------------------------
\* Only the two ways above change the log; the others at most add audio.
LEMMA StoreSteps ==
  ASSUME LogInv, [Next]_vars
  PROVE  \/ /\ UNCHANGED storeVars /\ audio' \in {audio, audio + 1}
         \/ AppendEvent
         \/ FinalizePartial
BY DEF Next, Worker, Transcribe, Handler, Reopen, vars, Consume, FinishWindow,
   Break, PostProcess, EndTranscript, QueueEvent, WorkerFails, Ready,
   ReplayRaises, QueueReplay, ReplayDone, AcceptAudio, ClientEnds,
   ClientCancels, Deliver, Disconnect, Release, Resume, StartWorker,
   StartWorkerFrom

\* Both retain an event that fits.
LEMMA RetainSteps ==
  ASSUME LogInv, AppendEvent \/ FinalizePartial
  PROVE  /\ audio' = audio
         /\ \E e \in Event : Fits(e) /\ Retain(e)
<1>1. CASE AppendEvent
  <2>1. PICK e \in hand : Retain(Payload(e)) /\ audio' = audio
    BY <1>1, AppendRetains
  <2>2. Payload(e) \in Event /\ Fits(Payload(e))
    BY HandFitsLog
  <2>3. QED
    BY <2>1, <2>2
<1>2. CASE FinalizePartial
  <2>1. PICK q \in OpenPartials : Retain(Closing(q))
    BY <1>2, FinalizeRetains
  <2>2. audio' = audio /\ conn = "finalizing"
    BY <1>2, FinalizeRetains
  <2>3. Closing(q) \in Event /\ Fits(Closing(q))
    BY <2>2, ClosingFits
  <2>4. QED
    BY <2>1, <2>2, <2>3
<1>3. QED
  BY <1>1, <1>2

\* What a step leaves as it is.
LEMMA SameLog ==
  ASSUME UNCHANGED storeVars
  PROVE  /\ log' = log /\ next_event_sequence' = next_event_sequence
         /\ next_segment_index' = next_segment_index
         /\ transcribed_through' = transcribed_through /\ produced' = produced
         /\ refused' = refused /\ early' = early
         /\ LastLogged' = LastLogged /\ OpenPartials' = OpenPartials
         /\ \A s : EventsOf(s)' = EventsOf(s)
         /\ \A s, n : Continues(s, n)' = Continues(s, n)
BY DEF storeVars, LastLogged, OpenPartials, EventsOf, Continues

LEMMA StoreNext ==
  ASSUME LogInv, [Next]_vars
  PROVE  Accounted' /\ LogInOrder' /\ OpenIsLatest'
<1>0. LogFacts
  BY DEF LogInv, LogFacts
<1>1. CASE UNCHANGED storeVars /\ audio' \in {audio, audio + 1}
  <2>1. /\ log' = log /\ next_event_sequence' = next_event_sequence
        /\ next_segment_index' = next_segment_index
        /\ transcribed_through' = transcribed_through /\ produced' = produced
        /\ OpenPartials' = OpenPartials
        /\ \A s : EventsOf(s)' = EventsOf(s)
    BY <1>1, SameLog
  <2>2. audio \in Nat /\ audio <= audio' /\ audio' \in Nat
        /\ produced \in Logged!Validator /\ transcribed_through \in Nat
    BY <1>0, <1>1, Numbers DEF LogFacts
  <2>3. Accounted'
    BY <1>0, <2>1, <2>2, ValidatorFields DEF LogFacts, Accounted
  <2>4. OpenIsLatest'
    <3>1. ASSUME NEW q \in OpenPartials
          PROVE  log[q].end \in Nat /\ log[q].acknowledged_sequence \in Int
      BY <1>0, EventFields DEF LogFacts, OpenPartials, TypeOK
    <3>2. QED
      BY <1>0, <2>1, <2>2, <3>1 DEF LogFacts, OpenIsLatest
  <2>5. LogInOrder'
    BY <1>0, <2>1 DEF LogFacts, LogInOrder
  <2>6. QED
    BY <2>3, <2>4, <2>5
<1>2. CASE AppendEvent \/ FinalizePartial
  <2>1. PICK e \in Event : Fits(e) /\ Retain(e)
    BY <1>2, RetainSteps
  <2>2. UNCHANGED audio
    BY <1>2, RetainSteps
  <2>3. QED
    BY <1>0, <2>1, <2>2, RetainAccounted, RetainOrdered, RetainOpen
<1>3. QED
  BY <1>1, <1>2, StoreSteps

LEMMA RetainEnds ==
  ASSUME TypeOK, NEW e \in Event, Retain(e)
  PROVE  produced'.ended = (produced.ended \/ e.kind = "end")
<1>1. produced \in Logged!Validator /\ produced' = Logged!After(produced, e)
  BY DEF TypeOK, Retain
<1>2. QED
  BY <1>1, AfterEvent

\* Between connections nobody works on the session.
LEMMA RestsNext ==
  ASSUME LogInv, [Next]_vars
  PROVE  Rests'
<1>0. /\ TypeOK /\ Rests
      /\ produced.ended \in BOOLEAN
  BY ValidatorFields DEF LogInv, TypeOK
<1> USE <1>0 DEF storeVars, workerVars, clientVars
<1>1. CASE Consume
  BY <1>1 DEF Consume, Rests, Working
<1>2. CASE FinishWindow
  BY <1>2 DEF FinishWindow, Rests, Working
<1>3. CASE Break
  BY <1>3 DEF Break, Rests, Working
<1>4. CASE PostProcess
  BY <1>4 DEF PostProcess, Rests, Working
<1>5. CASE EndTranscript
  BY <1>5 DEF EndTranscript, Rests, Working
<1>6. CASE AppendEvent
  <2>1. PICK e \in hand :
           /\ Retain(Payload(e)) /\ unsent' = {Payload(e)} /\ hand' = {}
           /\ UNCHANGED <<audio, completed, conn, outgoing, snapshot, workerVars,
                          seen, highest, dropped>>
    BY <1>6, AppendRetains
  <2>2. Payload(e) \in Event /\ Payload(e).kind = e.kind /\ e \in Yield
    BY HandFitsLog, PayloadIsEvent
  <2>3. (produced.ended \/ e.kind = "end") = produced'.ended
    BY <2>1, <2>2, RetainEnds
  <2>4. e.kind = "end" => completed /\ stage = "stopped"
    BY DEF LogInv, HandFits
  <2>5. QED
    BY <2>1, <2>3, <2>4 DEF Rests
<1>7. CASE QueueEvent
  BY <1>7 DEF QueueEvent, Rests
<1>8. CASE WorkerFails
  BY <1>8 DEF WorkerFails, Rests
<1>9. CASE Ready
  BY <1>9 DEF Ready, Rests
<1>10. CASE ReplayRaises
  BY <1>10 DEF ReplayRaises, Rests
<1>11. CASE QueueReplay
  BY <1>11 DEF QueueReplay, Rests
<1>12. CASE ReplayDone
  BY <1>12 DEF ReplayDone, Rests
<1>13. CASE AcceptAudio
  BY <1>13 DEF AcceptAudio, Rests
<1>14. CASE ClientEnds
  BY <1>14 DEF ClientEnds, Rests
<1>15. CASE ClientCancels
  BY <1>15 DEF ClientCancels, Rests
<1>16. CASE Deliver
  BY <1>16 DEF Deliver, Rests
<1>17. CASE Disconnect
  BY <1>17 DEF Disconnect, Rests
<1>18. CASE Release
  BY <1>18 DEF Release, Rests
<1>19. CASE Resume
  BY <1>19 DEF Resume, Rests
<1>20. CASE FinalizePartial
  <2>1. PICK q \in OpenPartials : Retain(Closing(q))
    BY <1>20, FinalizeRetains
  <2>2. UNCHANGED <<audio, completed, conn, outgoing, snapshot, workerVars,
                        hand, unsent, seen, highest, dropped>>
    BY <1>20, FinalizeRetains
  <2>3. Closing(q) \in Event /\ Closing(q).kind = "commit"
    BY <1>20, ClosingFits, FinalizeRetains
  <2>4. produced.ended = produced'.ended
    <3>1. produced'.ended = (produced.ended \/ Closing(q).kind = "end")
      BY <2>1, <2>3, RetainEnds
    <3>2. QED
      BY <2>3, <3>1
  <2>5. QED
    BY <2>2, <2>4 DEF Rests
<1>21. CASE StartWorker
  BY <1>21 DEF StartWorker, StartWorkerFrom, Rests
<1>22. CASE UNCHANGED vars
  BY <1>22 DEF vars, Rests
<1>23. QED
  BY <1>1, <1>2, <1>3, <1>4, <1>5, <1>6, <1>7, <1>8, <1>9, <1>10, <1>11,
     <1>12, <1>13, <1>14, <1>15, <1>16, <1>17, <1>18, <1>19, <1>20, <1>21,
     <1>22 DEF Next, Worker, Transcribe, Handler, Reopen

-----------------------------------------------------------------------------
\* The commits of the worker, between two events.
LEMMA CommitFacts ==
  ASSUME TypeOK, WorkerFollows, stage # "stopped", NEW f \in commits
  PROVE  /\ f \in Yield /\ f.kind = "commit"
         /\ f.segment_id \in Indexes /\ f.segment_id \in Nat
         /\ f.revision \in Nat /\ f.end \in Nat
         /\ f.segment_id < index /\ f.start <= f.end /\ f.end <= window_start
         /\ f \notin hand => /\ f.end <= transcribed_through
                             /\ produced.states[f.segment_id] = "commit"
                             /\ produced.revisions[f.segment_id] = f.revision
<1>1. f \in Yield /\ f.kind = "commit"
  BY DEF WorkerFollows, TypeOK
<1>2. QED
  BY <1>1, YieldFields DEF WorkerFollows

\* What a window the worker transcribes leaves behind.
LEMMA SegmentFollows ==
  ASSUME LogInv, Working, stage = "listening",
         UNCHANGED <<storeVars, audio, conn, unsent>>,
         NEW kind \in {"partial", "commit"}, NEW to \in Times, Segment(kind, to),
         stage' # "stopped", position' = to, input_end' \in {to, input_end},
         input_end' = 0 \/ input_end' = to,
         position <= to, to <= audio
  PROVE  WorkerFollows' /\ HandFits'
<1>1. /\ TypeOK /\ WorkerFollows /\ hand = {} /\ unsent = {}
      /\ stage # "stopped" /\ Accounted
  BY DEF LogInv, Working
<1>2. /\ Continues(index, revision) /\ index <= next_event_sequence
      /\ revision > 0 /\ transcribed_through <= window_start
      /\ window_start <= position /\ position <= audio
      /\ \A q \in OpenPartials : log[q].segment_id = index
  BY <1>1 DEF WorkerFollows
<1>3. /\ index \in Indexes /\ index \in Nat /\ revision \in Nat
      /\ audio \in Nat /\ position \in Nat /\ window_start \in Nat /\ to \in Nat
      /\ transcribed_through \in Nat /\ next_event_sequence \in Nat
      /\ next_segment_index \in Nat
  BY <1>1, <1>2, Numbers DEF Indexes, Times
<1>4. PICK e \in Yield :
        /\ hand' = {e}
        /\ e.kind = kind /\ e.segment_id = index /\ e.revision = revision
        /\ window_start <= e.start /\ e.start <= e.end /\ e.end <= to
  BY <1>1, <1>3, YieldsTyped DEF Segment
<1>5. e.start \in Nat /\ e.end \in Nat /\ e.kind # "end"
      /\ transcribed_through <= e.start
  <2>1. e.kind # "end"
    BY <1>4
  <2>2. e.start \in Nat /\ e.end \in Nat
    BY <2>1, YieldFields
  <2>3. QED
    BY <1>2, <1>3, <1>4, <2>1, <2>2
<1>6. /\ UNCHANGED <<produced, next_event_sequence, transcribed_through,
                     next_segment_index, audio, conn, unsent, log>>
      /\ OpenPartials' = OpenPartials
      /\ \A s, n : Continues(s, n)' = Continues(s, n)
  BY SameLog
<1>7. \A f \in commits : /\ f \in Yield /\ f.segment_id < index
                         /\ f.segment_id \in Nat /\ f.end \in Nat
                         /\ f.start <= f.end /\ f.end <= window_start
                         /\ f.kind = "commit"
                         /\ f.end <= transcribed_through
                         /\ produced.states[f.segment_id] = "commit"
                         /\ produced.revisions[f.segment_id] = f.revision
  BY <1>1, CommitFacts
<1>a. Continues(e.segment_id, e.revision)'
  BY <1>2, <1>4, <1>6
<1>8. CASE kind = "partial"
  <2>1. /\ revision' = revision + 1 /\ index' = index /\ commits' = commits
        /\ window_start' = window_start
    BY <1>8 DEF Segment
  <2>2. WorkerFollows'
    <3>1. \A f, g \in commits' : f.segment_id = g.segment_id => f = g
      BY <1>1, <2>1 DEF WorkerFollows
    <3>2. \A f \in commits' :
            /\ f.segment_id < index' /\ f.start <= f.end
            /\ f.end <= window_start' /\ f.kind = "commit"
            /\ f \notin hand' => /\ f.end <= transcribed_through'
                                 /\ produced'.states[f.segment_id] = "commit"
                                 /\ produced'.revisions[f.segment_id] = f.revision
      BY <1>6, <1>7, <2>1
    <3>3. /\ revision' > 0 /\ transcribed_through' <= window_start'
          /\ window_start' <= position' /\ position' <= audio'
      BY <1>2, <1>3, <1>6, <2>1
    <3>4. ~\A f \in hand' : f.kind = "replace"
      BY <1>4
    <3>5. \A q \in OpenPartials' : log'[q].segment_id = index'
      BY <1>2, <1>6, <2>1
    <3>6. input_end' # 0 => input_end' = position'
      OBVIOUS
    <3>7. QED
      BY <3>1, <3>2, <3>3, <3>4, <3>5, <3>6 DEF WorkerFollows
  <2>3. HandFits'
    BY <1>1, <1>2, <1>3, <1>4, <1>5, <1>6, <1>8, <1>a, <2>1 DEF HandFits
  <2>4. QED
    BY <2>2, <2>3
<1>9. CASE kind = "commit"
  <2>1. /\ revision' = 1 /\ index' = index + 1 /\ commits' = commits \cup {e}
        /\ window_start' = to
    BY <1>4, <1>9 DEF Segment
  <2>2. WorkerFollows'
    <3>1. \A f, g \in commits' : f.segment_id = g.segment_id => f = g
      <4>1. \A f \in commits : f.segment_id # e.segment_id
        BY <1>3, <1>4, <1>7
      <4>2. QED
        BY <1>1, <2>1, <4>1 DEF WorkerFollows
    <3>2. \A f \in commits' :
            /\ f.segment_id < index' /\ f.start <= f.end
            /\ f.end <= window_start' /\ f.kind = "commit"
            /\ f \notin hand' => /\ f.end <= transcribed_through'
                                 /\ produced'.states[f.segment_id] = "commit"
                                 /\ produced'.revisions[f.segment_id] = f.revision
      BY <1>2, <1>3, <1>4, <1>5, <1>6, <1>7, <1>9, <2>1
    <3>3. /\ revision' > 0 /\ transcribed_through' <= window_start'
          /\ window_start' <= position' /\ position' <= audio'
      BY <1>2, <1>3, <1>6, <2>1
    <3>4. ~\A f \in hand' : f.kind = "replace"
      BY <1>4
    <3>5. \A q \in OpenPartials' :
            \E f \in hand' : f.kind = "commit" /\ log'[q].segment_id = f.segment_id
      BY <1>2, <1>4, <1>6, <1>9
    <3>6. input_end' # 0 => input_end' = position'
      OBVIOUS
    <3>7. QED
      BY <3>1, <3>2, <3>3, <3>4, <3>5, <3>6 DEF WorkerFollows
  <2>3. HandFits'
    BY <1>1, <1>2, <1>3, <1>4, <1>5, <1>6, <1>9, <1>a, <2>1 DEF HandFits
  <2>4. QED
    BY <2>2, <2>3
<1>10. QED
  BY <1>8, <1>9

\* Once the event is retained, the worker goes on from the log it is now in.
LEMMA AppendFollows ==
  ASSUME LogInv, AppendEvent
  PROVE  WorkerFollows' /\ HandFits'
<1>1. PICK e \in hand :
         /\ Retain(Payload(e)) /\ unsent' = {Payload(e)} /\ hand' = {}
         /\ UNCHANGED <<audio, completed, conn, outgoing, snapshot, workerVars,
                        seen, highest, dropped>>
  BY AppendRetains
<1> DEFINE P == Payload(e)
           s == e.segment_id
<1>2. /\ e \in Yield /\ hand = {e} /\ P \in Event /\ Fits(P)
      /\ P.kind = e.kind
      /\ e.kind # "end" => P.segment_id = s /\ P.revision = e.revision /\ P.end = e.end
      /\ LogFacts
  BY HandFitsLog, PayloadIsEvent DEF LogInv, LogFacts
<1>3. HandFits'
  BY <1>1 DEF HandFits
<1>4. WorkerFollows'
  <2>1. SUFFICES ASSUME stage # "stopped" PROVE WorkerFollows'
    BY <1>1 DEF WorkerFollows, workerVars
  <2>2. /\ WorkerFollows /\ TypeOK
        /\ e.kind \in {"partial", "commit", "replace"}
    BY <1>2, <2>1 DEF LogInv, HandFits, Yield
  <2>3. /\ s \in Indexes /\ s \in Nat /\ e.revision \in Nat /\ e.end \in Nat
        /\ index \in Nat /\ next_event_sequence \in Nat /\ window_start \in Nat
        /\ next_segment_index \in Nat /\ transcribed_through \in Nat
        /\ position \in Nat /\ audio \in Nat /\ revision \in Nat
        /\ produced \in Logged!Validator
    BY <1>2, <2>2, Numbers, YieldFields
  <2>4. /\ next_event_sequence' = next_event_sequence + 1
        /\ next_segment_index' = Later(next_segment_index, s + 1)
        /\ transcribed_through' =
             IF e.kind \in {"commit", "replace"}
             THEN Later(transcribed_through, e.end) ELSE transcribed_through
        /\ produced'.states = [produced.states EXCEPT ![s] = e.kind]
        /\ produced'.revisions = [produced.revisions EXCEPT ![s] = e.revision]
    BY <1>1, <1>2, <2>2, RetainEffects
  <2>5. UNCHANGED <<stage, position, input_end, window_start, index, revision,
                    last_end, commits, audio>>
    BY <1>1 DEF workerVars
  <2>6. /\ produced.states \in [Indexes -> {"new", "partial", "commit", "replace"}]
        /\ produced.revisions \in [Indexes -> Nat]
    BY <2>3, ValidatorFields
  <2>a. /\ produced'.states[s] = e.kind /\ produced'.revisions[s] = e.revision
        /\ \A t \in Indexes : t # s =>
             /\ produced'.states[t] = produced.states[t]
             /\ produced'.revisions[t] = produced.revisions[t]
    BY <2>3, <2>4, <2>6
  <2>b. /\ e.kind \in {"partial", "commit"} =>
             /\ next_segment_index' = s + 1
             /\ produced.states[s] \in {"new", "partial"}
        /\ e.kind = "replace" => s < next_segment_index
    BY <1>2, <2>2, <2>4, FitsSegment
  <2>7. Continues(index, revision)' /\ index' <= next_event_sequence'
    <3>1. CASE e.kind = "partial"
      <4>1. index = s /\ e.revision < revision /\ s <= next_event_sequence
        BY <1>2, <3>1 DEF LogInv, HandFits
      <4>2. /\ index + 1 = next_segment_index' /\ produced'.states[index] = "partial"
            /\ produced'.revisions[index] < revision
        BY <2>a, <2>b, <3>1, <4>1
      <4>3. QED
        BY <2>3, <2>4, <2>5, <4>1, <4>2 DEF Continues
    <3>2. CASE e.kind = "commit"
      <4>1. index = s + 1 /\ s <= next_event_sequence
        BY <1>2, <3>2 DEF LogInv, HandFits
      <4>2. QED
        BY <2>3, <2>4, <2>5, <2>b, <3>2, <4>1 DEF Continues
    <3>3. CASE e.kind = "replace"
      <4>1. Continues(index, revision) /\ index <= next_event_sequence
        BY <1>2, <2>1, <2>2, <3>3 DEF WorkerFollows
      <4>2. /\ produced.states[s] = "commit" /\ next_segment_index' = next_segment_index
        BY <1>2, <2>3, <2>4, <2>b, <3>3 DEF LogInv, HandFits, Later
      <4>3. CASE next_segment_index <= index
        BY <2>3, <2>4, <2>5, <4>1, <4>2, <4>3 DEF Continues
      <4>4. CASE /\ index + 1 = next_segment_index
                 /\ produced.states[index] = "partial"
                 /\ produced.revisions[index] < revision
        <5>1. index \in Indexes /\ index # s
          <6>1. index # s
            BY <4>2, <4>4
          <6>2. index <= MaxEvents /\ MaxEvents \in Nat
            BY <2>2, <2>3, <4>1, Numbers
          <6>3. QED
            BY <2>3, <6>1, <6>2 DEF Indexes
        <5>2. QED
          BY <2>3, <2>4, <2>5, <2>a, <4>1, <4>2, <4>4, <5>1 DEF Continues
      <4>5. QED
        BY <4>1, <4>3, <4>4 DEF Continues
    <3>4. QED
      BY <2>2, <3>1, <3>2, <3>3
  <2>8. transcribed_through <= transcribed_through'
        /\ transcribed_through' <= window_start' /\ transcribed_through' \in Nat
    <3>1. /\ e.kind = "commit" => e.end <= window_start
          /\ e.kind = "replace" => e.end <= transcribed_through
      BY <1>2 DEF LogInv, HandFits
    <3>2. transcribed_through <= window_start
      BY <2>1, <2>2 DEF WorkerFollows
    <3>3. QED
      BY <2>3, <2>4, <2>5, <3>1, <3>2 DEF Later
  <2>9. ASSUME NEW q \in OpenPartials'
        PROVE  log'[q].segment_id = index'
    <3>1. CASE e.kind = "partial"
      <4>1. q = next_event_sequence /\ log'[q] = P
        BY <1>1, <1>2, <2>2, <2>9, <3>1, OpenAfter, RetainLog
      <4>2. index = s
        BY <1>2, <3>1 DEF LogInv, HandFits
      <4>3. QED
        BY <1>2, <2>5, <3>1, <4>1, <4>2
    <3>2. CASE e.kind = "commit"
      BY <1>1, <1>2, <2>9, <3>2, OpenAfter
    <3>3. CASE e.kind = "replace"
      <4>1. q \in OpenPartials /\ log'[q] = log[q]
        BY <1>1, <1>2, <2>9, <3>3, OpenAfter
      <4>2. log[q].segment_id = index
        BY <1>2, <2>1, <2>2, <3>3, <4>1 DEF WorkerFollows
      <4>3. QED
        BY <2>5, <4>1, <4>2
    <3>4. QED
      BY <2>2, <3>1, <3>2, <3>3
  <2>10. ASSUME NEW f \in commits
         PROVE  /\ f.end <= transcribed_through'
                /\ produced'.states[f.segment_id] = "commit"
                /\ produced'.revisions[f.segment_id] = f.revision
    <3>0. f \in Yield /\ f.kind = "commit" /\ f.segment_id \in Indexes /\ f.end \in Nat
      BY <2>1, <2>2, CommitFacts
    <3>1. CASE f = e
      BY <2>3, <2>4, <2>a, <3>0, <3>1 DEF Later
    <3>2. CASE f # e
      <4>1. /\ f.end <= transcribed_through
            /\ produced.states[f.segment_id] = "commit"
            /\ produced.revisions[f.segment_id] = f.revision
        BY <1>2, <2>1, <2>2, <3>2, CommitFacts
      <4>2. f.segment_id # s
        <5>1. CASE e.kind = "replace"
          BY <1>2, <5>1 DEF LogInv, HandFits
        <5>2. CASE e.kind # "replace"
          BY <2>2, <2>b, <4>1, <5>2
        <5>3. QED
          BY <5>1, <5>2
      <4>3. QED
        BY <2>3, <2>8, <2>a, <3>0, <4>1, <4>2
    <3>3. QED
      BY <3>1, <3>2
  <2>11. QED
    BY <1>1, <2>1, <2>2, <2>5, <2>7, <2>8, <2>9, <2>10 DEF WorkerFollows
<1>5. QED
  BY <1>3, <1>4

\* The worker of a resumed session begins where the log has committed to.
LEMMA StartFollows ==
  ASSUME LogInv, StartWorker
  PROVE  WorkerFollows' /\ HandFits'
<1>1. /\ TypeOK /\ Accounted /\ hand = {} /\ conn = "finalizing"
  BY DEF LogInv, Rests, StartWorker, StartWorkerFrom
<1>2. /\ UNCHANGED <<storeVars, audio, hand>> /\ OpenPartials = {}
      /\ conn' = "starting" /\ position' = transcribed_through
      /\ window_start' = transcribed_through /\ input_end' = 0
      /\ index' = next_segment_index /\ revision' = 1 /\ commits' = {}
  BY DEF StartWorker, StartWorkerFrom
<1>3. next_segment_index \in Nat /\ transcribed_through \in Nat /\ audio \in Nat
      /\ next_segment_index <= next_event_sequence /\ transcribed_through <= audio
  BY <1>1, Numbers DEF Accounted
<1>4. /\ OpenPartials' = {} /\ Continues(index, revision)'
      /\ transcribed_through' = transcribed_through
      /\ next_event_sequence' = next_event_sequence
  BY <1>2, <1>3, SameLog DEF Continues
<1>5. WorkerFollows'
  BY <1>1, <1>2, <1>3, <1>4 DEF WorkerFollows
<1>6. HandFits'
  BY <1>1, <1>2 DEF HandFits
<1>7. QED
  BY <1>5, <1>6

\* The backend finds nothing: the worker has only moved on.
LEMMA QuietFollows ==
  ASSUME LogInv, Working, Quiet, UNCHANGED <<storeVars, audio, conn, unsent>>,
         stage' # "stopped", position' \in Nat, position <= position', position' <= audio,
         \/ input_end' = position'
         \/ input_end' = input_end /\ position' = position,
         window_start' \in {window_start, position'}
  PROVE  WorkerFollows' /\ HandFits'
<1>1. /\ TypeOK /\ WorkerFollows /\ hand = {} /\ hand' = {} /\ stage # "stopped"
      /\ UNCHANGED <<last_end, revision, index, commits, audio>>
  BY DEF LogInv, Working, Quiet
<1>2. /\ position \in Nat /\ window_start \in Nat /\ transcribed_through \in Nat
      /\ audio \in Nat
  BY <1>1, Numbers
<1>3. /\ UNCHANGED <<produced, next_event_sequence, transcribed_through,
                     next_segment_index, log>>
      /\ OpenPartials' = OpenPartials
      /\ \A s, n : Continues(s, n)' = Continues(s, n)
  BY SameLog
<1>4. /\ transcribed_through <= window_start /\ window_start <= position
      /\ Continues(index, revision) /\ index <= next_event_sequence /\ revision > 0
      /\ \A q \in OpenPartials : log[q].segment_id = index
      /\ input_end # 0 => input_end = position
      /\ \A e, f \in commits : e.segment_id = f.segment_id => e = f
  BY <1>1 DEF WorkerFollows
<1>5. /\ transcribed_through' <= window_start' /\ window_start' <= position'
      /\ position' <= audio' /\ window_start <= window_start'
      /\ input_end' # 0 => input_end' = position'
  BY <1>1, <1>2, <1>3, <1>4
<1>6. Continues(index, revision)' /\ index' <= next_event_sequence' /\ revision' > 0
  BY <1>1, <1>3, <1>4
<1>7. ASSUME NEW e \in commits
      PROVE  /\ e.segment_id < index' /\ e.start <= e.end /\ e.kind = "commit"
             /\ e.end <= window_start' /\ e.end <= transcribed_through'
             /\ produced'.states[e.segment_id] = "commit"
             /\ produced'.revisions[e.segment_id] = e.revision
  <2>1. /\ e.kind = "commit" /\ e.end \in Nat
        /\ e.segment_id < index /\ e.start <= e.end /\ e.end <= window_start
        /\ e.end <= transcribed_through
        /\ produced.states[e.segment_id] = "commit"
        /\ produced.revisions[e.segment_id] = e.revision
    BY <1>1, CommitFacts
  <2>2. e.end <= window_start'
    <3>1. window_start' \in Nat
      BY <1>2
    <3>2. QED
      BY <1>2, <1>5, <2>1, <3>1
  <2>3. QED
    BY <1>1, <1>3, <2>1, <2>2
<1>8. \A q \in OpenPartials' : log'[q].segment_id = index'
  BY <1>1, <1>3, <1>4
<1>9. WorkerFollows'
  BY <1>1, <1>4, <1>5, <1>6, <1>7, <1>8 DEF WorkerFollows
<1>10. HandFits'
  BY <1>1 DEF HandFits
<1>11. QED
  BY <1>9, <1>10

\* A window cut while the session listens or ends.
LEMMA WindowFollows ==
  ASSUME LogInv, Consume \/ FinishWindow
  PROVE  WorkerFollows' /\ HandFits'
<1>0. /\ TypeOK /\ WorkerFollows /\ position \in Nat /\ audio \in Nat
      /\ window_start \in Nat
  <2>1. TypeOK /\ WorkerFollows
    BY DEF LogInv
  <2>2. QED
    BY <2>1, Numbers
<1>1. CASE Consume
  <2> DEFINE to == position + 1
  <2>1. /\ Working /\ stage = "listening" /\ stage' # "stopped"
        /\ UNCHANGED <<storeVars, audio, conn, unsent>>
        /\ position' = to /\ input_end' = to /\ position < audio
    BY <1>1 DEF Consume
  <2>2. /\ to \in Nat /\ position <= to /\ to <= audio /\ to \in Times
    BY <1>0, <2>1, Numbers DEF Times
  <2>3. \/ Quiet /\ window_start' \in {window_start, to}
        \/ Segment("partial", to)
        \/ Segment("commit", to)
    BY <1>1 DEF Consume
  <2> HIDE DEF to
  <2>4. CASE Quiet /\ window_start' \in {window_start, to}
    BY <2>1, <2>2, <2>4, QuietFollows
  <2>5. CASE Segment("partial", to)
    BY <2>1, <2>2, <2>5, SegmentFollows
  <2>6. CASE Segment("commit", to)
    BY <2>1, <2>2, <2>6, SegmentFollows
  <2>7. QED
    BY <2>3, <2>4, <2>5, <2>6
<1>2. CASE FinishWindow
  <2>1. /\ Working /\ stage = "listening" /\ stage' # "stopped"
        /\ UNCHANGED <<storeVars, audio, conn, unsent>>
        /\ position' = position /\ input_end' = input_end /\ position = audio
    BY <1>2 DEF FinishWindow
  <2>2. CASE Quiet /\ UNCHANGED window_start
    BY <1>0, <2>1, <2>2, QuietFollows
  <2>3. CASE window_start < position /\ Segment("commit", position)
    <3>1. (input_end = position \/ input_end = 0) /\ position \in Times
      BY <1>0, <2>1 DEF WorkerFollows, TypeOK
    <3>2. QED
      BY <1>0, <2>1, <2>3, <3>1, SegmentFollows
  <2>4. QED
    BY <1>2, <2>2, <2>3 DEF FinishWindow
<1>3. QED
  BY <1>1, <1>2

LEMMA PostProcessFollows ==
  ASSUME LogInv, PostProcess
  PROVE  WorkerFollows' /\ HandFits'
<1>1. /\ Working /\ stage = "post" /\ stage' = stage /\ hand = {} /\ unsent = {}
      /\ TypeOK /\ WorkerFollows
      /\ UNCHANGED <<storeVars, audio, position, input_end, window_start, index,
                     revision, last_end, unsent>>
  BY DEF PostProcess, Working, LogInv
<1>2. PICK e \in commits :
        /\ commits' = commits \ {e}
        /\ \/ UNCHANGED hand
           \/ hand' = {[e EXCEPT !.kind = "replace", !.revision = @ + 1]}
  BY DEF PostProcess
<1> DEFINE r == [e EXCEPT !.kind = "replace", !.revision = @ + 1]
<1>3. /\ e \in Yield /\ e.kind = "commit" /\ e.segment_id \in Nat
      /\ e.revision \in Nat /\ e.end \in Nat
      /\ e.segment_id < index /\ e.start <= e.end /\ e.end <= window_start
      /\ e.end <= transcribed_through
      /\ produced.states[e.segment_id] = "commit"
      /\ produced.revisions[e.segment_id] = e.revision
  BY <1>1, CommitFacts
<1>4. /\ UNCHANGED <<produced, next_event_sequence, transcribed_through,
                     next_segment_index, log>>
      /\ OpenPartials' = OpenPartials
      /\ \A s, n : Continues(s, n)' = Continues(s, n)
  BY <1>1, SameLog
<1>5. /\ Continues(index, revision) /\ index <= next_event_sequence
      /\ revision > 0 /\ transcribed_through <= window_start
      /\ window_start <= position /\ position <= audio
      /\ input_end # 0 => input_end = position
      /\ \A q \in OpenPartials : log[q].segment_id = index
      /\ \A f, g \in commits : f.segment_id = g.segment_id => f = g
  BY <1>1 DEF WorkerFollows
<1>6. ASSUME NEW f \in commits'
      PROVE  /\ f.segment_id < index' /\ f.start <= f.end /\ f.kind = "commit"
             /\ f.end <= window_start' /\ f.end <= transcribed_through'
             /\ produced'.states[f.segment_id] = "commit"
             /\ produced'.revisions[f.segment_id] = f.revision
  BY <1>1, <1>2, <1>4, CommitFacts
<1>7. WorkerFollows'
  BY <1>1, <1>2, <1>4, <1>5, <1>6 DEF WorkerFollows
<1>8. HandFits'
  <2>1. CASE UNCHANGED hand
    BY <1>1, <2>1 DEF HandFits
  <2>2. CASE hand' = {r}
    <3>1. /\ r.kind = "replace" /\ r.segment_id = e.segment_id
          /\ r.revision = e.revision + 1 /\ r.start = e.start /\ r.end = e.end
      BY <1>3, ReplacementTyped
    <3>2. /\ index \in Nat /\ next_event_sequence \in Nat /\ position \in Nat
          /\ window_start \in Nat
      BY <1>1, Numbers
    <3> HIDE DEF r
    <3>3. /\ r.segment_id <= next_event_sequence /\ r.end <= position
          /\ produced.revisions[r.segment_id] < r.revision
      BY <1>3, <1>5, <3>1, <3>2
    <3>4. \A f \in commits' : f.segment_id # r.segment_id
      BY <1>2, <1>5, <3>1
    <3>5. QED
      BY <1>1, <1>3, <1>4, <2>2, <3>1, <3>3, <3>4 DEF HandFits
  <2>3. QED
    BY <1>2, <2>1, <2>2
<1>9. QED
  BY <1>7, <1>8

LEMMA EndFollows ==
  ASSUME LogInv, EndTranscript
  PROVE  WorkerFollows' /\ HandFits'
<1>1. stage' = "stopped" /\ Working /\ stage = "post"
      /\ UNCHANGED <<storeVars, audio, unsent, conn, input_end, revision>>
      /\ unsent = {} /\ hand = {}
  BY DEF EndTranscript, Working
<1>2. WorkerFollows'
  BY <1>1 DEF WorkerFollows
<1>3. CASE conn = "closing"
  <2>1. hand' = {}
    BY <1>1, <1>3 DEF EndTranscript
  <2>2. QED
    BY <1>2, <2>1 DEF HandFits
<1>4. CASE conn # "closing"
  <2> DEFINE e == [kind |-> "end", start |-> Later(last_end, input_end)]
  <2>1. hand' = {e} /\ completed' = TRUE /\ e.kind = "end"
    BY <1>4 DEF EndTranscript
  <2>2. /\ conn = "ending" /\ position = audio /\ WorkerFollows /\ Accounted /\ TypeOK
    BY <1>1, <1>4 DEF LogInv, Rests
  <2>3. /\ produced.max_end \in Nat /\ last_end \in Nat /\ input_end \in Nat
        /\ audio \in Nat /\ revision \in Nat /\ index \in Nat
    BY <2>2, Numbers, ValidatorFields
  <2>4. input_end = 0 \/ input_end = audio
    BY <1>1, <2>2 DEF WorkerFollows
  <2>5. produced.max_end <= e.start \/ input_end = 0
    BY <2>2, <2>3, <2>4 DEF Accounted, Later
  <2>6. ASSUME NEW q \in OpenPartials
        PROVE  revision > 1
    <3>1. /\ log[q].segment_id = index /\ Continues(index, revision)
      BY <1>1, <2>2 DEF WorkerFollows
    <3>2. /\ log[q].segment_id + 1 = next_segment_index /\ log[q].revision > 0
      BY DEF LogInv, OpenIsLatest
    <3>3. produced.revisions[index] < revision
      BY <2>2, <2>3, <3>1, <3>2, Numbers DEF Continues
    <3>4. produced.revisions[index] = log[q].revision
      <4>1. q \in DOMAIN log /\ log[q].kind # "end"
            /\ \A r \in EventsOf(log[q].segment_id) : r <= q
        BY DEF OpenPartials, EventsOf
      <4>2. QED
        BY <3>1, <4>1 DEF LogInv, LogInOrder
    <3>5. log[q].revision \in Nat
      BY <2>2, EventFields DEF OpenPartials, TypeOK
    <3>6. QED
      BY <2>3, <3>2, <3>3, <3>4, <3>5
  <2> HIDE DEF e
  <2>7. produced' = produced /\ OpenPartials' = OpenPartials
    BY <1>1, SameLog
  <2>8. HandFits'
    BY <1>1, <2>1, <2>5, <2>6, <2>7 DEF HandFits
  <2>9. QED
    BY <1>2, <2>8
<1>5. QED
  BY <1>3, <1>4

\* The connection changes and the worker does not.
LEMMA HandlerFollows ==
  ASSUME LogInv, UNCHANGED <<storeVars, workerVars, hand>>,
         audio' \in {audio, audio + 1},
         completed' = completed \/ completed' = TRUE,
         unsent' \in {unsent, {}}
  PROVE  WorkerFollows' /\ HandFits'
<1>1. /\ TypeOK /\ WorkerFollows /\ HandFits
      /\ UNCHANGED <<hand, stage, position, input_end, window_start, index,
                     revision, last_end, commits>>
  BY DEF LogInv, workerVars
<1>2. position \in Nat /\ audio \in Nat /\ completed \in BOOLEAN
  BY <1>1, Numbers DEF TypeOK
<1>3. /\ UNCHANGED <<produced, next_event_sequence, transcribed_through,
                     next_segment_index, log>>
      /\ OpenPartials' = OpenPartials
      /\ \A s, n : Continues(s, n)' = Continues(s, n)
  BY SameLog
<1>4. HandFits'
  BY <1>1, <1>2, <1>3 DEF HandFits
<1>5. stage # "stopped" => position' <= audio'
  BY <1>1, <1>2 DEF WorkerFollows
<1>6. WorkerFollows'
  BY <1>1, <1>3, <1>5 DEF WorkerFollows
<1>7. QED
  BY <1>4, <1>6

LEMMA WorkerNext ==
  ASSUME LogInv, [Next]_vars
  PROVE  WorkerFollows' /\ HandFits'
<1> USE DEF workerVars, clientVars
<1>1. CASE Consume
  BY <1>1, WindowFollows
<1>2. CASE FinishWindow
  BY <1>2, WindowFollows
<1>3. CASE Break
  <2>1. Quiet /\ Working /\ stage' # "stopped"
        /\ UNCHANGED <<storeVars, audio, conn, unsent, position, input_end, window_start>>
    BY <1>3 DEF Break, Quiet
  <2>2. position \in Nat
    BY Numbers DEF LogInv
  <2>3. position <= audio /\ position <= position
    BY <2>1, <2>2 DEF LogInv, WorkerFollows, Working
  <2>4. QED
    BY <2>1, <2>2, <2>3, QuietFollows
<1>4. CASE PostProcess
  BY <1>4, PostProcessFollows
<1>5. CASE EndTranscript
  BY <1>5, EndFollows
<1>6. CASE AppendEvent
  BY <1>6, AppendFollows
<1>7. CASE QueueEvent
  BY <1>7, HandlerFollows DEF QueueEvent
<1>8. CASE WorkerFails
  BY <1>8 DEF WorkerFails, WorkerFollows, HandFits
<1>9. CASE Ready
  BY <1>9, HandlerFollows DEF Ready
<1>10. CASE ReplayRaises
  BY <1>10, HandlerFollows DEF ReplayRaises
<1>11. CASE QueueReplay
  BY <1>11, HandlerFollows DEF QueueReplay
<1>12. CASE ReplayDone
  BY <1>12, HandlerFollows DEF ReplayDone
<1>13. CASE AcceptAudio
  BY <1>13, HandlerFollows DEF AcceptAudio
<1>14. CASE ClientEnds
  BY <1>14, HandlerFollows DEF ClientEnds
<1>15. CASE ClientCancels
  BY <1>15, HandlerFollows DEF ClientCancels
<1>16. CASE Deliver
  BY <1>16, HandlerFollows DEF Deliver
<1>17. CASE Disconnect
  BY <1>17, HandlerFollows DEF Disconnect
<1>18. CASE Release
  BY <1>18, HandlerFollows DEF Release
<1>19. CASE Resume
  BY <1>19, HandlerFollows DEF Resume
<1>20. CASE FinalizePartial
  <2>1. /\ stage = "stopped" /\ stage' = "stopped" /\ hand = {} /\ hand' = {}
    BY <1>20, FinalizeRetains DEF LogInv, Rests
  <2>2. QED
    BY <2>1 DEF WorkerFollows, HandFits
<1>21. CASE StartWorker
  BY <1>21, StartFollows
<1>22. CASE UNCHANGED vars
  BY <1>22, HandlerFollows DEF vars
<1>23. QED
  BY <1>1, <1>2, <1>3, <1>4, <1>5, <1>6, <1>7, <1>8, <1>9, <1>10, <1>11,
     <1>12, <1>13, <1>14, <1>15, <1>16, <1>17, <1>18, <1>19, <1>20, <1>21,
     <1>22 DEF Next, Worker, Transcribe, Handler, Reopen

-----------------------------------------------------------------------------
LEMMA InitLog == Init => LogInv
<1> SUFFICES ASSUME Init PROVE LogInv
  OBVIOUS
<1>1. /\ log = << >> /\ next_event_sequence = 0 
  BY DEF Init
<1>2. Logged!NewValidator \in Logged!Validator
  BY DEF Logged!NewValidator, Logged!Validator, Logged!None
<1>3. DOMAIN log = {}
  BY <1>1
<1>4. TypeOK
  <2>1. /\ log \in [DOMAIN log -> Event]
        /\ DOMAIN log \subseteq 0..(next_event_sequence - 1)
    BY <1>3
  <2>2. produced \in Logged!Validator /\ seen \in Logged!Validator
    BY <1>2 DEF Init
  <2>3. outgoing \in Seq(Event) /\ snapshot = {} /\ commits = {} /\ hand = {}
        /\ unsent = {} /\ missing = {} /\ dropped = {} /\ refused = {}
        /\ early = {} /\ highest \in Int
    BY DEF Init
  <2>4. /\ next_event_sequence \in 0..MaxEvents /\ next_segment_index \in Nat
        /\ transcribed_through \in Times /\ audio \in Times
        /\ position \in Times /\ input_end \in Times /\ window_start \in Times
        /\ last_end \in Times /\ index \in Nat /\ revision \in Nat
    BY LogAssumption DEF Init, Times
  <2>5. completed \in BOOLEAN /\ conn \in Conn
        /\ stage \in {"listening", "post", "stopped"}
    BY DEF Init, Conn
  <2>6. QED
    BY <2>1, <2>2, <2>3, <2>4, <2>5 DEF TypeOK
<1>5. Accounted
  BY <1>1, LogAssumption DEF Init, Accounted, Logged!NewValidator, Logged!None, Indexes
<1>6. OpenIsLatest /\ LogInOrder /\ HandFits /\ OpenPartials = {}
  <2>1. OpenPartials = {} /\ \A s \in Indexes : EventsOf(s) = {}
    BY <1>3 DEF OpenPartials, EventsOf
  <2>2. QED
    BY <1>1, <1>3, <2>1 DEF OpenIsLatest, LogInOrder, HandFits, Init
<1>7. Rests
  BY DEF Init, Rests, Logged!NewValidator
<1>8. WorkerFollows
  BY <1>1, <1>6 DEF Init, WorkerFollows, Continues
<1>9. QED
  BY <1>4, <1>5, <1>6, <1>7, <1>8 DEF LogInv

\* The invariant of the log: what its validator knows is what the counters say,
\* and what the worker will yield goes on from it, whatever the backend finds,
\* and whenever the client cancels, disconnects or resumes.
THEOREM LogInvariant == Spec => []LogInv
<1>1. LogInv /\ [Next]_vars => LogInv'
  <2> SUFFICES ASSUME LogInv, [Next]_vars PROVE LogInv'
    OBVIOUS
  <2>1. TypeOK' /\ Accounted' /\ OpenIsLatest' /\ LogInOrder'
    BY TypedNext, StoreNext
  <2>2. Rests' /\ WorkerFollows' /\ HandFits'
    BY RestsNext, WorkerNext
  <2>3. QED
    BY <2>1, <2>2 DEF LogInv
<1>2. QED
  BY <1>1, InitLog, PTL DEF Spec

\* The validator refuses nothing the worker yields but an end.
LEMMA AppendAccepted ==
  ASSUME LogInv, AppendEvent
  PROVE  \/ Logged!Accept
         \/ EndIsRefused /\ produced' = Logged!After(produced, LastLogged')
<1>1. PICK e \in hand : Retain(Payload(e)) /\ audio' = audio
  BY AppendRetains
<1> DEFINE P == Payload(e)
<1>2. /\ P \in Event /\ Fits(P) /\ LogFacts /\ e \in Yield /\ hand = {e}
  BY HandFitsLog DEF LogInv, LogFacts
<1>3. /\ LastLogged' = P /\ produced' = Logged!After(produced, P)
      /\ produced \in Logged!Validator /\ audio \in Nat
      /\ P.kind = e.kind /\ P.start = e.start /\ P.acknowledged_sequence = audio - 1
  BY <1>1, <1>2, RetainEffects, PayloadIsEvent, Numbers DEF LogFacts, Retain
<1>4. P.acknowledged_sequence = -1
        \/ produced.last_acknowledged_sequence <= P.acknowledged_sequence
  BY <1>2, <1>3 DEF LogFacts, Accounted
<1> HIDE DEF P
<1>5. CASE P.kind # "end"
  BY <1>2, <1>3, <1>4, <1>5, FitsAccepted DEF Logged!Accept, Event
<1>6. CASE P.kind = "end"
  <2>1. Logged!AcceptsOrder(produced, P)
    <3>1. ~produced.ended
      BY <1>2 DEF Fits
    <3>2. P.sequence = produced.last_sequence + 1
      BY <1>2, Numbers DEF Fits, LogFacts, Accounted
    <3>3. P.acknowledged_sequence # -1 =>
            P.acknowledged_sequence >= produced.last_acknowledged_sequence
      BY <1>2, <1>3, <1>4, ValidatorFields, EventFields
    <3>4. QED
      BY <3>1, <3>2, <3>3 DEF Logged!AcceptsOrder, Logged!None
  <2>2. CASE revision > 1 \/ input_end = 0 \/ Orphaned
    BY <1>3, <1>6, <2>1, <2>2 DEF EndIsRefused
  <2>3. CASE ~(revision > 1) /\ input_end # 0 /\ ~Orphaned
    <3>1. OpenPartials = {} /\ produced.max_end <= P.start
      BY <1>2, <1>3, <1>6, <2>3 DEF LogInv, HandFits
    <3>2. ASSUME NEW s \in Indexes, produced.states[s] = "partial"
          PROVE  FALSE
      <4>1. EventsOf(s) = {}
        BY <3>1, <3>2 DEF LogInv, LogInOrder
      <4>2. \A q \in DOMAIN log : log[q].kind = "end" \/ log[q].segment_id # s
        BY <4>1 DEF EventsOf
      <4>3. QED
        BY <2>3, <3>2, <4>2 DEF Orphaned
    <3>3. Logged!AcceptsEnd(produced, P)
      <4>1. P.start >= produced.max_end
        BY <1>2, <1>3, <3>1, EventFields, ValidatorFields
      <4>2. QED
        BY <3>2, <4>1 DEF Logged!AcceptsEnd
    <3>4. Logged!Accepts(produced, P)
      BY <1>6, <2>1, <3>3 DEF Logged!Accepts
    <3>5. QED
      BY <1>2, <1>3, <3>4 DEF Logged!Accept, Event
  <2>4. QED
    BY <2>2, <2>3
<1>7. QED
  BY <1>5, <1>6

\* Nor a recovery commit, but when replaces came after its partial.
LEMMA FinalizeAccepted ==
  ASSUME LogInv, FinalizePartial
  PROVE  \/ Logged!Accept
         \/ CommitIsRefused /\ produced' = Logged!After(produced, LastLogged')
<1>1. PICK q \in OpenPartials : Retain(Closing(q))
  BY FinalizeRetains
<1>2. conn = "finalizing" /\ audio' = audio
  BY FinalizeRetains
<1> DEFINE C == Closing(q)
<1>3. /\ C \in Event /\ Fits(C) /\ C.kind = "commit" /\ LogFacts /\ TypeOK
      /\ C.sequence = next_event_sequence
      /\ C.acknowledged_sequence = log[q].acknowledged_sequence
  BY <1>2, ClosingFits, ClosingFields DEF LogInv, LogFacts
<1> HIDE DEF C
<1>4. /\ LastLogged' = C /\ produced' = Logged!After(produced, C)
      /\ produced \in Logged!Validator /\ next_event_sequence \in Nat
  BY <1>1, <1>3, RetainEffects, Numbers DEF Retain, C
<1>5. CASE Logged!Accepts(produced, C)
  BY <1>3, <1>4, <1>5 DEF Logged!Accept, Event
<1>6. CASE ~Logged!Accepts(produced, C)
  <2>1. /\ ~(C.acknowledged_sequence = -1)
        /\ ~(produced.last_acknowledged_sequence <= C.acknowledged_sequence)
    BY <1>3, <1>6, FitsAccepted
  <2>2. q # next_event_sequence - 1
    <3>1. SUFFICES ASSUME q = next_event_sequence - 1 PROVE FALSE
      OBVIOUS
    <3>2. C.acknowledged_sequence \in {-1, produced.last_acknowledged_sequence}
      BY <1>3, <3>1 DEF LogFacts, OpenIsLatest, Logged!None
    <3>3. QED
      BY <1>4, <2>1, <3>2, ValidatorFields
  <2>3. /\ q \in DOMAIN log /\ q \in 0..(next_event_sequence - 1)
    BY <1>3 DEF OpenPartials, TypeOK
  <2> DEFINE last == next_event_sequence - 1
  <2>4. last \in DOMAIN log /\ last > q /\ LastLogged = log[last]
    BY <1>4, <2>2, <2>3 DEF LogFacts, LogInOrder, LastLogged, LogInv
  <2>5. log[last].kind \in {"replace", "end"}
    BY <1>3, <2>4 DEF LogFacts, OpenIsLatest
  <2>6. log[last].kind # "end"
    BY <1>3, <2>4 DEF LogFacts, LogInOrder, Fits
  <2>7. Logged!AcceptsSegment(produced, C)
    BY <1>3, FitsAcceptedSegment
  <2>8. QED
    BY <1>2, <1>3, <1>4, <2>4, <2>5, <2>6, <2>7 DEF CommitIsRefused
<1>7. QED
  BY <1>5, <1>6

LEMMA LoggedStep ==
  ASSUME LogInv, [Next]_vars
  PROVE  /\ [\/ Logged!Accept
             \/ /\ EndIsRefused \/ CommitIsRefused
                /\ produced' = Logged!After(produced, LastLogged')
            ]_<<produced, LastLogged>>
         /\ \A q \in DOMAIN log' \ DOMAIN log :
              log'[q].kind = "commit" => log'[q].start >= transcribed_through
<1>1. CASE UNCHANGED storeVars
  BY <1>1, SameLog
<1>2. CASE AppendEvent \/ FinalizePartial
  <2>1. PICK e \in Event : Fits(e) /\ Retain(e)
    BY <1>2, RetainSteps
  <2>2. TypeOK
    BY DEF LogInv
  <2>3. ASSUME NEW q \in DOMAIN log' \ DOMAIN log, log'[q].kind = "commit"
        PROVE  log'[q].start >= transcribed_through
    <3>1. log'[q] = e
      BY <2>1, <2>2, <2>3, RetainLog
    <3>2. transcribed_through <= e.start
      BY <2>1, <2>3, <3>1 DEF Fits
    <3>3. QED
      BY <2>2, <3>1, <3>2, EventFields, Numbers
  <2>4. QED
    BY <1>2, <2>3, AppendAccepted, FinalizeAccepted
<1>3. QED
  BY <1>1, <1>2, StoreSteps

\* What the session logs is a legal event stream over all its connections, but
\* for the ends and the recovery commits the validator is known to refuse.
THEOREM LogRefinesProtocol == Spec => LogFollowsProtocol
<1>1. Init => Logged!Init
  BY DEF Init, Logged!Init, LastLogged, NoEvent, Logged!NoEvent
<1>2. LogInv /\ [Next]_vars =>
        [\/ Logged!Accept
         \/ /\ EndIsRefused \/ CommitIsRefused
            /\ produced' = Logged!After(produced, LastLogged')
        ]_<<produced, LastLogged>>
  BY LoggedStep
<1>3. Spec => []LogInv
  BY LogInvariant
<1>4. QED
  BY <1>1, <1>2, <1>3, PTL DEF Spec, LogFollowsProtocol

\* No connection commits audio that an earlier one had committed.
THEOREM CommitsOnce == Spec => NoAudioCommittedTwice
<1>1. LogInv /\ [Next]_vars =>
        [\A q \in DOMAIN log' \ DOMAIN log :
           log'[q].kind = "commit" => log'[q].start >= transcribed_through]_vars
  BY LoggedStep
<1>2. Spec => []LogInv
  BY LogInvariant
<1>3. QED
  BY <1>1, <1>2, PTL DEF Spec, NoAudioCommittedTwice

-----------------------------------------------------------------------------
(* The delivery.                                                           *)

LEMMA LeastNumber ==
  ASSUME NEW S \in SUBSET Nat, S # {}
  PROVE  \E m \in S : \A r \in S : m <= r
<1> DEFINE R == {ss \in Nat \X Nat : ss[1] < ss[2]}
<1>1. IsWellFoundedOn(R, Nat)
  BY NatLessThanWellFounded DEF OpToRel
<1> HIDE DEF R
<1>2. PICK m \in S : \A r \in S : ~(<<r, m>> \in R)
  BY <1>1, WFMin
<1>3. ASSUME NEW r \in S, r < m PROVE FALSE
  <2>1. <<r, m>> \in R
    BY <1>3 DEF R
  <2>2. QED
    BY <1>2, <2>1
<1>4. QED
  BY <1>3

\* The retained events are those from the first one on.
LEMMA RetainedFromFirst ==
  ASSUME TypeOK, LogInOrder, next_event_sequence > 0
  PROVE  /\ DOMAIN log = first_retained_event_sequence..(next_event_sequence - 1)
         /\ first_retained_event_sequence \in Int
<1> DEFINE first == first_retained_event_sequence
<1>1. /\ DOMAIN log \subseteq 0..(next_event_sequence - 1)
      /\ next_event_sequence - 1 \in DOMAIN log /\ DOMAIN log \in SUBSET Nat
      /\ DOMAIN log # {} /\ next_event_sequence \in Nat
  BY LogAssumption DEF TypeOK, LogInOrder
<1>2. \E m \in DOMAIN log : \A r \in DOMAIN log : m <= r
  BY <1>1, LeastNumber
<1>3. first \in DOMAIN log /\ \A r \in DOMAIN log : first <= r
  <2>1. first = CHOOSE m \in DOMAIN log : \A r \in DOMAIN log : m <= r
    BY <1>1 DEF first_retained_event_sequence
  <2>2. QED
    BY <1>2, <2>1
<1>4. first..(next_event_sequence - 1) \subseteq DOMAIN log
  BY <1>3 DEF LogInOrder
<1>5. DOMAIN log \subseteq first..(next_event_sequence - 1)
  BY <1>1, <1>3
<1>6. DOMAIN log = first..(next_event_sequence - 1)
  BY <1>4, <1>5
<1>7. first \in Int
  BY <1>1, <1>3
<1>8. QED
  BY <1>6, <1>7

LEMMA QueueTypes ==
  ASSUME TypeOK
  PROVE  /\ next_event_sequence \in Nat /\ highest \in Int
         /\ Len(outgoing) \in Nat /\ DOMAIN outgoing = 1..Len(outgoing)
         /\ \A i \in DOMAIN outgoing :
              outgoing[i] \in Event /\ outgoing[i].sequence \in Nat
         /\ \A e \in snapshot \cup unsent : e \in Event /\ e.sequence \in Nat
         /\ \A q \in missing \cup early : q \in Nat
<1>1. /\ outgoing \in Seq(Event) /\ snapshot \cup unsent \subseteq Event
      /\ missing \cup early \subseteq Nat /\ highest \in Int
      /\ next_event_sequence \in Nat
  BY LogAssumption DEF TypeOK
<1>2. Len(outgoing) \in Nat /\ DOMAIN outgoing = 1..Len(outgoing)
      /\ \A i \in DOMAIN outgoing : outgoing[i] \in Event
  BY <1>1
<1>3. QED
  BY <1>1, <1>2, EventFields

\* A durable event the client lacks, and that no early event is after.
Free(q) == q \in missing /\ \A e \in early : e <= q

LEMMA FreeIsDue == NothingSkipped <=> \A q : Free(q) => Due(q)
BY DEF NothingSkipped, Free

\* The worker transcribes: nothing moves towards the client.
LEMMA TranscribeDelivers ==
  ASSUME LogInv, DeliveryInv, Working,
         UNCHANGED <<storeVars, conn, outgoing, snapshot, unsent, clientVars,
                     dropped>>
  PROVE  DeliveryInv'
<1>1. UNCHANGED <<next_event_sequence, early, conn, outgoing, snapshot, unsent,
                  highest, missing, dropped>>
  BY DEF storeVars, clientVars
<1>2. SentIsLogged'
  BY <1>1 DEF DeliveryInv, SentIsLogged, Connected
<1>3. ASSUME NEW q, Free(q)'
      PROVE  Due(q)'
  <2>1. Due(q)
    BY <1>1, <1>3, FreeIsDue DEF DeliveryInv, Free
  <2>2. Connected => Pending(q)
    BY <2>1 DEF Due, LostWithWorker, Working
  <2>3. QED
    BY <1>1, <2>1, <2>2 DEF Due, Pending, Connected
<1>4. NothingSkipped'
  BY <1>3 DEF NothingSkipped, Free
<1>5. QED
  BY <1>2, <1>4 DEF DeliveryInv

\* What is retained last comes last, unless it is early.
LEMMA AppendDelivers ==
  ASSUME LogInv, DeliveryInv, AppendEvent
  PROVE  DeliveryInv'
<1>1. PICK e \in hand :
         /\ Retain(Payload(e)) /\ unsent' = {Payload(e)} /\ hand' = {}
         /\ UNCHANGED <<audio, completed, conn, outgoing, snapshot, workerVars,
                        seen, highest, dropped>>
  BY AppendRetains
<1> DEFINE P == Payload(e)
           next == next_event_sequence
<1>2. /\ TypeOK /\ P \in Event /\ P.sequence = next /\ unsent = {} /\ hand # {}
  BY HandFitsLog DEF LogInv, Fits, HandFits
<1> HIDE DEF P
<1>3. /\ next' = next + 1 /\ unsent' = {P}
      /\ missing' = IF Durable(P) THEN missing \cup {next} ELSE missing
      /\ early' = IF conn \in {"starting", "replaying"}
                  THEN early \cup {next} ELSE early
      /\ UNCHANGED <<conn, outgoing, snapshot, highest, dropped>>
  BY <1>1, <1>2 DEF Retain, P
<1>4. /\ next \in Nat /\ highest \in Int
      /\ \A i \in DOMAIN outgoing : outgoing[i].sequence \in Nat
      /\ \A q \in missing : q \in Nat
  BY <1>2, QueueTypes
<1>5. SentIsLogged
  BY DEF DeliveryInv
<1>6. SentIsLogged'
  <2>1. /\ highest' \in -1..(next' - 1)
        /\ \A i \in DOMAIN outgoing' : outgoing'[i].sequence < next'
        /\ \A f \in snapshot' : f.sequence < next'
    BY <1>2, <1>3, <1>4, <1>5, QueueTypes DEF SentIsLogged
  <2>2. P.sequence = next' - 1 /\ (Durable(P) \/ P.sequence \notin missing')
    BY <1>2, <1>3, <1>4, <1>5 DEF SentIsLogged
  <2>3. conn' \in {"starting", "replaying"} => P.sequence \in early'
    BY <1>2, <1>3
  <2>4. missing' \subseteq 0..(next' - 1) /\ dropped' \subseteq 0..(next' - 1)
    BY <1>3, <1>4, <1>5 DEF SentIsLogged
  <2>5. /\ conn' # "replaying" => snapshot' = {}
        /\ ~Connected' /\ conn' # "starting" => outgoing' = << >>
    BY <1>3, <1>5 DEF SentIsLogged, Connected
  <2>6. QED
    BY <1>3, <2>1, <2>2, <2>3, <2>4, <2>5 DEF SentIsLogged
<1>7. ASSUME NEW q, Free(q)'
      PROVE  Due(q)'
  <2>1. CASE q = next
    <3>1. highest < q /\ \A i \in DOMAIN outgoing : outgoing[i].sequence < q
      BY <1>4, <1>5, <2>1 DEF SentIsLogged
    <3>2. Pending(q)'
      BY <1>2, <1>3, <2>1 DEF Pending
    <3>3. ASSUME NEW i \in DOMAIN outgoing PROVE ~(outgoing[i].sequence > q)
      BY <1>4, <2>1, <3>1
    <3>4. QED
      BY <1>3, <3>1, <3>2, <3>3 DEF Due
  <2>2. CASE q # next
    <3>1. Free(q)
      BY <1>3, <1>7, <2>2 DEF Free
    <3>2. Due(q) /\ (Connected => Pending(q))
      BY <1>2, <3>1, FreeIsDue DEF DeliveryInv, Due, LostWithWorker
    <3>3. Connected => Pending(q)'
      BY <1>2, <1>3, <3>2 DEF Pending
    <3>4. QED
      BY <1>3, <3>2, <3>3 DEF Due, Connected
  <2>3. QED
    BY <2>1, <2>2
<1>8. NothingSkipped'
  BY <1>7 DEF NothingSkipped, Free
<1>9. QED
  BY <1>6, <1>8 DEF DeliveryInv

LEMMA QueueDelivers ==
  ASSUME LogInv, DeliveryInv, QueueEvent
  PROVE  DeliveryInv'
<1>1. PICK e \in unsent :
         \/ /\ conn # "closing" /\ outgoing' = Append(outgoing, e)
            /\ UNCHANGED dropped
         \/ /\ conn # "closing" /\ ~Durable(e) /\ UNCHANGED outgoing
            /\ dropped' = dropped \cup {e.sequence}
         \/ conn = "closing" /\ UNCHANGED <<outgoing, dropped>>
  BY DEF QueueEvent
<1>2. /\ unsent' = {}
      /\ UNCHANGED <<next_event_sequence, early, stage, hand, conn, snapshot,
                     highest, missing>>
  BY DEF QueueEvent, storeVars, workerVars, clientVars
<1>3. /\ TypeOK /\ SentIsLogged /\ e \in Event /\ e.sequence \in Nat
      /\ next_event_sequence \in Nat
  BY QueueTypes DEF DeliveryInv, LogInv
<1>4. /\ unsent = {e} /\ e.sequence = next_event_sequence - 1
      /\ Durable(e) \/ e.sequence \notin missing
      /\ conn \in {"starting", "replaying"} => e.sequence \in early
  BY <1>3 DEF SentIsLogged
<1>5. conn \in {"starting", "replaying", "serving", "ending", "closing"}
  BY <1>3, <1>4 DEF LogInv, Rests, TypeOK, Conn
<1>6. ASSUME NEW q, Free(q)'
      PROVE  Free(q) /\ Due(q) /\ (Connected => Pending(q)) /\ q \in Nat
  <2>1. Free(q) /\ q \in Nat
    BY <1>2, <1>3, <1>6, QueueTypes DEF Free
  <2>2. Due(q)
    BY <2>1, FreeIsDue DEF DeliveryInv
  <2>3. ~LostWithWorker(q)
    BY <1>4 DEF LostWithWorker
  <2>4. QED
    BY <2>1, <2>2, <2>3 DEF Due
<1>7. CASE conn # "closing" /\ outgoing' = Append(outgoing, e) /\ UNCHANGED dropped
  <2>1. /\ DOMAIN outgoing = 1..Len(outgoing) /\ Len(outgoing) \in Nat
        /\ DOMAIN outgoing' = 1..(Len(outgoing) + 1)
        /\ outgoing'[Len(outgoing) + 1] = e
        /\ \A i \in DOMAIN outgoing : outgoing'[i] = outgoing[i]
    BY <1>3, <1>7, AppendProperties DEF TypeOK
  <2>2. \A i \in DOMAIN outgoing' :
          \/ i \in DOMAIN outgoing /\ outgoing'[i] = outgoing[i]
          \/ i = Len(outgoing) + 1 /\ outgoing'[i] = e
    BY <2>1
  <2>3. SentIsLogged'
    <3>1. \A i \in DOMAIN outgoing' : outgoing'[i].sequence < next_event_sequence
      BY <1>3, <1>4, <2>2 DEF SentIsLogged
    <3>2. Connected \/ conn = "starting"
      BY <1>5, <1>7 DEF Connected
    <3>3. QED
      BY <1>2, <1>3, <1>7, <3>1, <3>2 DEF SentIsLogged, Connected
  <2>4. ASSUME NEW q, Free(q)'
        PROVE  Due(q)'
    <3>1. Free(q) /\ Due(q) /\ (Connected => Pending(q)) /\ q \in Nat
      BY <1>6, <2>4
    <3>2. ASSUME Pending(q) PROVE Pending(q)'
      <4>1. CASE \E i \in DOMAIN outgoing : outgoing[i].sequence = q
        BY <2>1, <4>1 DEF Pending
      <4>2. CASE e.sequence = q
        BY <2>1, <4>2 DEF Pending
      <4>3. CASE \E f \in snapshot : f.sequence = q
        BY <1>2, <4>3 DEF Pending
      <4>4. QED
        BY <1>4, <3>2, <4>1, <4>2, <4>3 DEF Pending
    <3>3. ASSUME e.sequence > q
          PROVE  \E j \in 1..Len(outgoing) : outgoing[j].sequence = q
      <4>1. e.sequence \notin early
        BY <1>3, <3>1, <3>3, QueueTypes DEF Free
      <4>2. Connected /\ snapshot = {}
        BY <1>3, <1>4, <1>5, <1>7, <4>1 DEF SentIsLogged, Connected
      <4>3. QED
        BY <1>3, <1>4, <2>1, <3>1, <3>3, <4>2 DEF Pending
    <3>4. ASSUME NEW i \in DOMAIN outgoing', outgoing'[i].sequence > q
          PROVE  \E j \in 1..(i - 1) : outgoing'[j].sequence = q
      <4>1. CASE i \in DOMAIN outgoing /\ outgoing'[i] = outgoing[i]
        <5>1. PICK j \in 1..(i - 1) : outgoing[j].sequence = q
          BY <3>1, <3>4, <4>1 DEF Due
        <5>2. j \in DOMAIN outgoing
          BY <2>1, <4>1
        <5>3. QED
          BY <2>1, <5>1, <5>2
      <4>2. CASE i = Len(outgoing) + 1 /\ outgoing'[i] = e
        <5>1. PICK j \in 1..Len(outgoing) : outgoing[j].sequence = q
          BY <3>3, <3>4, <4>2
        <5>2. j \in 1..(i - 1) /\ outgoing'[j] = outgoing[j]
          BY <2>1, <4>2, <5>1
        <5>3. QED
          BY <5>1, <5>2
      <4>3. QED
        BY <2>2, <4>1, <4>2
    <3>5. highest' < q
      BY <1>2, <3>1 DEF Due
    <3>6. Connected' => Pending(q)'
      BY <1>2, <3>1, <3>2 DEF Connected
    <3>7. QED
      BY <3>4, <3>5, <3>6 DEF Due
  <2>5. NothingSkipped'
    BY <2>4 DEF NothingSkipped, Free
  <2>6. QED
    BY <2>3, <2>5 DEF DeliveryInv
<1>8. CASE \/ /\ conn # "closing" /\ ~Durable(e) /\ UNCHANGED outgoing
              /\ dropped' = dropped \cup {e.sequence}
           \/ conn = "closing" /\ UNCHANGED <<outgoing, dropped>>
  <2>1. UNCHANGED outgoing /\ dropped' \subseteq dropped \cup {e.sequence}
    BY <1>8
  <2>2. SentIsLogged'
    <3>1. dropped' \subseteq 0..(next_event_sequence' - 1)
      BY <1>2, <1>3, <1>4, <2>1 DEF SentIsLogged
    <3>2. QED
      BY <1>2, <1>3, <2>1, <3>1 DEF SentIsLogged, Connected
  <2>3. ASSUME NEW q, Free(q)'
        PROVE  Due(q)'
    <3>1. Free(q) /\ Due(q) /\ (Connected => Pending(q))
      BY <1>6, <2>3
    <3>2. Connected => Pending(q)'
      <4>1. Connected => ~Durable(e)
        BY <1>8 DEF Connected
      <4>2. Connected => q # e.sequence
        BY <1>4, <3>1, <4>1 DEF Free
      <4>3. QED
        BY <1>2, <1>4, <2>1, <3>1, <4>2 DEF Pending
    <3>3. QED
      BY <1>2, <2>1, <3>1, <3>2 DEF Due, Connected
  <2>4. NothingSkipped'
    BY <2>3 DEF NothingSkipped, Free
  <2>5. QED
    BY <2>2, <2>4 DEF DeliveryInv
<1>9. QED
  BY <1>1, <1>7, <1>8

\* The worker fails: what it had retained and not queued is the last event.
LEMMA FailureDelivers ==
  ASSUME LogInv, DeliveryInv, WorkerFails
  PROVE  DeliveryInv'
<1>1. /\ unsent' = {} /\ stage' = "stopped" /\ hand' = {}
      /\ UNCHANGED <<next_event_sequence, early, conn, outgoing, snapshot,
                     highest, missing, dropped>>
  BY DEF WorkerFails, storeVars, clientVars
<1>2. SentIsLogged /\ TypeOK
  BY DEF DeliveryInv, LogInv
<1>3. SentIsLogged'
  BY <1>1, <1>2 DEF SentIsLogged, Connected
<1>4. ASSUME NEW q, Free(q)'
      PROVE  Due(q)'
  <2>1. Due(q)
    BY <1>1, <1>4, FreeIsDue DEF DeliveryInv, Free
  <2>2. CASE LostWithWorker(q)
    BY <1>1, <2>1, <2>2 DEF Due, LostWithWorker, Connected
  <2>3. CASE Pending(q)'
    BY <1>1, <2>1, <2>3 DEF Due, Connected
  <2>4. ASSUME NEW e \in unsent, e.sequence = q, ~Pending(q)'
        PROVE  LostWithWorker(q)'
    <3>1. q = next_event_sequence - 1 /\ next_event_sequence \in Nat
      BY <1>2, <2>4, QueueTypes DEF SentIsLogged
    <3>2. ASSUME NEW i \in DOMAIN outgoing PROVE outgoing[i].sequence < q
      BY <1>1, <1>2, <2>4, <3>1, QueueTypes DEF SentIsLogged, Pending
    <3>3. ASSUME NEW f \in snapshot PROVE f.sequence < q
      BY <1>1, <1>2, <2>4, <3>1, QueueTypes DEF SentIsLogged, Pending
    <3>4. QED
      BY <1>1, <3>2, <3>3 DEF LostWithWorker
  <2>5. CASE Pending(q) /\ ~Pending(q)'
    <3>1. \E e \in unsent : e.sequence = q
      BY <1>1, <2>5 DEF Pending
    <3>2. QED
      BY <1>1, <2>1, <2>4, <2>5, <3>1 DEF Due, Connected
  <2>6. CASE ~Connected
    BY <1>1, <2>1, <2>6 DEF Due, Connected
  <2>7. QED
    BY <2>1, <2>2, <2>3, <2>5, <2>6 DEF Due
<1>5. NothingSkipped'
  BY <1>4 DEF NothingSkipped, Free
<1>6. QED
  BY <1>3, <1>5 DEF DeliveryInv

\* The replay has every durable event the client lacks.
LEMMA ReadyDelivers ==
  ASSUME LogInv, DeliveryInv, Ready
  PROVE  DeliveryInv'
<1>1. /\ conn = "starting" /\ conn' = "replaying"
      /\ highest >= first_retained_event_sequence - 1
      /\ snapshot' = {log[q] : q \in {r \in DOMAIN log : r > highest}}
      /\ UNCHANGED <<next_event_sequence, early, outgoing, unsent, highest,
                     missing, dropped>>
  BY DEF Ready, storeVars, clientVars
<1>2. SentIsLogged /\ TypeOK /\ LogInOrder
  BY DEF DeliveryInv, LogInv
<1>3. /\ next_event_sequence \in Nat /\ highest \in Int
      /\ DOMAIN log \subseteq 0..(next_event_sequence - 1)
  BY <1>2, QueueTypes DEF TypeOK
<1>4. \A e \in snapshot' : \E q \in DOMAIN log :
        q > highest /\ e = log[q] /\ e.sequence = q
  BY <1>1, <1>2 DEF LogInOrder
<1>5. SentIsLogged'
  <2>1. \A e \in snapshot' : e.sequence < next_event_sequence
    BY <1>3, <1>4
  <2>2. QED
    BY <1>1, <1>2, <2>1 DEF SentIsLogged, Connected
<1>6. ASSUME NEW q, Free(q)'
      PROVE  Due(q)'
  <2>1. Due(q) /\ q \in missing
    BY <1>1, <1>6, FreeIsDue DEF DeliveryInv, Free
  <2>2. q \in 0..(next_event_sequence - 1) /\ highest < q
    BY <1>2, <2>1 DEF SentIsLogged, Due
  <2>3. next_event_sequence > 0
    BY <1>3, <2>2
  <2>4. DOMAIN log = first_retained_event_sequence..(next_event_sequence - 1)
        /\ first_retained_event_sequence \in Int
    BY <1>2, <2>3, RetainedFromFirst
  <2>5. q \in DOMAIN log /\ q > highest
    BY <1>1, <1>3, <2>2, <2>4
  <2>6. log[q] \in snapshot' /\ log[q].sequence = q
    BY <1>1, <1>2, <2>5 DEF LogInOrder
  <2>7. Pending(q)'
    BY <2>6 DEF Pending
  <2>8. QED
    BY <1>1, <2>1, <2>7 DEF Due
<1>7. NothingSkipped'
  BY <1>6 DEF NothingSkipped, Free
<1>8. QED
  BY <1>5, <1>7 DEF DeliveryInv

LEMMA ReplayDelivers ==
  ASSUME LogInv, DeliveryInv, QueueReplay
  PROVE  DeliveryInv'
<1>1. PICK e \in snapshot :
         /\ \A f \in snapshot : e.sequence <= f.sequence
         /\ outgoing' = Append(outgoing, e) /\ snapshot' = snapshot \ {e}
  BY DEF QueueReplay
<1>2. /\ conn = "replaying" /\ Connected
      /\ UNCHANGED <<next_event_sequence, early, stage, hand, conn, unsent,
                     highest, missing, dropped>>
  BY DEF QueueReplay, storeVars, workerVars, clientVars, Connected
<1>3. TypeOK /\ SentIsLogged /\ e.sequence < next_event_sequence
  BY DEF DeliveryInv, LogInv, SentIsLogged
<1>4. /\ DOMAIN outgoing = 1..Len(outgoing) /\ Len(outgoing) \in Nat
      /\ DOMAIN outgoing' = 1..(Len(outgoing) + 1)
      /\ outgoing'[Len(outgoing) + 1] = e
      /\ \A i \in DOMAIN outgoing : outgoing'[i] = outgoing[i]
  <2>1. outgoing \in Seq(Event) /\ e \in Event
    BY <1>3 DEF TypeOK
  <2>2. QED
    BY <1>1, <2>1, AppendProperties
<1>5. \A i \in DOMAIN outgoing' :
        \/ i \in DOMAIN outgoing /\ outgoing'[i] = outgoing[i]
        \/ i = Len(outgoing) + 1 /\ outgoing'[i] = e
  BY <1>4
<1>6. SentIsLogged'
  <2>1. \A i \in DOMAIN outgoing' : outgoing'[i].sequence < next_event_sequence
    BY <1>3, <1>5 DEF SentIsLogged
  <2>2. QED
    BY <1>1, <1>2, <1>3, <2>1 DEF SentIsLogged, Connected
<1>7. ASSUME NEW q, Free(q)'
      PROVE  Due(q)'
  <2>1. Due(q) /\ q \in Nat /\ (Pending(q) \/ LostWithWorker(q))
    BY <1>2, <1>3, <1>7, FreeIsDue, QueueTypes DEF DeliveryInv, Free, Due
  <2>2. Pending(q)' \/ LostWithWorker(q)'
    <3>1. CASE \E i \in DOMAIN outgoing : outgoing[i].sequence = q
      BY <1>4, <3>1 DEF Pending
    <3>2. CASE e.sequence = q
      BY <1>4, <3>2 DEF Pending
    <3>3. CASE \E f \in snapshot \cup unsent : f # e /\ f.sequence = q
      BY <1>1, <1>2, <3>3 DEF Pending
    <3>4. CASE LostWithWorker(q)
      BY <1>1, <1>2, <1>5, <3>4 DEF LostWithWorker
    <3>5. QED
      BY <2>1, <3>1, <3>2, <3>3, <3>4 DEF Pending
  <2>3. ASSUME e.sequence > q
        PROVE  \E j \in 1..Len(outgoing) : outgoing[j].sequence = q
    <3>1. e.sequence \in Nat /\ next_event_sequence \in Nat
      BY <1>3, QueueTypes
    <3>2. ~LostWithWorker(q)
      BY <2>1, <2>3, <3>1 DEF LostWithWorker
    <3>3. ASSUME NEW f \in snapshot PROVE f.sequence # q
      BY <1>1, <2>1, <2>3, <3>1
    <3>4. ASSUME NEW f \in unsent PROVE f.sequence # q
      BY <1>3, <2>1, <2>3, <3>1 DEF SentIsLogged
    <3>5. QED
      BY <1>4, <2>1, <3>2, <3>3, <3>4 DEF Pending
  <2>4. ASSUME NEW i \in DOMAIN outgoing', outgoing'[i].sequence > q
        PROVE  \E j \in 1..(i - 1) : outgoing'[j].sequence = q
    <3>1. CASE i \in DOMAIN outgoing /\ outgoing'[i] = outgoing[i]
      <4>1. PICK j \in 1..(i - 1) : outgoing[j].sequence = q
        BY <2>1, <2>4, <3>1 DEF Due
      <4>2. j \in DOMAIN outgoing
        BY <1>4, <3>1
      <4>3. QED
        BY <1>4, <4>1, <4>2
    <3>2. CASE i = Len(outgoing) + 1 /\ outgoing'[i] = e
      <4>1. PICK j \in 1..Len(outgoing) : outgoing[j].sequence = q
        BY <2>3, <2>4, <3>2
      <4>2. j \in 1..(i - 1) /\ outgoing'[j] = outgoing[j]
        BY <1>4, <3>2, <4>1
      <4>3. QED
        BY <4>1, <4>2
    <3>3. QED
      BY <1>5, <3>1, <3>2
  <2>5. highest' < q
    BY <1>2, <2>1 DEF Due
  <2>6. QED
    BY <2>2, <2>4, <2>5 DEF Due
<1>8. NothingSkipped'
  BY <1>7 DEF NothingSkipped, Free
<1>9. QED
  BY <1>6, <1>8 DEF DeliveryInv

\* The first of what is queued.
LEMMA HeadOfQueue ==
  ASSUME TypeOK, outgoing # << >>, outgoing' = Tail(outgoing)
  PROVE  /\ DOMAIN outgoing = 1..Len(outgoing) /\ Len(outgoing) \in Nat
         /\ DOMAIN outgoing' = 1..(Len(outgoing) - 1) /\ Len(outgoing) > 0
         /\ outgoing[1] = Head(outgoing)
         /\ \A i \in DOMAIN outgoing' : outgoing'[i] = outgoing[i + 1]
         /\ Head(outgoing) \in Event /\ Head(outgoing).sequence \in Nat
<1>1. outgoing \in Seq(Event)
  BY DEF TypeOK
<1>2. /\ DOMAIN outgoing = 1..Len(outgoing) /\ Len(outgoing) \in Nat
      /\ DOMAIN outgoing' = 1..(Len(outgoing) - 1) /\ Len(outgoing) > 0
      /\ outgoing[1] = Head(outgoing)
      /\ \A i \in DOMAIN outgoing' : outgoing'[i] = outgoing[i + 1]
  BY <1>1, HeadTailProperties, EmptySeq
<1>3. QED
  BY <1>2, QueueTypes

\* The client receives the first of what is queued.
LEMMA DeliverDelivers ==
  ASSUME LogInv, DeliveryInv, Deliver
  PROVE  DeliveryInv'
<1> DEFINE e == Head(outgoing)
<1>1. /\ Connected /\ outgoing # << >> /\ outgoing' = Tail(outgoing)
      /\ highest' = Later(highest, e.sequence)
      /\ missing' = missing \ {e.sequence}
      /\ UNCHANGED <<next_event_sequence, early, stage, hand, conn, unsent,
                     snapshot, dropped>>
  BY DEF Deliver, Connected, storeVars, workerVars
<1>2. TypeOK /\ SentIsLogged
  BY DEF DeliveryInv, LogInv
<1>3. /\ DOMAIN outgoing = 1..Len(outgoing) /\ Len(outgoing) \in Nat
      /\ DOMAIN outgoing' = 1..(Len(outgoing) - 1) /\ Len(outgoing) > 0
      /\ outgoing[1] = e /\ e.sequence \in Nat
      /\ \A i \in DOMAIN outgoing' : outgoing'[i] = outgoing[i + 1]
  BY <1>1, <1>2, HeadOfQueue
<1> HIDE DEF e
<1>4. /\ next_event_sequence \in Nat /\ highest \in Int
      /\ e.sequence < next_event_sequence
  BY <1>2, <1>3, QueueTypes DEF SentIsLogged
<1>5. SentIsLogged'
  <2>1. highest' \in -1..(next_event_sequence - 1)
    BY <1>1, <1>2, <1>3, <1>4 DEF SentIsLogged, Later
  <2>2. \A i \in DOMAIN outgoing' : outgoing'[i].sequence < next_event_sequence
    BY <1>2, <1>3 DEF SentIsLogged
  <2>3. \A f \in unsent : Durable(f) \/ f.sequence \notin missing'
    BY <1>1, <1>2 DEF SentIsLogged
  <2>4. missing' \subseteq 0..(next_event_sequence - 1)
    BY <1>1, <1>2 DEF SentIsLogged
  <2>5. QED
    BY <1>1, <1>2, <2>1, <2>2, <2>3, <2>4 DEF SentIsLogged, Connected
<1>6. ASSUME NEW q, Free(q)'
      PROVE  Due(q)'
  <2>1. /\ q \in missing /\ q # e.sequence /\ q \in Nat /\ Due(q)
        /\ Pending(q) \/ LostWithWorker(q)
    BY <1>1, <1>2, <1>6, FreeIsDue, QueueTypes DEF DeliveryInv, Free, Due
  <2>2. e.sequence < q
    <3>1. ~(e.sequence > q)
      BY <1>3, <2>1 DEF Due
    <3>2. QED
      BY <1>3, <2>1, <3>1
  <2>3. highest' < q
    BY <1>1, <2>1, <2>2 DEF Due, Later
  <2>4. ASSUME LostWithWorker(q) PROVE LostWithWorker(q)'
    BY <1>1, <1>3, <2>4 DEF LostWithWorker
  <2>5. ASSUME NEW i \in DOMAIN outgoing, outgoing[i].sequence = q
        PROVE  i - 1 \in DOMAIN outgoing' /\ outgoing'[i - 1].sequence = q
    BY <1>3, <2>1, <2>5
  <2>6. Pending(q) => Pending(q)'
    BY <1>1, <2>5 DEF Pending
  <2>7. ASSUME NEW i \in DOMAIN outgoing', outgoing'[i].sequence > q
        PROVE  \E j \in 1..(i - 1) : outgoing'[j].sequence = q
    <3>1. i + 1 \in DOMAIN outgoing /\ outgoing[i + 1].sequence > q /\ i \in Nat
      BY <1>3, <2>7
    <3>2. PICK j \in 1..((i + 1) - 1) : outgoing[j].sequence = q
      BY <2>1, <3>1 DEF Due
    <3>3. j \in DOMAIN outgoing /\ j # 1
      BY <1>3, <2>1, <3>1, <3>2
    <3>4. j - 1 \in 1..(i - 1)
      BY <1>3, <3>1, <3>2, <3>3
    <3>5. QED
      BY <2>5, <3>2, <3>3, <3>4
  <2>8. QED
    BY <2>1, <2>3, <2>4, <2>6, <2>7 DEF Due
<1>7. NothingSkipped'
  BY <1>6 DEF NothingSkipped, Free
<1>8. QED
  BY <1>5, <1>7 DEF DeliveryInv

\* A step that moves nothing towards the client, and leaves the worker alone.
LEMMA HandlerDelivers ==
  ASSUME DeliveryInv,
         UNCHANGED <<next_event_sequence, early, outgoing, snapshot, unsent,
                     highest, missing, dropped, stage, hand>>,
         Connected' => Connected, snapshot = {},
         outgoing = << >> \/ Connected',
         conn' \in {"starting", "replaying"} => unsent = {}
  PROVE  DeliveryInv'
<1>1. SentIsLogged'
  BY DEF DeliveryInv, SentIsLogged
<1>2. ASSUME NEW q, Free(q)'
      PROVE  Due(q)'
  <2>1. Due(q)
    BY <1>2, FreeIsDue DEF DeliveryInv, Free
  <2>2. QED
    BY <2>1 DEF Due, Pending, LostWithWorker
<1>3. NothingSkipped'
  BY <1>2 DEF NothingSkipped, Free
<1>4. QED
  BY <1>1, <1>3 DEF DeliveryInv

\* The connection ends, and its queue with it.
LEMMA ClosingDelivers ==
  ASSUME LogInv, DeliveryInv, ClientCancels \/ Disconnect \/ ReplayRaises
  PROVE  DeliveryInv'
<1>1. /\ conn' = "closing" /\ outgoing' = << >> /\ snapshot' = {}
      /\ UNCHANGED <<next_event_sequence, early, unsent, highest, missing, dropped>>
  BY DEF ClientCancels, Disconnect, ReplayRaises, storeVars, clientVars,
         DeliveryInv, SentIsLogged
<1>2. SentIsLogged
  BY DEF DeliveryInv
<1>3. SentIsLogged'
  BY <1>1, <1>2, EmptySeq DEF SentIsLogged
<1>4. ASSUME NEW q, Free(q)'
      PROVE  Due(q)'
  <2>1. Due(q)
    BY <1>1, <1>4, FreeIsDue DEF DeliveryInv, Free
  <2>2. QED
    BY <1>1, <2>1, EmptySeq DEF Due, Connected
<1>5. NothingSkipped'
  BY <1>4 DEF NothingSkipped, Free
<1>6. QED
  BY <1>3, <1>5 DEF DeliveryInv

\* The handler goes on with the connection, or the session changes hands.
LEMMA TurnDelivers ==
  ASSUME LogInv, DeliveryInv,
         \/ ReplayDone
         \/ AcceptAudio
         \/ ClientEnds
         \/ Release
         \/ Resume
  PROVE  DeliveryInv'
<1>1. UNCHANGED <<next_event_sequence, early, outgoing, snapshot, unsent,
                  highest, missing, dropped, stage, hand>>
  BY DEF ReplayDone, AcceptAudio, ClientEnds, Release, Resume, storeVars,
         workerVars, clientVars
<1>2. /\ Connected' => Connected
      /\ snapshot = {} /\ (outgoing = << >> \/ Connected')
      /\ conn' \notin {"starting", "replaying"}
  BY DEF ReplayDone, AcceptAudio, ClientEnds, Release, Resume, Connected,
         DeliveryInv, SentIsLogged
<1>3. QED
  BY <1>1, <1>2, HandlerDelivers

\* A new worker starts before the client is connected to the replay.
LEMMA StartDelivers ==
  ASSUME LogInv, DeliveryInv, StartWorker
  PROVE  DeliveryInv'
<1>1. /\ conn = "finalizing" /\ conn' = "starting" /\ unsent = {}
      /\ UNCHANGED <<next_event_sequence, early, outgoing, snapshot, unsent,
                     highest, missing, dropped>>
  BY DEF StartWorker, StartWorkerFrom, storeVars, clientVars, LogInv, Rests
<1>2. SentIsLogged'
  BY <1>1 DEF DeliveryInv, SentIsLogged, Connected
<1>3. ASSUME NEW q, Free(q)'
      PROVE  Due(q)'
  <2>1. Due(q)
    BY <1>1, <1>3, FreeIsDue DEF DeliveryInv, Free
  <2>2. QED
    BY <1>1, <2>1 DEF Due, Connected
<1>4. NothingSkipped'
  BY <1>3 DEF NothingSkipped, Free
<1>5. QED
  BY <1>2, <1>4 DEF DeliveryInv

\* A recovery commit is for the next replay.
LEMMA FinalizeDelivers ==
  ASSUME LogInv, DeliveryInv, FinalizePartial
  PROVE  DeliveryInv'
<1> DEFINE next == next_event_sequence
<1>1. PICK e \in Event : Fits(e) /\ Retain(e)
  BY RetainSteps
<1>2. /\ conn = "finalizing"
      /\ UNCHANGED <<conn, outgoing, snapshot, unsent, highest, dropped>>
  BY DEF FinalizePartial
<1>3. /\ outgoing = << >> /\ snapshot = {} /\ unsent = {} /\ TypeOK
      /\ SentIsLogged
  BY <1>2 DEF DeliveryInv, SentIsLogged, Connected, LogInv, Rests
<1>4. /\ next' = next + 1 /\ missing' \subseteq missing \cup {next}
      /\ early' = early
  BY <1>1, <1>2 DEF Retain, Fits
<1>5. next \in Nat /\ highest \in -1..(next - 1) /\ DOMAIN outgoing = {}
  BY <1>3, QueueTypes, EmptySeq DEF SentIsLogged
<1>6. SentIsLogged'
  <2>1. /\ highest' \in -1..(next' - 1)
        /\ missing' \subseteq 0..(next' - 1) /\ dropped' \subseteq 0..(next' - 1)
    BY <1>2, <1>3, <1>4, <1>5 DEF SentIsLogged
  <2>2. QED
    BY <1>2, <1>3, <1>5, <2>1 DEF SentIsLogged
<1>7. ASSUME NEW q, Free(q)'
      PROVE  Due(q)'
  <2>1. CASE q = next
    BY <1>2, <1>5, <2>1 DEF Due, Connected
  <2>2. CASE q \in missing
    <3>1. Due(q)
      BY <1>4, <1>7, <2>2, FreeIsDue DEF DeliveryInv, Free
    <3>2. QED
      BY <1>2, <1>5, <3>1 DEF Due, Connected
  <2>3. QED
    BY <1>4, <1>7, <2>1, <2>2 DEF Free
<1>8. NothingSkipped'
  BY <1>7 DEF NothingSkipped, Free
<1>9. QED
  BY <1>6, <1>8 DEF DeliveryInv

LEMMA DeliveryNext ==
  ASSUME LogInv, DeliveryInv, [Next]_vars
  PROVE  DeliveryInv'
<1>1. CASE UNCHANGED vars
  BY <1>1 DEF vars, storeVars, workerVars, clientVars, DeliveryInv, SentIsLogged,
              NothingSkipped, Due, Connected, Pending, LostWithWorker
<1>2. CASE Transcribe
  <2>1. /\ Working
        /\ UNCHANGED <<storeVars, conn, outgoing, snapshot, unsent, clientVars,
                       dropped>>
    BY <1>2 DEF Transcribe, Consume, FinishWindow, Break, PostProcess, EndTranscript
  <2>2. QED
    BY <2>1, TranscribeDelivers
<1>3. CASE AppendEvent
  BY <1>3, AppendDelivers
<1>4. CASE QueueEvent
  BY <1>4, QueueDelivers
<1>5. CASE WorkerFails
  BY <1>5, FailureDelivers
<1>6. CASE Ready
  BY <1>6, ReadyDelivers
<1>7. CASE QueueReplay
  BY <1>7, ReplayDelivers
<1>8. CASE Deliver
  BY <1>8, DeliverDelivers
<1>9. CASE ClientCancels \/ Disconnect \/ ReplayRaises
  BY <1>9, ClosingDelivers
<1>10. CASE ReplayDone \/ AcceptAudio \/ ClientEnds \/ Release \/ Resume
  BY <1>10, TurnDelivers
<1>11. CASE FinalizePartial
  BY <1>11, FinalizeDelivers
<1>12. CASE StartWorker
  BY <1>12, StartDelivers
<1>13. QED
  BY <1>1, <1>2, <1>3, <1>4, <1>5, <1>6, <1>7, <1>8, <1>9, <1>10, <1>11, <1>12
     DEF Next, Worker, Handler, Reopen

\* What the client lacks and no live event overtook is still to come, before all
\* that is later.
THEOREM DeliveryInvariant == Spec => []DeliveryInv
<1>1. Init => DeliveryInv
  BY LogAssumption, EmptySeq
     DEF Init, DeliveryInv, SentIsLogged, NothingSkipped, Connected
<1>2. LogInv /\ DeliveryInv /\ [Next]_vars => DeliveryInv'
  BY DeliveryNext
<1>3. Spec => []LogInv
  BY LogInvariant
<1>4. QED
  BY <1>1, <1>2, <1>3, PTL DEF Spec

\* An acknowledgement covers a durable event the client did not get only where a
\* live event overtook the replay.
THEOREM DurableEventsAreNotLost == Spec => []NoDurableLoss
<1>1. LogInv /\ DeliveryInv => NoDurableLoss
  <2> SUFFICES ASSUME LogInv, DeliveryInv, NEW q \in missing,
                      ~\E e \in early : e > q
               PROVE  q > highest
    BY DEF NoDurableLoss
  <2>1. Free(q) /\ highest \in Int /\ q \in Nat
    BY QueueTypes DEF Free, LogInv
  <2>2. Due(q)
    BY <2>1, FreeIsDue DEF DeliveryInv
  <2>3. QED
    BY <2>1, <2>2 DEF Due
<1>2. Spec => []LogInv
  BY LogInvariant
<1>3. Spec => []DeliveryInv
  BY DeliveryInvariant
<1>4. QED
  BY <1>1, <1>2, <1>3, PTL

-----------------------------------------------------------------------------
(* The client's stream.                                                    *)

LEMMA BehindItself ==
  ASSUME NEW v \in Logged!Validator
  PROVE  Behind(v, v)
<1>1. /\ v.states \in [Indexes -> {"new", "partial", "commit", "replace"}]
      /\ v.revisions \in [Indexes -> Nat] /\ v.max_end \in Nat
      /\ v.last_acknowledged_sequence \in Nat \cup {-1}
  BY ValidatorFields
<1>2. QED
  BY <1>1 DEF Behind

LEMMA BehindTransitive ==
  ASSUME NEW u \in Logged!Validator, NEW v \in Logged!Validator,
         NEW w \in Logged!Validator, Behind(u, v), Behind(v, w)
  PROVE  Behind(u, w)
<1>1. /\ u.ended = w.ended /\ u.last_commit_start = w.last_commit_start
  BY DEF Behind
<1>2. /\ u.max_end \in Nat /\ v.max_end \in Nat /\ w.max_end \in Nat
      /\ u.last_acknowledged_sequence \in Int
      /\ v.last_acknowledged_sequence \in Int
      /\ w.last_acknowledged_sequence \in Int
  BY ValidatorFields
<1>3. /\ u.max_end <= w.max_end
      /\ u.last_acknowledged_sequence <= w.last_acknowledged_sequence
  BY <1>2 DEF Behind
<1>4. ASSUME NEW s \in Indexes
      PROVE  /\ \/ u.states[s] = w.states[s]
                \/ u.states[s] = "new" /\ w.states[s] = "partial"
             /\ u.revisions[s] <= w.revisions[s]
  <2>1. u.revisions[s] \in Nat /\ v.revisions[s] \in Nat /\ w.revisions[s] \in Nat
    BY ValidatorFields
  <2>2. u.revisions[s] <= v.revisions[s] /\ v.revisions[s] <= w.revisions[s]
    BY DEF Behind
  <2>3. /\ \/ u.states[s] = v.states[s]
           \/ u.states[s] = "new" /\ v.states[s] = "partial"
        /\ \/ v.states[s] = w.states[s]
           \/ v.states[s] = "new" /\ w.states[s] = "partial"
    BY DEF Behind
  <2>4. u.revisions[s] <= w.revisions[s]
    BY <2>1, <2>2
  <2>5. QED
    BY <2>3, <2>4
<1>5. QED
  BY <1>1, <1>3, <1>4 DEF Behind

\* A reader that misses a partial falls behind one that does not.
LEMMA BehindPartial ==
  ASSUME NEW v \in Logged!Validator, NEW e \in Event, e.kind = "partial",
         Logged!Accepts(v, e)
  PROVE  Behind(v, Logged!After(v, e))
<1> DEFINE w == Logged!After(v, e)
<1>1. /\ w.ended = (v.ended \/ e.kind = "end")
      /\ w.last_acknowledged_sequence =
           IF e.acknowledged_sequence = Logged!None
           THEN v.last_acknowledged_sequence ELSE e.acknowledged_sequence
      /\ w.states = [v.states EXCEPT ![e.segment_id] = e.kind]
      /\ w.revisions = [v.revisions EXCEPT ![e.segment_id] = e.revision]
      /\ w.max_end = Logged!Later(v.max_end, e.end)
      /\ w.last_commit_start = v.last_commit_start
  BY AfterEvent
<1> HIDE DEF w
<1>2. /\ e.segment_id \in Indexes /\ e.revision \in Nat /\ e.end \in Nat
      /\ e.acknowledged_sequence \in Nat \cup {-1}
  BY EventFields
<1>3. /\ v.states \in [Indexes -> {"new", "partial", "commit", "replace"}]
      /\ v.revisions \in [Indexes -> Nat] /\ v.max_end \in Nat
      /\ v.last_acknowledged_sequence \in Nat \cup {-1}
      /\ v.ended \in BOOLEAN
  BY ValidatorFields
<1>4. /\ Logged!AcceptsOrder(v, e) /\ Logged!AcceptsSegment(v, e)
  BY DEF Logged!Accepts
<1>5. w.ended = v.ended
  BY <1>1, <1>3
<1>6. v.max_end <= w.max_end
  BY <1>1, <1>2, <1>3 DEF Logged!Later
<1>7. v.last_acknowledged_sequence <= w.last_acknowledged_sequence
  BY <1>1, <1>2, <1>3, <1>4 DEF Logged!AcceptsOrder, Logged!None
<1>8. v.states[e.segment_id] \in {"new", "partial"}
  BY <1>2, <1>3, <1>4 DEF Logged!AcceptsSegment, Logged!MayFollow
<1>9. v.revisions[e.segment_id] < e.revision
  BY <1>2, <1>3, <1>4 DEF Logged!AcceptsSegment, Logged!AcceptsRevision
<1>10. ASSUME NEW s \in Indexes
       PROVE  /\ \/ v.states[s] = w.states[s]
                 \/ v.states[s] = "new" /\ w.states[s] = "partial"
              /\ v.revisions[s] <= w.revisions[s]
  <2>1. CASE s = e.segment_id
    BY <1>1, <1>2, <1>3, <1>8, <1>9, <2>1
  <2>2. CASE s # e.segment_id
    BY <1>1, <1>2, <1>3, <2>2
  <2>3. QED
    BY <2>1, <2>2
<1>11. QED
  BY <1>1, <1>5, <1>6, <1>7, <1>10 DEF Behind, w

\* Reading the same event keeps a reader behind the other.
LEMMA BehindAfter ==
  ASSUME NEW v \in Logged!Validator, NEW w \in Logged!Validator, Behind(v, w),
         NEW e \in Event
  PROVE  Behind(Logged!After(v, e), Logged!After(w, e))
<1> DEFINE vv == Logged!After(v, e)
           ww == Logged!After(w, e)
<1>1. /\ e.kind = "end" =>
           /\ vv.states = v.states /\ vv.revisions = v.revisions
           /\ vv.max_end = v.max_end /\ vv.last_commit_start = v.last_commit_start
           /\ ww.states = w.states /\ ww.revisions = w.revisions
           /\ ww.max_end = w.max_end /\ ww.last_commit_start = w.last_commit_start
      /\ e.kind # "end" =>
           /\ vv.states = [v.states EXCEPT ![e.segment_id] = e.kind]
           /\ vv.revisions = [v.revisions EXCEPT ![e.segment_id] = e.revision]
           /\ vv.max_end = Logged!Later(v.max_end, e.end)
           /\ vv.last_commit_start =
                IF e.kind = "commit" THEN e.start ELSE v.last_commit_start
           /\ ww.states = [w.states EXCEPT ![e.segment_id] = e.kind]
           /\ ww.revisions = [w.revisions EXCEPT ![e.segment_id] = e.revision]
           /\ ww.max_end = Logged!Later(w.max_end, e.end)
           /\ ww.last_commit_start =
                IF e.kind = "commit" THEN e.start ELSE w.last_commit_start
  BY AfterEvent
<1>2. /\ vv.last_acknowledged_sequence =
           IF e.acknowledged_sequence = Logged!None
           THEN v.last_acknowledged_sequence ELSE e.acknowledged_sequence
      /\ ww.last_acknowledged_sequence =
           IF e.acknowledged_sequence = Logged!None
           THEN w.last_acknowledged_sequence ELSE e.acknowledged_sequence
  BY AfterEvent
<1>3. /\ vv.ended = (v.ended \/ e.kind = "end")
      /\ ww.ended = (w.ended \/ e.kind = "end")
  BY AfterEvent
<1> HIDE DEF vv, ww
<1>4. /\ e.kind # "end" =>
           e.segment_id \in Indexes /\ e.revision \in Nat /\ e.end \in Nat
      /\ e.acknowledged_sequence \in Nat \cup {-1}
  BY EventFields
<1>5. /\ v.states \in [Indexes -> {"new", "partial", "commit", "replace"}]
      /\ v.revisions \in [Indexes -> Nat] /\ v.max_end \in Nat
      /\ v.last_acknowledged_sequence \in Nat \cup {-1}
      /\ w.states \in [Indexes -> {"new", "partial", "commit", "replace"}]
      /\ w.revisions \in [Indexes -> Nat] /\ w.max_end \in Nat
      /\ w.last_acknowledged_sequence \in Nat \cup {-1}
  BY ValidatorFields
<1>6. vv.ended = ww.ended
  BY <1>3 DEF Behind
<1>7. vv.last_commit_start = ww.last_commit_start
  BY <1>1 DEF Behind
<1>8. vv.max_end <= ww.max_end
  BY <1>1, <1>4, <1>5 DEF Behind, Logged!Later
<1>9. vv.last_acknowledged_sequence <= ww.last_acknowledged_sequence
  BY <1>2, <1>4, <1>5 DEF Behind, Logged!None
<1>10. ASSUME NEW s \in Indexes
       PROVE  /\ \/ vv.states[s] = ww.states[s]
                 \/ vv.states[s] = "new" /\ ww.states[s] = "partial"
              /\ vv.revisions[s] <= ww.revisions[s]
  <2>1. /\ \/ v.states[s] = w.states[s]
           \/ v.states[s] = "new" /\ w.states[s] = "partial"
        /\ v.revisions[s] <= w.revisions[s]
    BY DEF Behind
  <2>2. CASE e.kind = "end"
    BY <1>1, <2>1, <2>2
  <2>3. CASE e.kind # "end" /\ s = e.segment_id
    BY <1>1, <1>4, <1>5, <2>3
  <2>4. CASE e.kind # "end" /\ s # e.segment_id
    BY <1>1, <1>4, <1>5, <2>1, <2>4
  <2>5. QED
    BY <2>2, <2>3, <2>4
<1>11. QED
  BY <1>6, <1>7, <1>8, <1>9, <1>10 DEF Behind, vv, ww

\* A reader accepts what the one it is behind of accepts, after a gap.
LEMMA BehindAccepts ==
  ASSUME NEW v \in Logged!Validator, NEW w \in Logged!Validator, Behind(v, w),
         NEW e \in Event, Logged!Accepts(w, e)
  PROVE  Logged!Accepts([v EXCEPT !.last_sequence = Logged!None], e)
<1> DEFINE u == [v EXCEPT !.last_sequence = Logged!None]
<1>1. /\ u.last_sequence = Logged!None /\ u.ended = v.ended
      /\ u.states = v.states /\ u.revisions = v.revisions
      /\ u.max_end = v.max_end /\ u.last_commit_start = v.last_commit_start
      /\ u.last_acknowledged_sequence = v.last_acknowledged_sequence
  BY DEF Logged!Validator
<1> HIDE DEF u
<1>2. /\ e.kind \in {"partial", "commit", "replace", "end"} /\ e.start \in Nat
      /\ e.kind # "end" => e.segment_id \in Indexes /\ e.revision \in Nat
      /\ e.acknowledged_sequence \in Nat \cup {-1}
  BY EventFields
<1>3. /\ v.states \in [Indexes -> {"new", "partial", "commit", "replace"}]
      /\ v.revisions \in [Indexes -> Nat] /\ v.max_end \in Nat
      /\ v.last_acknowledged_sequence \in Nat \cup {-1}
      /\ w.states \in [Indexes -> {"new", "partial", "commit", "replace"}]
      /\ w.revisions \in [Indexes -> Nat] /\ w.max_end \in Nat
      /\ w.last_acknowledged_sequence \in Nat \cup {-1}
  BY ValidatorFields
<1>4. Logged!AcceptsOrder(w, e)
  BY DEF Logged!Accepts
<1>5. Logged!AcceptsOrder(u, e)
  <2>1. ~u.ended
    BY <1>1, <1>4 DEF Behind, Logged!AcceptsOrder
  <2>2. e.acknowledged_sequence # Logged!None =>
          e.acknowledged_sequence >= u.last_acknowledged_sequence
    BY <1>1, <1>2, <1>3, <1>4 DEF Behind, Logged!AcceptsOrder
  <2>3. QED
    BY <1>1, <2>1, <2>2 DEF Logged!AcceptsOrder
<1>6. CASE e.kind = "end"
  <2>1. Logged!AcceptsEnd(w, e)
    BY <1>6 DEF Logged!Accepts
  <2>2. u.max_end <= e.start
    BY <1>1, <1>2, <1>3, <2>1 DEF Behind, Logged!AcceptsEnd
  <2>3. ASSUME NEW s \in Indexes PROVE u.states[s] # "partial"
    BY <1>1, <2>1 DEF Behind, Logged!AcceptsEnd
  <2>4. Logged!AcceptsEnd(u, e)
    BY <1>1, <1>2, <1>3, <2>2, <2>3 DEF Logged!AcceptsEnd
  <2>5. QED
    BY <1>5, <1>6, <2>4 DEF Logged!Accepts, u
<1>7. CASE e.kind # "end"
  <2>1. Logged!AcceptsSegment(w, e) /\ e.kind # "speaker_merge"
    BY <1>2, <1>7 DEF Logged!Accepts
  <2>2. Logged!AcceptsRevision(u, e)
    <3>1. /\ v.revisions[e.segment_id] \in Nat /\ w.revisions[e.segment_id] \in Nat
          /\ v.revisions[e.segment_id] <= w.revisions[e.segment_id]
      BY <1>2, <1>3, <1>7 DEF Behind
    <3>2. e.revision > w.revisions[e.segment_id]
      BY <2>1 DEF Logged!AcceptsSegment, Logged!AcceptsRevision
    <3>3. QED
      BY <1>1, <1>2, <1>7, <3>1, <3>2 DEF Logged!AcceptsRevision
  <2>3. e.kind \in Logged!MayFollow(u.states[e.segment_id])
    <3>1. e.kind \in Logged!MayFollow(w.states[e.segment_id])
      BY <2>1 DEF Logged!AcceptsSegment
    <3>2. \/ v.states[e.segment_id] = w.states[e.segment_id]
          \/ v.states[e.segment_id] = "new" /\ w.states[e.segment_id] = "partial"
      BY <1>2, <1>7 DEF Behind
    <3>3. QED
      BY <1>1, <3>1, <3>2 DEF Logged!MayFollow
  <2>4. e.kind = "commit" => e.start >= u.last_commit_start
    BY <1>1, <2>1 DEF Behind, Logged!AcceptsSegment
  <2>5. Logged!AcceptsSegment(u, e)
    BY <2>2, <2>3, <2>4 DEF Logged!AcceptsSegment
  <2>6. QED
    BY <1>5, <1>7, <2>1, <2>5 DEF Logged!Accepts, u
<1>8. QED
  BY <1>6, <1>7

\* What the client is sent next, while no live event came early.
LEMMA StreamFacts ==
  ASSUME LogInv, DeliveryInv, SentInOrder, early = {}
  PROVE  /\ next_event_sequence \in Nat /\ highest \in Int
         /\ highest + 1 \in 0..next_event_sequence
         /\ unsent # {} => conn \notin {"starting", "replaying"} /\ snapshot = {}
         /\ ~Connected => outgoing = << >>
         /\ \A i \in DOMAIN outgoing :
              outgoing[i].sequence \in (highest + 1)..(next_event_sequence - 1)
         /\ \A e \in snapshot \cup unsent :
              e.sequence \in (highest + 1)..(next_event_sequence - 1)
<1>1. TypeOK /\ SentIsLogged
  BY DEF LogInv, DeliveryInv
<1>2. next_event_sequence \in Nat /\ highest \in Int
  BY <1>1, QueueTypes
<1>3. highest + 1 \in 0..next_event_sequence
  BY <1>1, <1>2 DEF SentIsLogged
<1>4. unsent # {} => conn \notin {"starting", "replaying"} /\ snapshot = {}
  BY <1>1 DEF SentIsLogged
<1>5. ~Connected => outgoing = << >>
  BY <1>1 DEF SentIsLogged, SentInOrder
<1>6. \A i \in DOMAIN outgoing :
        outgoing[i].sequence \in (highest + 1)..(next_event_sequence - 1)
  BY <1>1, <1>2, QueueTypes DEF SentIsLogged, SentInOrder
<1>7. ASSUME NEW e \in snapshot \cup unsent
      PROVE  e.sequence \in (highest + 1)..(next_event_sequence - 1)
  <2>1. e.sequence \in Nat /\ highest < e.sequence
    BY <1>1, QueueTypes DEF SentInOrder
  <2>2. e.sequence < next_event_sequence
    BY <1>1, <1>2 DEF SentIsLogged
  <2>3. QED
    BY <1>2, <2>1, <2>2
<1>8. QED
  BY <1>2, <1>3, <1>4, <1>5, <1>6, <1>7

LEMMA TranscribeInOrder ==
  ASSUME SentInOrder, Transcribe
  PROVE  SentInOrder'
<1>1. /\ Working
      /\ UNCHANGED <<storeVars, conn, outgoing, snapshot, unsent, clientVars,
                     dropped>>
  BY DEF Transcribe, Consume, FinishWindow, Break, PostProcess, EndTranscript
<1>2. UNCHANGED <<next_event_sequence, conn, outgoing, snapshot, unsent, highest,
                  seen, dropped>>
  BY <1>1 DEF storeVars, clientVars
<1>3. \A q : ~LostWithWorker(q) /\ (Pending(q)' <=> Pending(q))
  BY <1>1, <1>2 DEF Working, LostWithWorker, Pending
<1>4. QED
  BY <1>2, <1>3 DEF SentInOrder, Connected

LEMMA AppendInOrder ==
  ASSUME LogInv, DeliveryInv, SentInOrder, AppendEvent, early' = {}
  PROVE  SentInOrder'
<1> DEFINE next == next_event_sequence
<1>1. PICK e \in hand :
         /\ Retain(Payload(e)) /\ unsent' = {Payload(e)} /\ hand' = {}
         /\ UNCHANGED <<audio, completed, conn, outgoing, snapshot, workerVars,
                        seen, highest, dropped>>
  BY AppendRetains
<1> DEFINE P == Payload(e)
<1>2. TypeOK /\ P.sequence = next /\ unsent = {} /\ hand # {}
  BY HandFitsLog DEF LogInv, Fits, HandFits
<1>3. next' = next + 1 /\ early = {}
  BY <1>1 DEF Retain
<1>4. unsent' = {P} /\ UNCHANGED <<conn, outgoing, snapshot, highest, seen, dropped>>
  BY <1>1
<1> HIDE DEF P
<1>5. /\ next \in Nat /\ highest \in Int /\ highest + 1 \in 0..next
      /\ \A i \in DOMAIN outgoing : outgoing[i].sequence \in (highest + 1)..(next - 1)
  BY <1>3, StreamFacts
<1>6. ASSUME NEW f \in snapshot' \cup unsent'
      PROVE  /\ highest < f.sequence
             /\ \A i \in DOMAIN outgoing : outgoing[i].sequence < f.sequence
  BY <1>2, <1>4, <1>5 DEF SentInOrder
<1>7. ASSUME Connected, NEW q \in (highest + 1)..(next' - 1)
      PROVE  Pending(q)' \/ q \in dropped
  <2>1. CASE q = next
    BY <1>2, <1>4, <2>1 DEF Pending
  <2>2. CASE q \in (highest + 1)..(next - 1)
    <3>1. Pending(q) \/ q \in dropped
      BY <1>2, <1>7, <2>2 DEF SentInOrder, LostWithWorker
    <3>2. QED
      BY <1>2, <1>4, <3>1 DEF Pending
  <2>3. QED
    BY <1>3, <1>5, <2>1, <2>2
<1>8. QED
  BY <1>4, <1>6, <1>7 DEF SentInOrder, Connected

LEMMA QueueInOrder ==
  ASSUME LogInv, DeliveryInv, SentInOrder, early = {}, QueueEvent
  PROVE  SentInOrder'
<1>1. PICK e \in unsent :
         \/ /\ conn # "closing" /\ outgoing' = Append(outgoing, e)
            /\ UNCHANGED dropped
         \/ /\ conn # "closing" /\ UNCHANGED outgoing
            /\ dropped' = dropped \cup {e.sequence}
         \/ conn = "closing" /\ UNCHANGED <<outgoing, dropped>>
  BY DEF QueueEvent
<1>2. /\ unsent' = {}
      /\ UNCHANGED <<next_event_sequence, conn, snapshot, highest, seen>>
  BY DEF QueueEvent, storeVars, clientVars
<1>3. /\ unsent = {e} /\ snapshot = {} /\ conn \notin {"starting", "replaying"}
      /\ e \in Event /\ outgoing \in Seq(Event)
  BY StreamFacts DEF DeliveryInv, SentIsLogged, LogInv, TypeOK
<1>4. \A q : ~LostWithWorker(q)
  BY <1>3 DEF LostWithWorker
<1>5. CASE conn # "closing" /\ outgoing' = Append(outgoing, e) /\ UNCHANGED dropped
  <2>1. /\ DOMAIN outgoing = 1..Len(outgoing) /\ Len(outgoing) \in Nat
        /\ DOMAIN outgoing' = 1..(Len(outgoing) + 1)
        /\ outgoing'[Len(outgoing) + 1] = e
        /\ \A i \in DOMAIN outgoing : outgoing'[i] = outgoing[i]
    BY <1>3, <1>5, AppendProperties
  <2>2. \A i \in DOMAIN outgoing' :
          \/ i \in DOMAIN outgoing /\ outgoing'[i] = outgoing[i]
          \/ i = Len(outgoing) + 1 /\ outgoing'[i] = e
    BY <2>1
  <2>3. /\ highest < e.sequence
        /\ \A i \in DOMAIN outgoing : outgoing[i].sequence < e.sequence
    BY <1>3 DEF SentInOrder
  <2>4. \A i \in DOMAIN outgoing' : highest < outgoing'[i].sequence
    BY <2>2, <2>3 DEF SentInOrder
  <2>5. \A i, j \in DOMAIN outgoing' :
          i < j => outgoing'[i].sequence < outgoing'[j].sequence
    BY <2>1, <2>2, <2>3 DEF SentInOrder
  <2>6. ASSUME Connected, NEW q \in (highest + 1)..(next_event_sequence - 1)
        PROVE  Pending(q)' \/ q \in dropped
    <3>1. Pending(q) \/ q \in dropped
      BY <1>4, <2>6 DEF SentInOrder
    <3>2. CASE \E i \in DOMAIN outgoing : outgoing[i].sequence = q
      BY <2>1, <3>2 DEF Pending
    <3>3. CASE e.sequence = q
      BY <2>1, <3>3 DEF Pending
    <3>4. QED
      BY <1>3, <3>1, <3>2, <3>3 DEF Pending
  <2>7. QED
    BY <1>2, <1>3, <1>5, <2>4, <2>5, <2>6 DEF SentInOrder, Connected
<1>6. CASE /\ conn # "closing" /\ UNCHANGED outgoing
           /\ dropped' = dropped \cup {e.sequence}
  <2>1. ASSUME Connected, NEW q \in (highest + 1)..(next_event_sequence - 1)
        PROVE  Pending(q)' \/ q \in dropped'
    <3>1. Pending(q) \/ q \in dropped
      BY <1>4, <2>1 DEF SentInOrder
    <3>2. QED
      BY <1>2, <1>3, <1>6, <3>1 DEF Pending
  <2>2. QED
    BY <1>2, <1>3, <1>6, <2>1 DEF SentInOrder, Connected
<1>7. CASE conn = "closing" /\ UNCHANGED <<outgoing, dropped>>
  BY <1>2, <1>3, <1>7 DEF SentInOrder, Connected
<1>8. QED
  BY <1>1, <1>5, <1>6, <1>7

LEMMA FailureInOrder ==
  ASSUME LogInv, DeliveryInv, SentInOrder, early = {}, WorkerFails
  PROVE  SentInOrder'
<1>1. /\ unsent' = {} /\ stage' = "stopped" /\ hand' = {}
      /\ UNCHANGED <<next_event_sequence, conn, outgoing, snapshot, highest,
                     seen, dropped>>
  BY DEF WorkerFails, storeVars, clientVars
<1>2. unsent # {} => snapshot = {}
  BY StreamFacts
<1>3. ASSUME NEW q, Pending(q)
      PROVE  Pending(q)' \/ LostWithWorker(q)'
  <2>1. CASE \E e \in unsent : e.sequence = q
    <3>1. \A i \in DOMAIN outgoing : outgoing[i].sequence < q
      BY <2>1 DEF SentInOrder
    <3>2. QED
      BY <1>1, <1>2, <2>1, <3>1 DEF LostWithWorker
  <2>2. QED
    BY <1>1, <1>3, <2>1 DEF Pending
<1>4. \A q : LostWithWorker(q) => LostWithWorker(q)'
  BY <1>1 DEF LostWithWorker
<1>5. ASSUME Connected, NEW q \in (highest + 1)..(next_event_sequence - 1)
      PROVE  Pending(q)' \/ q \in dropped \/ LostWithWorker(q)'
  BY <1>3, <1>4, <1>5 DEF SentInOrder
<1>6. QED
  BY <1>1, <1>5 DEF SentInOrder, Connected

LEMMA ReadyInOrder ==
  ASSUME LogInv, DeliveryInv, SentInOrder, early = {}, Ready
  PROVE  SentInOrder'
<1>1. /\ conn = "starting" /\ conn' = "replaying"
      /\ highest >= first_retained_event_sequence - 1
      /\ snapshot' = {log[q] : q \in {r \in DOMAIN log : r > highest}}
      /\ UNCHANGED <<next_event_sequence, outgoing, unsent, highest, seen, dropped>>
  BY DEF Ready, storeVars, clientVars
<1>2. outgoing = << >> /\ unsent = {} /\ TypeOK /\ LogInOrder
  BY <1>1, StreamFacts DEF SentInOrder, LogInv
<1>3. /\ next_event_sequence \in Nat /\ highest \in Int /\ DOMAIN outgoing = {}
      /\ highest + 1 \in 0..next_event_sequence
  BY <1>2, StreamFacts, EmptySeq
<1>4. \A e \in snapshot' : highest < e.sequence
  <2>1. \A q \in DOMAIN log : q \in Nat /\ log[q].sequence = q
    BY <1>2, <1>3 DEF TypeOK, LogInOrder
  <2>2. QED
    BY <1>1, <1>3, <2>1
<1>5. ASSUME NEW q \in (highest + 1)..(next_event_sequence - 1)
      PROVE  Pending(q)'
  <2>1. next_event_sequence > 0
    BY <1>3, <1>5
  <2>2. DOMAIN log = first_retained_event_sequence..(next_event_sequence - 1)
        /\ first_retained_event_sequence \in Int
    BY <1>2, <2>1, RetainedFromFirst
  <2>3. q \in DOMAIN log /\ q > highest
    BY <1>1, <1>3, <2>2
  <2>4. log[q] \in snapshot' /\ log[q].sequence = q
    BY <1>1, <1>2, <2>3 DEF LogInOrder
  <2>5. QED
    BY <2>4 DEF Pending
<1>6. QED
  BY <1>1, <1>2, <1>3, <1>4, <1>5 DEF SentInOrder

LEMMA ReplayInOrder ==
  ASSUME LogInv, DeliveryInv, SentInOrder, early = {}, QueueReplay,
         \A e, f \in snapshot : e.sequence = f.sequence => e = f
  PROVE  SentInOrder'
<1>1. PICK e \in snapshot :
         /\ \A f \in snapshot : e.sequence <= f.sequence
         /\ outgoing' = Append(outgoing, e) /\ snapshot' = snapshot \ {e}
  BY DEF QueueReplay
<1>2. /\ conn = "replaying" /\ Connected
      /\ UNCHANGED <<next_event_sequence, stage, hand, conn, unsent, highest,
                     seen, dropped>>
  BY DEF QueueReplay, storeVars, workerVars, clientVars, Connected
<1>3. unsent = {} /\ e \in Event /\ outgoing \in Seq(Event)
  BY <1>2, StreamFacts DEF LogInv, TypeOK
<1>4. /\ DOMAIN outgoing = 1..Len(outgoing) /\ Len(outgoing) \in Nat
      /\ DOMAIN outgoing' = 1..(Len(outgoing) + 1)
      /\ outgoing'[Len(outgoing) + 1] = e
      /\ \A i \in DOMAIN outgoing : outgoing'[i] = outgoing[i]
  BY <1>1, <1>3, AppendProperties
<1>5. \A i \in DOMAIN outgoing' :
        \/ i \in DOMAIN outgoing /\ outgoing'[i] = outgoing[i]
        \/ i = Len(outgoing) + 1 /\ outgoing'[i] = e
  BY <1>4
<1>6. /\ highest < e.sequence
      /\ \A i \in DOMAIN outgoing : outgoing[i].sequence < e.sequence
  BY DEF SentInOrder
<1>7. \A f \in snapshot' : e.sequence < f.sequence
  <2>1. \A f \in snapshot : f.sequence \in Nat
    BY QueueTypes DEF LogInv
  <2>2. \A f \in snapshot' : f \in snapshot /\ f # e
    BY <1>1
  <2>3. \A f \in snapshot' : e.sequence # f.sequence /\ e.sequence <= f.sequence
    BY <1>1, <2>2
  <2>4. QED
    BY <2>1, <2>2, <2>3
<1>8. \A i \in DOMAIN outgoing' : highest < outgoing'[i].sequence
  BY <1>5, <1>6 DEF SentInOrder
<1>9. \A i, j \in DOMAIN outgoing' :
        i < j => outgoing'[i].sequence < outgoing'[j].sequence
  BY <1>4, <1>5, <1>6 DEF SentInOrder
<1>10. ASSUME NEW f \in snapshot'
       PROVE  /\ highest < f.sequence
              /\ \A i \in DOMAIN outgoing' : outgoing'[i].sequence < f.sequence
  <2>1. f \in snapshot
    BY <1>1
  <2>2. QED
    BY <1>5, <1>7, <2>1 DEF SentInOrder
<1>11. ASSUME NEW q \in (highest + 1)..(next_event_sequence - 1)
       PROVE  Pending(q)' \/ q \in dropped \/ LostWithWorker(q)'
  <2>1. Pending(q) \/ q \in dropped \/ LostWithWorker(q)
    BY <1>2 DEF SentInOrder
  <2>2. CASE \E i \in DOMAIN outgoing : outgoing[i].sequence = q
    BY <1>4, <2>2 DEF Pending
  <2>3. CASE e.sequence = q
    BY <1>4, <2>3 DEF Pending
  <2>4. CASE \E f \in snapshot : f # e /\ f.sequence = q
    BY <1>1, <2>4 DEF Pending
  <2>5. CASE LostWithWorker(q)
    BY <1>1, <1>2, <1>5, <2>5 DEF LostWithWorker
  <2>6. QED
    BY <1>3, <2>1, <2>2, <2>3, <2>4, <2>5 DEF Pending
<1>12. QED
  BY <1>2, <1>3, <1>8, <1>9, <1>10, <1>11 DEF SentInOrder

LEMMA DeliverInOrder ==
  ASSUME LogInv, DeliveryInv, SentInOrder, early = {}, Deliver
  PROVE  LET e == Head(outgoing)
         IN /\ SentInOrder'
            /\ e = outgoing[1] /\ 1 \in DOMAIN outgoing /\ e \in Event
            /\ highest' = e.sequence /\ seen' = Logged!After(seen, e)
            /\ highest + 1 <= e.sequence
            /\ (highest + 1)..(e.sequence - 1) \subseteq dropped
<1> DEFINE e == Head(outgoing)
<1>1. /\ Connected /\ outgoing # << >> /\ outgoing' = Tail(outgoing)
      /\ highest' = Later(highest, e.sequence)
      /\ seen' = Logged!After(seen, e)
      /\ UNCHANGED <<next_event_sequence, stage, hand, conn, unsent, snapshot,
                     dropped>>
  BY DEF Deliver, Connected, storeVars, workerVars
<1>2. TypeOK /\ seen \in Logged!Validator
  BY DEF LogInv, TypeOK
<1>3. /\ DOMAIN outgoing = 1..Len(outgoing) /\ Len(outgoing) \in Nat
      /\ DOMAIN outgoing' = 1..(Len(outgoing) - 1) /\ Len(outgoing) > 0
      /\ outgoing[1] = e /\ e \in Event /\ e.sequence \in Nat
      /\ \A i \in DOMAIN outgoing' : outgoing'[i] = outgoing[i + 1]
  BY <1>1, <1>2, HeadOfQueue
<1>4. /\ next_event_sequence \in Nat /\ highest \in Int
      /\ e.sequence \in (highest + 1)..(next_event_sequence - 1)
  <2>1. 1 \in DOMAIN outgoing
    BY <1>3
  <2>2. /\ next_event_sequence \in Nat /\ highest \in Int
        /\ outgoing[1].sequence \in (highest + 1)..(next_event_sequence - 1)
    BY <2>1, StreamFacts
  <2>3. QED
    BY <1>3, <2>2
<1>5. highest' = e.sequence
  BY <1>1, <1>4 DEF Later
<1>6. seen'.last_sequence = e.sequence
  BY <1>1, <1>2, <1>3, AfterEvent
<1> HIDE DEF e
<1>7. \A i \in DOMAIN outgoing :
        i # 1 => e.sequence < outgoing[i].sequence /\ i - 1 \in DOMAIN outgoing'
  BY <1>3 DEF SentInOrder
<1>8. \A i \in DOMAIN outgoing' :
        i + 1 \in DOMAIN outgoing /\ e.sequence < outgoing'[i].sequence
  BY <1>3, <1>7
<1>9. \A f \in snapshot \cup unsent : e.sequence < f.sequence
  BY <1>3 DEF SentInOrder
<1>10. ASSUME NEW q \in (highest + 1)..(next_event_sequence - 1)
       PROVE  /\ q < e.sequence => q \in dropped
              /\ q > e.sequence => Pending(q)' \/ q \in dropped \/ LostWithWorker(q)'
  <2>1. /\ Pending(q) \/ q \in dropped \/ LostWithWorker(q)
        /\ q \in Int
    BY <1>1, <1>4 DEF SentInOrder
  <2>2. ASSUME NEW i \in DOMAIN outgoing, outgoing[i].sequence = q
        PROVE  /\ q >= e.sequence
               /\ q > e.sequence => Pending(q)'
    <3>1. CASE i = 1
      BY <1>3, <1>4, <2>1, <2>2, <3>1
    <3>2. CASE i # 1
      <4>1. i - 1 \in DOMAIN outgoing' /\ outgoing'[i - 1] = outgoing[i]
        BY <1>3, <1>7, <3>2
      <4>2. e.sequence < q
        BY <1>7, <2>2, <3>2
      <4>3. QED
        BY <1>3, <2>1, <2>2, <4>1, <4>2 DEF Pending
    <3>3. QED
      BY <3>1, <3>2
  <2>3. ASSUME NEW f \in snapshot \cup unsent, f.sequence = q
        PROVE  q > e.sequence /\ Pending(q)'
    BY <1>1, <1>3, <1>9, <2>1, <2>3 DEF Pending
  <2>4. LostWithWorker(q) => LostWithWorker(q)' /\ e.sequence < q
    BY <1>1, <1>3, <1>8 DEF LostWithWorker
  <2>5. QED
    BY <1>3, <2>1, <2>2, <2>3, <2>4 DEF Pending
<1>11. (highest + 1)..(e.sequence - 1) \subseteq dropped
  BY <1>4, <1>10
<1>12. SentInOrder'
  <2>1. highest' = seen'.last_sequence /\ (conn' = "starting" => outgoing' = << >>)
    BY <1>1, <1>5, <1>6 DEF Connected
  <2>2. \A i \in DOMAIN outgoing' : highest' < outgoing'[i].sequence
    BY <1>5, <1>8
  <2>3. \A i, j \in DOMAIN outgoing' :
          i < j => outgoing'[i].sequence < outgoing'[j].sequence
    BY <1>3, <1>8 DEF SentInOrder
  <2>4. \A f \in snapshot \cup unsent :
          /\ highest' < f.sequence
          /\ \A i \in DOMAIN outgoing' : outgoing'[i].sequence < f.sequence
    BY <1>3, <1>5, <1>8, <1>9 DEF SentInOrder
  <2>5. ASSUME NEW q \in (highest' + 1)..(next_event_sequence - 1)
        PROVE  Pending(q)' \/ q \in dropped \/ LostWithWorker(q)'
    <3>1. q \in (highest + 1)..(next_event_sequence - 1) /\ q > e.sequence
      BY <1>4, <1>5
    <3>2. QED
      BY <1>10, <3>1
  <2>6. QED
    BY <1>1, <2>1, <2>2, <2>3, <2>4, <2>5 DEF SentInOrder
<1>13. QED
  BY <1>1, <1>3, <1>4, <1>5, <1>11, <1>12 DEF e

\* A step that moves nothing towards the client, and leaves the worker alone.
LEMMA HandlerInOrder ==
  ASSUME SentInOrder,
         UNCHANGED <<next_event_sequence, outgoing, snapshot, unsent, highest,
                     seen, dropped, stage, hand>>,
         Connected' => Connected, conn' # "starting" \/ outgoing = << >>
  PROVE  SentInOrder'
<1>1. \A q : /\ Pending(q)' <=> Pending(q)
             /\ LostWithWorker(q)' <=> LostWithWorker(q)
  BY DEF Pending, LostWithWorker
<1>2. QED
  BY <1>1 DEF SentInOrder

LEMMA InOrderNext ==
  ASSUME LogInv, DeliveryInv, SentInOrder, [Next]_vars, early = {}, early' = {},
         \A e, f \in snapshot : e.sequence = f.sequence => e = f
  PROVE  SentInOrder'
<1>1. CASE UNCHANGED vars
  BY <1>1, HandlerInOrder
     DEF vars, storeVars, workerVars, clientVars, Connected, SentInOrder
<1>2. CASE Transcribe
  BY <1>2, TranscribeInOrder
<1>3. CASE AppendEvent
  BY <1>3, AppendInOrder
<1>4. CASE QueueEvent
  BY <1>4, QueueInOrder
<1>5. CASE WorkerFails
  BY <1>5, FailureInOrder
<1>6. CASE Ready
  BY <1>6, ReadyInOrder
<1>7. CASE QueueReplay
  BY <1>7, ReplayInOrder
<1>8. CASE Deliver
  BY <1>8, DeliverInOrder
<1>9. CASE ClientCancels \/ Disconnect \/ ReplayRaises
  <2>1. /\ conn' = "closing" /\ outgoing' = << >>
        /\ snapshot' \subseteq snapshot
        /\ UNCHANGED <<next_event_sequence, unsent, highest, seen, dropped>>
    BY <1>9 DEF ClientCancels, Disconnect, ReplayRaises, storeVars, clientVars
  <2>2. QED
    BY <2>1, EmptySeq DEF SentInOrder, Connected
<1>10. CASE ReplayDone \/ AcceptAudio \/ ClientEnds \/ Release \/ Resume
  <2>1. /\ UNCHANGED <<next_event_sequence, outgoing, snapshot, unsent, highest,
                       seen, dropped, stage, hand>>
        /\ Connected' => Connected
        /\ conn' # "starting"
    BY <1>10 DEF ReplayDone, AcceptAudio, ClientEnds, Release, Resume, storeVars,
                 workerVars, clientVars, Connected
  <2>2. QED
    BY <2>1, HandlerInOrder
<1>11. CASE FinalizePartial \/ StartWorker
  <2>1. /\ ~Connected /\ conn = "finalizing" /\ ~Connected'
        /\ UNCHANGED <<outgoing, snapshot, unsent, highest, seen, dropped>>
    BY <1>11 DEF FinalizePartial, StartWorker, StartWorkerFrom, clientVars, Connected
  <2>2. outgoing = << >>
    BY <2>1, StreamFacts
  <2>3. QED
    BY <2>1, <2>2 DEF SentInOrder
<1>12. QED
  BY <1>1, <1>2, <1>3, <1>4, <1>5, <1>6, <1>7, <1>8, <1>9, <1>10, <1>11
     DEF Next, Worker, Handler, Reopen

-----------------------------------------------------------------------------
\* A live event that came early stays one.
LEMMA EarlyGrows ==
  ASSUME LogInv, [Next]_vars
  PROVE  early \subseteq early'
<1>1. CASE UNCHANGED storeVars
  BY <1>1 DEF storeVars
<1>2. CASE AppendEvent \/ FinalizePartial
  BY <1>2, RetainSteps DEF Retain
<1>3. QED
  BY <1>1, <1>2, StoreSteps

\* What is refused of the log is durable: the partials fit.
LEMMA RetainChecked ==
  ASSUME LogInv, NEW e \in Event, Fits(e), Retain(e)
  PROVE  /\ Logged!Accepts(produced, e) \/ (e.sequence \in refused' /\ Durable(e))
         /\ refused \subseteq refused'
<1>1. LogFacts
  BY DEF LogInv, LogFacts
<1>2. CASE Logged!Accepts(produced, e)
  BY <1>2 DEF Retain
<1>3. CASE ~Logged!Accepts(produced, e)
  <2>1. refused' = refused \cup {e.sequence}
    BY <1>3 DEF Retain
  <2>2. ASSUME e.kind = "partial" PROVE FALSE
    <3>1. produced.last_acknowledged_sequence <= e.acknowledged_sequence
      BY <1>1, <2>2 DEF LogFacts, Accounted, Fits
    <3>2. QED
      BY <1>1, <1>3, <2>2, <3>1, FitsAccepted
  <2>3. QED
    BY <2>1, <2>2 DEF Durable
<1>4. QED
  BY <1>2, <1>3

\* The chain grows at its end.
LEMMA ChainRetains ==
  ASSUME LogInv, DeliveryInv, NEW e \in Event, Fits(e), Retain(e),
         UNCHANGED dropped,
         NEW events, NEW readers, Chain(events, readers)
  PROVE  \E events2, readers2 :
           /\ Chain(events2, readers2)'
           /\ \A q \in 0..(next_event_sequence - 1) : events2[q] = events[q]
           /\ \A q \in 0..next_event_sequence : readers2[q] = readers[q]
<1> DEFINE next == next_event_sequence
<1>1. /\ next \in Nat /\ TypeOK
      /\ dropped \subseteq 0..(next - 1) /\ DOMAIN log \subseteq 0..(next - 1)
  <2>1. TypeOK
    BY DEF LogInv
  <2>2. next \in Nat
    BY <2>1, Numbers
  <2>3. DOMAIN log \subseteq 0..(next - 1)
    BY <2>1 DEF TypeOK
  <2>4. dropped \subseteq 0..(next - 1)
    BY DEF DeliveryInv, SentIsLogged
  <2>5. QED
    BY <2>1, <2>2, <2>3, <2>4
<1>2. /\ produced' = Logged!After(produced, e) /\ next' = next + 1
      /\ produced' \in Logged!Validator /\ e.sequence = next
      /\ Logged!Accepts(produced, e) \/ (e.sequence \in refused' /\ Durable(e))
      /\ refused \subseteq refused'
  BY <1>1, RetainEffects, RetainChecked DEF Retain, Fits
<1>3. /\ events \in [0..(next - 1) -> Event]
      /\ readers \in [0..next -> Logged!Validator]
      /\ readers[next] = produced
  BY DEF Chain
<1>4. PICK events2 : events2 = [q \in 0..next |-> IF q = next THEN e ELSE events[q]]
  OBVIOUS
<1>5. PICK readers2 : readers2 = [q \in 0..(next + 1) |->
                                    IF q = next + 1 THEN produced' ELSE readers[q]]
  OBVIOUS
<1>6. /\ events2 \in [0..next -> Event]
      /\ readers2 \in [0..(next + 1) -> Logged!Validator]
  BY <1>1, <1>2, <1>3, <1>4, <1>5
<1>7. /\ events2[next] = e /\ readers2[next + 1] = produced'
      /\ \A q \in 0..(next - 1) : events2[q] = events[q]
      /\ \A q \in 0..next : readers2[q] = readers[q]
  BY <1>1, <1>4, <1>5
<1>8. ASSUME NEW q \in 0..next
      PROVE  /\ readers2[q + 1] = Logged!After(readers2[q], events2[q])
             /\ \/ Logged!Accepts(readers2[q], events2[q])
                \/ q \in refused' /\ Durable(events2[q])
             /\ q \in dropped => ~Durable(events2[q])
  <2>1. CASE q = next
    <3>1. readers2[q] = produced /\ events2[q] = e /\ readers2[q + 1] = produced'
      BY <1>1, <1>3, <1>7, <2>1
    <3>2. q \notin dropped /\ q = e.sequence
      BY <1>1, <1>2, <2>1
    <3>3. QED
      BY <1>2, <3>1, <3>2
  <2>2. CASE q \in 0..(next - 1)
    <3>1. /\ readers2[q] = readers[q] /\ events2[q] = events[q]
          /\ readers2[q + 1] = readers[q + 1]
      BY <1>1, <1>7, <2>2
    <3>2. /\ readers[q + 1] = Logged!After(readers[q], events[q])
          /\ \/ Logged!Accepts(readers[q], events[q])
             \/ q \in refused /\ Durable(events[q])
          /\ q \in dropped => ~Durable(events[q])
      BY <2>2 DEF Chain
    <3>3. QED
      BY <1>2, <3>1, <3>2
  <2>3. QED
    BY <1>1, <2>1, <2>2
<1>9. ASSUME NEW q \in DOMAIN log'
      PROVE  log'[q] = events2[q]
  <2>1. CASE q = next
    BY <1>1, <1>7, <2>1, RetainLog
  <2>2. CASE q # next
    <3>1. q \in DOMAIN log /\ log'[q] = log[q]
      BY <1>1, <2>2, RetainLog
    <3>2. log[q] = events[q] /\ q \in 0..(next - 1)
      BY <1>1, <3>1 DEF Chain
    <3>3. QED
      BY <1>7, <3>1, <3>2
  <2>3. QED
    BY <2>1, <2>2
<1>10. ASSUME NEW p \in 0..(next + 1), NEW q \in 0..(next + 1),
              p <= q, p..(q - 1) \subseteq dropped
       PROVE  Behind(readers2[p], readers2[q])
  <2>1. CASE q = next + 1
    <3>1. p = next + 1
      <4>1. SUFFICES ASSUME p # next + 1 PROVE FALSE
        OBVIOUS
      <4>2. next \in p..(q - 1)
        BY <1>1, <2>1, <4>1
      <4>3. QED
        BY <1>1, <1>10, <4>2
    <3>2. QED
      BY <1>6, <2>1, <3>1, BehindItself
  <2>2. CASE q # next + 1
    <3>1. p \in 0..next /\ q \in 0..next
      BY <1>1, <1>10, <2>2
    <3>2. Behind(readers[p], readers[q])
      BY <1>10, <3>1 DEF Chain
    <3>3. QED
      BY <1>7, <3>1, <3>2
  <2>3. QED
    BY <2>1, <2>2
<1>11. next' = next + 1 /\ next' - 1 = next /\ dropped' = dropped
  BY <1>1, <1>2
<1> HIDE DEF next
<1>12. Chain(events2, readers2)'
  <2>1. /\ events2 \in [0..(next_event_sequence - 1)' -> Event]
        /\ readers2 \in [0..next_event_sequence' -> Logged!Validator]
        /\ readers2[next_event_sequence'] = produced'
    BY <1>6, <1>7, <1>11 DEF next
  <2>2. \A q \in 0..(next_event_sequence' - 1) :
          /\ readers2[q + 1] = Logged!After(readers2[q], events2[q])
          /\ \/ Logged!Accepts(readers2[q], events2[q])
             \/ q \in refused' /\ Durable(events2[q])
          /\ q \in dropped' => ~Durable(events2[q])
    BY <1>8, <1>11 DEF next
  <2>3. \A p, q \in 0..next_event_sequence' :
          (p <= q /\ p..(q - 1) \subseteq dropped') => Behind(readers2[p], readers2[q])
    BY <1>10, <1>11 DEF next
  <2>4. QED
    BY <1>9, <2>1, <2>2, <2>3 DEF Chain
<1>13. QED
  BY <1>7, <1>12 DEF next

\* A dropped partial only leaves the client behind.
LEMMA ChainDrops ==
  ASSUME LogInv, NEW events, NEW readers, Chain(events, readers),
         UNCHANGED storeVars, NEW u, next_event_sequence = u + 1, u \in Nat,
         ~Durable(events[u]), dropped' = dropped \cup {u}
  PROVE  Chain(events, readers)'
<1>1. /\ UNCHANGED <<log, next_event_sequence, produced, refused>>
  BY DEF storeVars
<1>2. /\ events \in [0..u -> Event] /\ readers \in [0..(u + 1) -> Logged!Validator]
      /\ readers[u + 1] = produced
  BY DEF Chain
<1>3. \A q \in 0..u :
        /\ readers[q + 1] = Logged!After(readers[q], events[q])
        /\ \/ Logged!Accepts(readers[q], events[q])
           \/ q \in refused /\ Durable(events[q])
        /\ q \in dropped => ~Durable(events[q])
  BY DEF Chain
<1>4. \A q \in DOMAIN log : log[q] = events[q]
  BY DEF Chain
<1>5. Behind(readers[u], readers[u + 1])
  <2>1. /\ readers[u + 1] = Logged!After(readers[u], events[u])
        /\ Logged!Accepts(readers[u], events[u])
    BY <1>3
  <2>2. events[u] \in Event /\ readers[u] \in Logged!Validator
    BY <1>2
  <2>3. events[u].kind = "partial"
    BY DEF Durable
  <2>4. QED
    BY <2>1, <2>2, <2>3, BehindPartial
<1>6. ASSUME NEW p \in 0..(u + 1), NEW q \in 0..(u + 1),
             p <= q, p..(q - 1) \subseteq dropped'
      PROVE  Behind(readers[p], readers[q])
  <2>1. ASSUME p..(q - 1) \subseteq dropped
        PROVE  Behind(readers[p], readers[q])
    BY <1>6, <2>1 DEF Chain
  <2>2. CASE p..(q - 1) \subseteq dropped
    BY <2>1, <2>2
  <2>3. CASE ~(p..(q - 1) \subseteq dropped)
    <3>1. u \in p..(q - 1)
      BY <1>6, <2>3
    <3>2. q = u + 1 /\ p <= u
      BY <1>6, <3>1
    <3>3. p..(u - 1) \subseteq dropped
      BY <1>6, <3>2
    <3>4. Behind(readers[p], readers[u])
      BY <3>2, <3>3 DEF Chain
    <3>5. /\ readers[p] \in Logged!Validator /\ readers[u] \in Logged!Validator
          /\ readers[u + 1] \in Logged!Validator
      BY <1>2
    <3>6. QED
      BY <1>5, <3>2, <3>4, <3>5, BehindTransitive
  <2>4. QED
    BY <2>2, <2>3
<1>7. next_event_sequence' = u + 1 /\ next_event_sequence' - 1 = u
  BY <1>1
<1>8. Chain(events, readers)'
  <2>1. /\ events \in [0..(next_event_sequence' - 1) -> Event]
        /\ readers \in [0..next_event_sequence' -> Logged!Validator]
        /\ readers[next_event_sequence'] = produced'
    BY <1>1, <1>2, <1>7
  <2>2. \A q \in 0..(next_event_sequence' - 1) :
          /\ readers[q + 1] = Logged!After(readers[q], events[q])
          /\ \/ Logged!Accepts(readers[q], events[q])
             \/ q \in refused' /\ Durable(events[q])
          /\ q \in dropped' => ~Durable(events[q])
    BY <1>1, <1>3, <1>7
  <2>3. \A p, q \in 0..next_event_sequence' :
          (p <= q /\ p..(q - 1) \subseteq dropped') => Behind(readers[p], readers[q])
    BY <1>6, <1>7
  <2>4. QED
    BY <1>1, <1>4, <2>1, <2>2, <2>3 DEF Chain
<1>9. QED
  BY <1>8

\* Only a partial that meets a full queue is dropped.
LEMMA DropSteps ==
  ASSUME LogInv, DeliveryInv, [Next]_vars
  PROVE  \/ UNCHANGED dropped
         \/ /\ UNCHANGED storeVars
            /\ \E e \in unsent : ~Durable(e) /\ dropped' = dropped \cup {e.sequence}
BY DEF Next, Worker, Transcribe, Handler, Reopen, vars, Consume, FinishWindow,
   Break, PostProcess, EndTranscript, AppendEvent, QueueEvent, WorkerFails,
   Ready, ReplayRaises, QueueReplay, ReplayDone, AcceptAudio, ClientEnds,
   ClientCancels, Deliver, Disconnect, Release, Resume, FinalizePartial,
   StartWorker, StartWorkerFrom

LEMMA ChainNext ==
  ASSUME LogInv, DeliveryInv, [Next]_vars, NEW events, NEW readers,
         Chain(events, readers), Carried(events, readers)
  PROVE  \E events2, readers2 :
           /\ Chain(events2, readers2)'
           /\ \A q \in 0..(next_event_sequence - 1) : events2[q] = events[q]
           /\ \A q \in 0..next_event_sequence : readers2[q] = readers[q]
<1>1. CASE UNCHANGED dropped /\ UNCHANGED storeVars
  <2>1. Chain(events, readers)'
    BY <1>1 DEF storeVars, Chain
  <2>2. QED
    BY <2>1
<1>2. ASSUME NEW e \in unsent, ~Durable(e), dropped' = dropped \cup {e.sequence},
             UNCHANGED storeVars
      PROVE  Chain(events, readers)'
  <2>1. e.sequence \in Nat /\ next_event_sequence = e.sequence + 1
    <3>1. e.sequence \in Nat /\ next_event_sequence \in Nat
      BY <1>2, QueueTypes DEF LogInv
    <3>2. e.sequence = next_event_sequence - 1
      BY <1>2 DEF DeliveryInv, SentIsLogged
    <3>3. QED
      BY <3>1, <3>2
  <2>2. e = events[e.sequence]
    BY DEF Carried
  <2>3. QED
    BY <1>2, <2>1, <2>2, ChainDrops
<1>3. CASE (AppendEvent \/ FinalizePartial) /\ UNCHANGED dropped
  <2>1. PICK e \in Event : Fits(e) /\ Retain(e)
    BY <1>3, RetainSteps
  <2>2. QED
    BY <1>3, <2>1, ChainRetains
<1>4. AppendEvent \/ FinalizePartial => UNCHANGED dropped
  BY DEF AppendEvent, FinalizePartial
<1>5. QED
  BY <1>1, <1>2, <1>3, <1>4, StoreSteps, DropSteps

\* What a step puts on its way to the client was there before, or is in the
\* log, or is the event retained with it.
LEMMA CarriedFrom ==
  ASSUME LogInv, DeliveryInv, [Next]_vars
  PROVE  LET From == {outgoing[i] : i \in DOMAIN outgoing} \cup snapshot \cup unsent
         IN /\ \A i \in DOMAIN outgoing' : outgoing'[i] \in From
            /\ \A e \in snapshot' : e \in From \/ \E q \in DOMAIN log : e = log[q]
            /\ \A e \in unsent' :
                 \/ e \in From
                 \/ next_event_sequence \in DOMAIN log' /\ e = log'[next_event_sequence]
<1> DEFINE From == {outgoing[i] : i \in DOMAIN outgoing} \cup snapshot \cup unsent
<1>1. outgoing \in Seq(Event) /\ snapshot \subseteq Event /\ unsent \subseteq Event
  BY DEF LogInv, TypeOK
<1>2. \A i \in DOMAIN outgoing' : outgoing'[i] \in From
  <2>1. CASE UNCHANGED outgoing
    BY <2>1
  <2>2. CASE outgoing' = << >>
    BY <2>2, EmptySeq
  <2>3. ASSUME NEW e \in snapshot \cup unsent, outgoing' = Append(outgoing, e)
        PROVE  \A i \in DOMAIN outgoing' : outgoing'[i] \in From
    <3>1. e \in Event /\ DOMAIN outgoing = 1..Len(outgoing)
      BY <1>1
    <3>2. /\ DOMAIN outgoing' = 1..(Len(outgoing) + 1) /\ Len(outgoing) \in Nat
          /\ outgoing'[Len(outgoing) + 1] = e
          /\ \A i \in DOMAIN outgoing : outgoing'[i] = outgoing[i]
      BY <1>1, <2>3, <3>1, AppendProperties
    <3>3. QED
      BY <3>1, <3>2
  <2>4. CASE outgoing # << >> /\ outgoing' = Tail(outgoing)
    <3>1. /\ DOMAIN outgoing = 1..Len(outgoing) /\ Len(outgoing) \in Nat
          /\ DOMAIN outgoing' = 1..(Len(outgoing) - 1)
          /\ \A i \in DOMAIN outgoing' : outgoing'[i] = outgoing[i + 1]
      BY <1>1, <2>4, HeadTailProperties
    <3>2. QED
      BY <3>1
  <2>5. \/ UNCHANGED outgoing \/ outgoing' = << >>
        \/ \E e \in snapshot \cup unsent : outgoing' = Append(outgoing, e)
        \/ outgoing # << >> /\ outgoing' = Tail(outgoing)
    BY DEF Next, Worker, Transcribe, Handler, Reopen, vars, Consume, FinishWindow,
       Break, PostProcess, EndTranscript, AppendEvent, QueueEvent, WorkerFails,
       Ready, ReplayRaises, QueueReplay, ReplayDone, AcceptAudio, ClientEnds,
       ClientCancels, Deliver, Disconnect, Release, Resume, FinalizePartial,
       StartWorker, StartWorkerFrom
  <2>6. QED
    BY <2>1, <2>2, <2>3, <2>4, <2>5
<1>3. \A e \in snapshot' : e \in From \/ \E q \in DOMAIN log : e = log[q]
  <2>1. \/ snapshot' \subseteq snapshot
        \/ snapshot' = {log[q] : q \in {r \in DOMAIN log : r > highest}}
    BY DEF Next, Worker, Transcribe, Handler, Reopen, vars, Consume, FinishWindow,
       Break, PostProcess, EndTranscript, AppendEvent, QueueEvent, WorkerFails,
       Ready, ReplayRaises, QueueReplay, ReplayDone, AcceptAudio, ClientEnds,
       ClientCancels, Deliver, Disconnect, Release, Resume, FinalizePartial,
       StartWorker, StartWorkerFrom
  <2>2. QED
    BY <2>1
<1>4. \A e \in unsent' :
        \/ e \in From
        \/ next_event_sequence \in DOMAIN log' /\ e = log'[next_event_sequence]
  <2>1. CASE AppendEvent
    <3>1. PICK e \in hand : Retain(Payload(e)) /\ unsent' = {Payload(e)}
      BY <2>1, AppendRetains
    <3>2. Payload(e) \in Event
      BY HandFitsLog
    <3>3. next_event_sequence \in DOMAIN log' /\ log'[next_event_sequence] = Payload(e)
      BY <3>1, <3>2, RetainsLatest DEF Retain, LogInv
    <3>4. QED
      BY <3>1, <3>3
  <2>2. CASE ~AppendEvent
    <3>1. unsent' \subseteq unsent
      BY <2>2 DEF Next, Worker, Transcribe, Handler, Reopen, vars, Consume,
         FinishWindow, Break, PostProcess, EndTranscript, QueueEvent, WorkerFails,
         Ready, ReplayRaises, QueueReplay, ReplayDone, AcceptAudio, ClientEnds,
         ClientCancels, Deliver, Disconnect, Release, Resume, FinalizePartial,
         StartWorker, StartWorkerFrom
    <3>2. QED
      BY <3>1
  <2>3. QED
    BY <2>1, <2>2
<1>5. QED
  BY <1>2, <1>3, <1>4

\* What is on its way to the client is in the chain.
LEMMA CarriedNext ==
  ASSUME LogInv, DeliveryInv, SentInOrder, early = {}, [Next]_vars,
         NEW events, NEW readers, Chain(events, readers), Carried(events, readers),
         NEW events2, NEW readers2, Chain(events2, readers2)',
         \A q \in 0..(next_event_sequence - 1) : events2[q] = events[q],
         LogInOrder'
  PROVE  /\ \A i \in DOMAIN outgoing' :
              outgoing'[i] = events2[outgoing'[i].sequence]
         /\ \A e \in snapshot' \cup unsent' : e = events2[e.sequence]
<1> DEFINE next == next_event_sequence
           From == {outgoing[i] : i \in DOMAIN outgoing} \cup snapshot \cup unsent
<1>1. next \in Nat /\ highest \in Int /\ highest + 1 \in 0..next
  BY StreamFacts
<1>2. ASSUME NEW e \in From PROVE e = events2[e.sequence]
  <2>1. e.sequence \in (highest + 1)..(next - 1)
    BY <1>2, StreamFacts
  <2>2. e = events[e.sequence]
    BY <1>2 DEF Carried
  <2>3. e.sequence \in 0..(next - 1)
    BY <1>1, <2>1
  <2>4. QED
    BY <2>2, <2>3
<1>3. \A q \in DOMAIN log : log[q] = events2[log[q].sequence]
  BY DEF Chain, LogInv, LogInOrder, TypeOK
<1>4. \A q \in DOMAIN log' : log'[q] = events2[log'[q].sequence]
  BY DEF Chain, LogInOrder
<1> HIDE DEF next
<1>5. /\ \A i \in DOMAIN outgoing' : outgoing'[i] \in From
      /\ \A e \in snapshot' : e \in From \/ \E q \in DOMAIN log : e = log[q]
      /\ \A e \in unsent' : e \in From \/ \E q \in DOMAIN log' : e = log'[q]
  BY CarriedFrom
<1> HIDE DEF From
<1>6. QED
  BY <1>2, <1>3, <1>4, <1>5

\* What the client reads is the next of the chain it was not denied by a full
\* queue, so it may be behind the validator of the log, and reads on as it does.
LEMMA SeenNext ==
  ASSUME LogInv, DeliveryInv, SentInOrder, early = {}, [Next]_vars,
         NEW events, NEW readers, Chain(events, readers), Carried(events, readers)
  PROVE  /\ highest' + 1 \in 0..next_event_sequence
         /\ Behind(seen', readers[highest' + 1])
         /\ Deliver => Reads(Head(outgoing))
<1>1. /\ next_event_sequence \in Nat /\ highest \in Int
      /\ highest + 1 \in 0..next_event_sequence
  BY StreamFacts
<1>2. CASE Deliver
  <2> DEFINE e == Head(outgoing)
             q == e.sequence
  <2>1. /\ e = outgoing[1] /\ 1 \in DOMAIN outgoing /\ e \in Event
        /\ highest' = q /\ seen' = Logged!After(seen, e)
        /\ highest + 1 <= q /\ (highest + 1)..(q - 1) \subseteq dropped
    BY <1>2, DeliverInOrder
  <2>2. q \in (highest + 1)..(next_event_sequence - 1) /\ q \in Nat
    BY <1>1, <2>1, StreamFacts
  <2>3. e = events[q]
    BY <2>1 DEF Carried
  <2> HIDE DEF e, q
  <2>4. /\ q \in 0..(next_event_sequence - 1) /\ q \in 0..next_event_sequence
        /\ q + 1 \in 0..next_event_sequence
    BY <1>1, <2>2
  <2>5. /\ readers[q] \in Logged!Validator /\ readers[highest + 1] \in Logged!Validator
        /\ seen \in Logged!Validator
    BY <1>1, <2>4 DEF Chain, LogInv, TypeOK
  <2>6. Behind(seen, readers[q])
    <3>1. Behind(readers[highest + 1], readers[q])
      BY <1>1, <2>1, <2>4 DEF Chain
    <3>2. Behind(seen, readers[highest + 1])
      BY DEF Carried
    <3>3. QED
      BY <2>5, <3>1, <3>2, BehindTransitive
  <2>7. /\ readers[q + 1] = Logged!After(readers[q], e)
        /\ Logged!Accepts(readers[q], e) \/ q \in refused
    BY <2>3, <2>4 DEF Chain
  <2>8. Behind(seen', readers[highest' + 1])
    BY <2>1, <2>5, <2>6, <2>7, BehindAfter
  <2>9. Reads(e)
    <3>1. seen.last_sequence = highest
      BY DEF SentInOrder
    <3>2. q > seen.last_sequence
      BY <1>1, <2>1, <2>2, <3>1
    <3>3. Skipped(e) \subseteq dropped
      BY <2>1, <3>1 DEF Skipped, q
    <3>4. q \in refused
            \/ Logged!Accepts([seen EXCEPT !.last_sequence = Logged!None], e)
      BY <2>1, <2>5, <2>6, <2>7, BehindAccepts
    <3>5. QED
      BY <3>2, <3>3, <3>4 DEF Reads, q
  <2>10. QED
    BY <2>1, <2>4, <2>8, <2>9 DEF e
<1>3. CASE ~Deliver
  <2>1. UNCHANGED <<seen, highest>>
    BY <1>3 DEF Next, Worker, Transcribe, Handler, Reopen, vars, clientVars,
       Consume, FinishWindow, Break, PostProcess, EndTranscript, AppendEvent,
       QueueEvent, WorkerFails, Ready, ReplayRaises, QueueReplay, ReplayDone,
       AcceptAudio, ClientEnds, ClientCancels, Disconnect, Release, Resume,
       FinalizePartial, StartWorker, StartWorkerFrom
  <2>2. QED
    BY <1>1, <1>3, <2>1 DEF Carried
<1>4. QED
  BY <1>2, <1>3

LEMMA StreamNext ==
  ASSUME LogInv, DeliveryInv, StreamInv, [Next]_vars, LogInv'
  PROVE  /\ StreamInv'
         /\ Deliver => Reads(Head(outgoing)) \/ early # {}
<1>1. CASE early' # {}
  <2>1. StreamInv'
    BY <1>1 DEF StreamInv
  <2>2. Deliver => early' = early
    BY DEF Deliver, storeVars
  <2>3. QED
    BY <1>1, <2>1, <2>2
<1>2. CASE early' = {}
  <2>1. early = {}
    BY <1>2, EarlyGrows
  <2>2. /\ SentInOrder
        /\ \E events, readers : Chain(events, readers) /\ Carried(events, readers)
    BY <2>1 DEF StreamInv
  <2>3. PICK events, readers : Chain(events, readers) /\ Carried(events, readers)
    BY <2>2
  <2>4. \A e, f \in snapshot : e.sequence = f.sequence => e = f
    <3>1. \A e \in snapshot : e = events[e.sequence]
      BY <2>3 DEF Carried
    <3>2. QED
      BY <3>1
  <2>5. SentInOrder'
    BY <1>2, <2>1, <2>2, <2>4, InOrderNext
  <2>6. PICK events2, readers2 :
          /\ Chain(events2, readers2)'
          /\ \A q \in 0..(next_event_sequence - 1) : events2[q] = events[q]
          /\ \A q \in 0..next_event_sequence : readers2[q] = readers[q]
    BY <2>3, ChainNext
  <2>7. /\ highest' + 1 \in 0..next_event_sequence
        /\ Behind(seen', readers[highest' + 1])
        /\ Deliver => Reads(Head(outgoing))
    BY <2>1, <2>2, <2>3, SeenNext
  <2>8. /\ \A i \in DOMAIN outgoing' :
              outgoing'[i] = events2[outgoing'[i].sequence]
        /\ \A e \in snapshot' \cup unsent' : e = events2[e.sequence]
    BY <2>1, <2>2, <2>3, <2>6, CarriedNext DEF LogInv
  <2>9. Behind(seen', readers2[highest' + 1])
    BY <2>6, <2>7
  <2>10. Carried(events2, readers2)'
    BY <2>8, <2>9 DEF Carried
  <2>11. StreamInv'
    BY <2>5, <2>6, <2>10 DEF StreamInv
  <2>12. QED
    BY <2>7, <2>11
<1>3. QED
  BY <1>1, <1>2

LEMMA InitStream == Init => StreamInv
<1> SUFFICES ASSUME Init PROVE StreamInv
  OBVIOUS
<1> DEFINE new == Logged!NewValidator
<1>1. PICK events : events = [q \in 0..(-1) |-> NoEvent]
  OBVIOUS
<1>2. PICK readers : readers = [q \in 0..0 |-> new]
  OBVIOUS
<1>3. /\ next_event_sequence = 0 /\ log = << >> /\ highest = -1
      /\ outgoing = << >> /\ snapshot = {} /\ unsent = {} /\ conn = "starting"
      /\ produced = new /\ seen = new
  BY DEF Init
<1>4. new \in Logged!Validator /\ new.last_sequence = -1
  <2>1. new \in Logged!Validator
    BY <1>3, InitLog DEF LogInv, TypeOK
  <2>2. new.last_sequence = -1
    BY DEF Logged!NewValidator, Logged!None
  <2>3. QED
    BY <2>1, <2>2
<1> HIDE DEF new
<1>5. 0..(-1) = {} /\ DOMAIN log = {} /\ DOMAIN outgoing = {} /\ 0 - 1 = -1
  BY <1>3, EmptySeq
<1>6. events \in [0..(-1) -> Event] /\ readers \in [0..0 -> Logged!Validator]
      /\ readers[0] = new
  BY <1>1, <1>2, <1>4, <1>5
<1>7. Behind(new, new)
  BY <1>4, BehindItself
<1>8. Chain(events, readers)
  <2>1. \A p, q \in 0..0 : Behind(readers[p], readers[q])
    BY <1>6, <1>7
  <2>2. QED
    BY <1>3, <1>5, <1>6, <2>1 DEF Chain
<1>9. Carried(events, readers)
  BY <1>3, <1>5, <1>6, <1>7 DEF Carried
<1>10. SentInOrder
  BY <1>3, <1>4, <1>5 DEF SentInOrder, Connected
<1>11. QED
  BY <1>8, <1>9, <1>10 DEF StreamInv

\* Over all its connections the client receives what the session logged, each
\* event once and in order, with gaps for dropped partials only, and can read it
\* as far as the log can be read, until a live event overtakes a replay.
THEOREM ClientStreamIsLegal == Spec => ClientFollowsProtocol
<1>1. LogInv /\ LogInv' /\ DeliveryInv /\ StreamInv /\ [Next]_vars
        => StreamInv' /\ [Deliver => Reads(Head(outgoing)) \/ early # {}]_vars
  BY StreamNext
<1>2. Spec => []LogInv
  BY LogInvariant
<1>3. Spec => []DeliveryInv
  BY DeliveryInvariant
<1>4. QED
  BY <1>1, <1>2, <1>3, InitStream, PTL DEF Spec, ClientFollowsProtocol
=============================================================================
