--------------------------- MODULE EventProtocol ---------------------------
(***************************************************************************)
(* The protocol of transcript events: what EventStreamValidator accepts.   *)
(*                                                                         *)
(* This is the abstract specification that every producer of events is     *)
(* held to: a stream, each event of which the validator accepts.           *)
(* protocol_version and session_id are left out: the server sets both      *)
(* once, outside every path modelled here.                                 *)
(***************************************************************************)
EXTENDS Integers

CONSTANTS
  Segments,     \* segment ids, the terminal event's aside
  Times,        \* time stamps, natural numbers of chunks of audio
  Speakers      \* names of speakers, for producers that merge them

VARIABLES
  validator,    \* the state of an EventStreamValidator
  event         \* the event it accepted last

None == -1      \* a sequence number not seen yet
NoEvent == [kind |-> "none"]

SegmentKinds == {"partial", "commit", "replace"}

Event ==
  [sequence : Nat, segment_id : Segments, kind : SegmentKinds, revision : Nat,
   start : Times, end : Times, acknowledged_sequence : Nat \cup {None}]

\* One speaker turned out to be another; it has a revision of its own and no
\* place in the life of a segment.
MergeEvent ==
  [sequence : Nat, segment_id : Segments, kind : {"speaker_merge"},
   revision : Nat, end : Times, from_speaker : Speakers, to_speaker : Speakers,
   acknowledged_sequence : Nat \cup {None}]

\* The event of kind "end" has a segment id of its own and nothing follows it.
EndEvent ==
  [sequence : Nat, kind : {"end"}, start : Times,
   acknowledged_sequence : Nat \cup {None}]

\* What the validator keeps.
Validator ==
  [revisions : [Segments -> Nat],
   states : [Segments -> {"new"} \cup SegmentKinds],
   ended : BOOLEAN,
   last_commit_start : Nat, max_end : Nat,
   last_sequence : Nat \cup {None},
   last_acknowledged_sequence : Nat \cup {None}]

\* _TRANSITIONS: the kinds that may follow each state of a segment.
MayFollow(state) ==
  CASE state \in {"new", "partial"}    -> {"partial", "commit"}
    [] state \in {"commit", "replace"} -> {"replace"}

NewValidator ==
  [revisions         |-> [s \in Segments |-> 0],
   states            |-> [s \in Segments |-> "new"],
   ended             |-> FALSE,
   last_commit_start |-> 0,
   max_end           |-> 0,
   last_sequence     |-> None,
   last_acknowledged_sequence |-> None]

Later(m, n) == IF m > n THEN m ELSE n

-----------------------------------------------------------------------------
(* accept(event): the errors it raises, then the state it leaves.          *)

AcceptsOrder(v, e) ==
  /\ ~v.ended
  /\ v.last_sequence # None => e.sequence = v.last_sequence + 1
  /\ e.acknowledged_sequence # None =>
       e.acknowledged_sequence >= v.last_acknowledged_sequence

AcceptsEnd(v, e) ==
  /\ \A s \in Segments : v.states[s] # "partial"
  /\ e.start >= v.max_end

AcceptsRevision(v, e) == e.revision > v.revisions[e.segment_id]

AcceptsMerge(v, e) == AcceptsRevision(v, e) /\ e.from_speaker # e.to_speaker

AcceptsSegment(v, e) ==
  /\ AcceptsRevision(v, e)
  /\ e.kind \in MayFollow(v.states[e.segment_id])
  /\ e.kind = "commit" => e.start >= v.last_commit_start

Accepts(v, e) ==
  /\ AcceptsOrder(v, e)
  /\ CASE e.kind = "end"           -> AcceptsEnd(v, e)
       [] e.kind = "speaker_merge" -> AcceptsMerge(v, e)
       [] OTHER                    -> AcceptsSegment(v, e)

AfterOrder(v, e) ==
  [v EXCEPT
     !.last_sequence = e.sequence,
     !.last_acknowledged_sequence =
        IF e.acknowledged_sequence = None THEN @ ELSE e.acknowledged_sequence]

AfterMerge(v, e) ==
  [v EXCEPT !.revisions[e.segment_id] = e.revision, !.max_end = Later(@, e.end)]

AfterSegment(v, e) ==
  [AfterMerge(v, e) EXCEPT
     !.states[e.segment_id] = e.kind,
     !.last_commit_start = IF e.kind = "commit" THEN e.start ELSE @]

After(v, e) ==
  CASE e.kind = "end"           -> [AfterOrder(v, e) EXCEPT !.ended = TRUE]
    [] e.kind = "speaker_merge" -> AfterMerge(AfterOrder(v, e), e)
    [] OTHER                    -> AfterSegment(AfterOrder(v, e), e)

-----------------------------------------------------------------------------
Init == validator = NewValidator /\ event = NoEvent

Accept ==
  /\ event' \in Event \cup MergeEvent \cup EndEvent
  /\ Accepts(validator, event')
  /\ validator' = After(validator, event')

Spec == Init /\ [][Accept]_<<validator, event>>

=============================================================================
