------------------------- MODULE LiveTranscription -------------------------
(***************************************************************************)
(* transcribe_events over an endpointed batch backend.  In live mode,      *)
(* live_windows cuts the chunks into growing and final windows, the        *)
(* backend hears something in each, LocalAgreement holds back what two     *)
(* hypotheses do not agree on, and the events go out.  Otherwise           *)
(* utterances cuts final windows only, and every hypothesis is committed.  *)
(*                                                                         *)
(* Durations are whole numbers of a unit.  A text is a sequence of         *)
(* characters; casefold says what letters a character counts as when texts *)
(* are compared: one, several, or none for punctuation and space.  What    *)
(* the backend hears is chosen freely among Texts.                         *)
(***************************************************************************)
EXTENDS Integers, SequencesExt

CONSTANTS
  Durations,        \* of a chunk
  silence_seconds, max_seconds, partial_seconds,
  casefold,         \* [characters -> sequences of letters]
  Texts,            \* what a backend may hear in a window
  MaxChunks         \* bound: chunks of the input, and commits of a batch

Characters == DOMAIN casefold
Letters == UNION {{casefold[c][i] : i \in DOMAIN casefold[c]} : c \in Characters}

ASSUME LiveAssumption ==
  /\ Durations \subseteq Nat \ {0}
  /\ silence_seconds \in Nat /\ max_seconds \in Nat \ {0}
  /\ partial_seconds \in Nat \ {0}
  /\ casefold \in [Characters -> Seq(Letters)]
  /\ Texts \subseteq Seq(Characters) /\ << >> \in Texts
  /\ MaxChunks \in Nat

VARIABLES
  live,             \* which of the two
  taken,            \* chunks taken from the input
  voiced,           \* those whose level reaches the threshold
  ended,            \* the input has ended
  active, preroll, silence, duration, next_partial,   \* live_windows
  window,           \* what it yielded and is not transcribed yet
  committed, committed_key, history,                  \* LocalAgreement
  index, revision,
  event,            \* the event yielded last, and what it was made from
  heard,            \* the chunks handed to the backend in final windows
  split,            \* whether an agreement was cut inside a character,
  sources,          \* the windows (by their first chunk) that had a vote, and
  silent            \* the final ones without a word, all since the last commit

cutting == <<active, preroll, silence, duration, next_partial>>
agreement == <<committed, committed_key, history, split, sources>>
vars == <<live, taken, voiced, ended, cutting, window, agreement, index, revision,
          event, heard, silent>>

None == [kind |-> "none"]

Chunks == [number : 1..MaxChunks, duration : Durations]
TypeOK ==
  /\ live \in BOOLEAN
  /\ taken \in 0..MaxChunks
  /\ voiced \subseteq 1..taken
  /\ ended \in BOOLEAN
  /\ active \in Seq(Chunks) /\ preroll \in Seq(Chunks)
  /\ silence \in Nat /\ duration \in Nat /\ next_partial \in Nat
  /\ window \in {None} \cup [kind : {"partial", "final"},
                         chunks : Seq(Chunks) \ {<< >>}]
  /\ committed \in Seq(Characters) /\ committed_key \in Seq(Letters)
  /\ history \in Seq(Texts) /\ Len(history) <= 2
  /\ index \in Nat /\ revision \in Nat \ {0}
  /\ heard \in Seq(1..MaxChunks)
  /\ split \in BOOLEAN
  /\ sources \subseteq 1..MaxChunks /\ silent \subseteq 1..MaxChunks

Init ==
  /\ live \in BOOLEAN
  /\ taken = 0 /\ voiced = {} /\ ended = FALSE
  /\ active = << >> /\ preroll = << >>
  /\ silence = 0 /\ duration = 0 /\ next_partial = partial_seconds
  /\ window = None
  /\ committed = << >> /\ committed_key = << >> /\ history = << >>
  /\ index = 0 /\ revision = 1
  /\ event = None
  /\ heard = << >>
  /\ split = FALSE /\ sources = {} /\ silent = {}

-----------------------------------------------------------------------------
(* live_windows and utterances                                             *)

Length(chunks) == FoldLeft(LAMBDA sum, c : sum + c.duration, 0, chunks)

\* Mutant: the chunk before the voice takes its place.
ExtendedByPreroll(chunk) ==
  IF active = << >> /\ preroll # << >> THEN preroll ELSE Append(active, chunk)

\* A voiced chunk opens a window, with the chunk before it; an open one grows.
Extended(chunk) ==
  IF active = << >> THEN Append(preroll, chunk) ELSE Append(active, chunk)

\* Silence before any voice: the last chunk of it is remembered.
Skip(chunk) ==
  /\ preroll' = <<chunk>>
  /\ UNCHANGED <<active, silence, duration, next_partial, window>>

\* The window is over: silent for long enough, or long enough.
Finishes(newSilence, newDuration) ==
  newSilence >= silence_seconds \/ newDuration >= max_seconds

Reset ==
  /\ active' = << >> /\ preroll' = << >>
  /\ silence' = 0 /\ duration' = 0 /\ next_partial' = partial_seconds

Grow(chunk, isVoiced) ==
  LET chunks == Extended(chunk)
      newDuration == Length(chunks)
      newSilence == IF isVoiced \/ active = << >> THEN 0
                    ELSE silence + chunk.duration
  IN IF Finishes(newSilence, newDuration)
     THEN window' = [kind |-> "final", chunks |-> chunks] /\ Reset
     ELSE /\ active' = chunks /\ preroll' = << >>
          /\ silence' = newSilence /\ duration' = newDuration
          /\ IF live /\ newDuration >= next_partial
             THEN /\ window' = [kind |-> "partial", chunks |-> chunks]
                  /\ next_partial' = next_partial + partial_seconds
             ELSE UNCHANGED <<window, next_partial>>

TakeChunk ==
  /\ ~ended /\ window = None /\ taken < MaxChunks
  /\ \E length \in Durations, isVoiced \in BOOLEAN :
       LET chunk == [number |-> taken + 1, duration |-> length] IN
       /\ taken' = taken + 1
       /\ voiced' = IF isVoiced THEN voiced \cup {taken + 1} ELSE voiced
       /\ IF active = << >> /\ ~isVoiced
          THEN Skip(chunk) ELSE Grow(chunk, isVoiced)
  /\ UNCHANGED <<live, ended, agreement, index, revision, event, heard, silent>>

\* The input ends: what is open is the last window.
InputEnds ==
  /\ ~ended /\ window = None
  /\ ended' = TRUE
  /\ IF active = << >> THEN UNCHANGED <<cutting, window>>
     ELSE window' = [kind |-> "final", chunks |-> active] /\ Reset
  /\ UNCHANGED <<live, taken, voiced, agreement, index, revision, event, heard,
                 silent>>

-----------------------------------------------------------------------------
(* stabilizer.py                                                           *)

\* _normalized: the letters of a text, and behind which character each ends.
Key(text) == FlattenSeq([i \in DOMAIN text |-> casefold[text[i]]])
Boundaries(text) ==
  FlattenSeq([i \in DOMAIN text |-> [j \in DOMAIN casefold[text[i]] |-> i]])

common_prefix(left, right) == LongestCommonPrefix({left, right})

_suffix_after_normalized(text, length) ==
  IF length <= 0 THEN text
  ELSE IF length > Len(Boundaries(text)) THEN << >>
  ELSE SubSeq(text, Boundaries(text)[length] + 1, Len(text))

_prefix_through_normalized(text, length) ==
  IF length <= 0 THEN << >>
  ELSE IF length > Len(Boundaries(text)) THEN text
  ELSE SubSeq(text, 1, Boundaries(text)[length])

\* The first so many letters of the text end inside one of its characters.
Splits(text, length) ==
  /\ length \in 1 .. Len(Boundaries(text)) - 1
  /\ Boundaries(text)[length] = Boundaries(text)[length + 1]

\* What the latest two hypotheses have in common.
agreed_key(hypotheses) ==
  IF Len(hypotheses) < 2 THEN << >>
  ELSE common_prefix(Key(hypotheses[1]), Key(hypotheses[2]))

Latest(hypotheses, text) ==
  IF Len(hypotheses) = 2 THEN <<hypotheses[2], text>> ELSE Append(hypotheses, text)

\* update, not final: what is agreed on and goes beyond what is committed is.
UpdatePartial(text) ==
  LET latest == Latest(history, text)
      agreed == agreed_key(latest)
      prefix == _prefix_through_normalized(latest[1], Len(agreed))
      delta == IF IsStrictPrefix(committed_key, agreed)
               THEN _suffix_after_normalized(prefix, Len(committed_key))
               ELSE << >>
  IN /\ history' = latest
     /\ committed' = committed \o delta
     /\ committed_key' = IF delta # << >> THEN agreed ELSE committed_key
     /\ split' = (split \/ (delta # << >> /\ (Splits(latest[1], Len(agreed))
                                            \/ Splits(prefix, Len(committed_key)))))
     /\ sources' = sources \cup {window.chunks[1].number}

\* The text shown for it: what is committed, and the rest if it fits.
PartialText(text) ==
  committed' \o (IF IsPrefix(committed_key', Key(text))
                 THEN _suffix_after_normalized(text, Len(committed_key'))
                 ELSE << >>)

\* Mutant: what is committed stands, whatever the last hypothesis says.
FinalTextKeepsCommitted(text) ==
  committed \o _suffix_after_normalized(text, Len(committed_key))

\* update, final: the committed text goes on, or is replaced altogether.
FinalText(text) ==
  IF IsPrefix(committed_key, Key(text))
  THEN committed \o _suffix_after_normalized(text, Len(committed_key))
  ELSE text

-----------------------------------------------------------------------------
(* The loop over the windows.                                              *)

Yield(kind, text, hypothesis) ==
  event' = [kind |-> kind, index |-> index, revision |-> revision,
            text |-> text, hypothesis |-> hypothesis]

\* The backend hears nothing: no event, and nothing is reset.
HearNothing ==
  /\ window # None
  /\ window' = None
  /\ heard' = IF window.kind = "final"
              THEN heard \o [i \in DOMAIN window.chunks |-> window.chunks[i].number]
              ELSE heard
  /\ silent' = IF live /\ window.kind = "final"
               THEN silent \cup {window.chunks[1].number} ELSE silent
  /\ UNCHANGED <<live, taken, voiced, ended, cutting, agreement, index, revision,
                 event>>

Partial ==
  /\ window # None /\ window.kind = "partial"
  /\ \E text \in Texts \ {<< >>} :
       UpdatePartial(text) /\ Yield("partial", PartialText(text), text)
  /\ revision' = revision + 1
  /\ window' = None
  /\ UNCHANGED <<live, taken, voiced, ended, cutting, index, heard, silent>>

\* Mutant: the agreement is not reset, and keeps what update made of it.
CommitWithoutReset ==
  /\ live /\ window # None /\ window.kind = "final"
  /\ \E text \in Texts \ {<< >>} :
       /\ Yield("commit", FinalText(text), text)
       /\ committed' = FinalText(text) /\ committed_key' = Key(text)
  /\ history' = << >>
  /\ index' = index + 1 /\ revision' = 1
  /\ window' = None
  /\ heard' = heard \o [i \in DOMAIN window.chunks |-> window.chunks[i].number]
  /\ silent' = {}
  /\ UNCHANGED <<live, taken, voiced, ended, cutting, split, sources>>

Commit ==
  /\ live /\ window # None /\ window.kind = "final"
  /\ \E text \in Texts \ {<< >>} : Yield("commit", FinalText(text), text)
  /\ committed' = << >> /\ committed_key' = << >> /\ history' = << >>
  /\ split' = FALSE /\ sources' = {} /\ silent' = {}
  /\ index' = index + 1 /\ revision' = 1
  /\ window' = None
  /\ heard' = heard \o [i \in DOMAIN window.chunks |-> window.chunks[i].number]
  /\ UNCHANGED <<live, taken, voiced, ended, cutting>>

\* One of the hypotheses a batch backend makes of an utterance; HearNothing
\* ends them.
CommitBatch ==
  /\ ~live /\ window # None /\ index < MaxChunks
  /\ \E text \in Texts \ {<< >>} : Yield("commit", text, text)
  /\ index' = index + 1
  /\ UNCHANGED <<live, taken, voiced, ended, cutting, window, agreement, revision,
                 heard, silent>>

Next ==
  \/ TakeChunk
  \/ InputEnds
  \/ HearNothing
  \/ Partial
  \/ Commit
  \/ CommitBatch

Spec == Init /\ [][Next]_vars

-----------------------------------------------------------------------------
Numbers(chunks) == {chunks[i].number : i \in DOMAIN chunks}

\* Endpointing loses no speech and repeats none: every voiced chunk was in
\* exactly one final window or is in the open one, and the windows follow one
\* another in the order of the input, without a hole inside any.
VoicedAudioIsHeard ==
  /\ voiced \subseteq Range(heard) \cup Numbers(active)
                      \cup (IF window = None THEN {} ELSE Numbers(window.chunks))
  /\ \A i, j \in DOMAIN heard : i < j => heard[i] < heard[j]
  /\ \A i \in 2..Len(active) : active[i].number = active[i - 1].number + 1

\* The windows that are still to be committed, by their first chunk.
OpenUtterance ==
  (IF active = << >> THEN {} ELSE {active[1].number})
  \cup (IF window = None THEN {} ELSE {window.chunks[1].number})

\* Agreement is reached within one utterance: no hypothesis has a vote beside
\* those of the open one, and what is committed from the first partial on came
\* from it. The exception is what `continue` leaves behind when the final window
\* of an utterance is without a word: its hypotheses go on voting in the next,
\* in the same segment.
AgreementStaysInUtterance == sources \subseteq silent \cup OpenUtterance

\* The text of a commit says what the last hypothesis said, punctuation and
\* case aside, whatever had been committed from earlier hypotheses. The
\* exception is a character that folds to several letters and had been, or is
\* now, cut between them: a text is cut behind the whole of it.
CommitSaysFinalHypothesis ==
  [][Commit => \/ Key(event'.text) = Key(event'.hypothesis)
               \/ split
               \/ /\ IsPrefix(committed_key, Key(event'.hypothesis))
                  /\ Splits(event'.hypothesis, Len(committed_key))]_vars

-----------------------------------------------------------------------------
(* What the properties rest on: three inductive invariants.                *)

\* The chunks of a window follow one another.
Contiguous(chunks) ==
  \A i \in DOMAIN chunks : chunks[i].number = chunks[1].number + i - 1

\* The open window ends with the chunk taken last.
OpenWindow ==
  /\ Contiguous(active)
  /\ active # << >> => active[Len(active)].number = taken

\* Only the silent chunk taken last is remembered, and only between windows.
Remembered ==
  preroll # << >> => Len(preroll) = 1 /\ preroll[1].number = taken /\ active = << >>

\* A partial window is the open one; a final one has left nothing open.
Yielded ==
  /\ window.kind = "partial" => window.chunks = active
  /\ window.kind = "final" =>
       /\ active = << >> /\ preroll = << >>
       /\ Contiguous(window.chunks) /\ Numbers(window.chunks) \subseteq 1..taken

\* What was heard lies before everything that may still be.
HeardBefore ==
  \A i \in DOMAIN heard :
    /\ heard[i] <= taken
    /\ \A n \in Numbers(active) \cup Numbers(preroll) : heard[i] < n
    /\ window # None => \A n \in Numbers(window.chunks) : heard[i] < n

CutInv == OpenWindow /\ Remembered /\ Yielded /\ HeardBefore /\ VoicedAudioIsHeard

\* The committed key is the key of the committed text, unless cut in a character.
AgreementInv == split \/ committed_key = Key(committed)

\* Only a live session has partial windows, and votes.
VotesInv ==
  /\ AgreementStaysInUtterance
  /\ window.kind = "partial" => live
  /\ ~live => sources = {}

=============================================================================
