---------------------------- MODULE ServerProofs ----------------------------
(***************************************************************************)
(* Of SessionTransport: the two queues of a session carry what they must,  *)
(* for every length of the queues, threshold and number of chunks: no      *)
(* event overtakes a durable one that is owed, and the worker sees the end *)
(* of the input only after all of the audio, but for the one chunk whose   *)
(* place the sentinel may take.  Each queue has an inductive invariant of  *)
(* its own.                                                                *)
(*                                                                         *)
(* Then, of ServerLifecycle: for any clients and any limit every admitted  *)
(* session holds one slot, and pool and store are closed after the last    *)
(* handler.                                                                *)
(***************************************************************************)
EXTENDS SessionTransport, ServerLifecycle, FiniteSetTheorems, SequenceTheorems,
        TLAPS


\* The constants, one by one.
LEMMA Sizes ==
  /\ MaxChunks \in Nat \ {0} /\ MaxFrame \in Nat \ {0}
  /\ InputSize \in Nat \ {0} /\ OutputSize \in Nat \ {0}
BY TransportAssumption

\* What leaves a queue: the rest keeps its order, one place nearer.
LEMMA Taken ==
  ASSUME NEW S, NEW q \in Seq(S), q # << >>
  PROVE  /\ Head(q) = q[1] /\ q[1] \in S
         /\ Tail(q) \in Seq(S) /\ Len(q) \in Nat \ {0}
         /\ Len(Tail(q)) = Len(q) - 1
         /\ \A i \in 1..Len(Tail(q)) : Tail(q)[i] = q[i + 1]
BY HeadTailProperties, EmptySeq, LenProperties

\* What enters a queue comes last.
LEMMA Put ==
  ASSUME NEW S, NEW q \in Seq(S), NEW e \in S
  PROVE  /\ Append(q, e) \in Seq(S) /\ Len(q) \in Nat
         /\ Len(Append(q, e)) = Len(q) + 1
         /\ \A i \in 1..Len(q) : Append(q, e)[i] = q[i]
         /\ Append(q, e)[Len(q) + 1] = e
BY AppendProperties, LenProperties

\* A queue of one item.
LEMMA Single ==
  ASSUME NEW S, NEW e \in S
  PROVE  /\ <<e>> \in Seq(S) /\ Len(<<e>>) = 1 /\ <<e>>[1] = e
         /\ <<e>> # << >>
OBVIOUS

\* The items of outgoing and emitting have numbers.
LEMMA ItemNumbers ==
  ASSUME NEW q \in Seq(Item)
  PROVE  \A i \in 1..Len(q) : q[i] \in Item /\ q[i].seq \in Nat
<1>1. \A i \in 1..Len(q) : q[i] \in Item
  BY ElementOfSeq
<1> QED
  BY <1>1 DEF Item

\* The messages that are not events carry no sequence number.
LEMMA MessageType ==
  \A kind \in {"resume", "error", "none"} :
    Message(kind) \in Item /\ Message(kind).seq = 0 /\ Message(kind).kind = kind
BY DEF Message, Item

\* stop_input leaves a queue of chunks within its bound; with room, it only
\* adds the sentinel.
LEMMA WithStopProperties ==
  ASSUME TypeOK
  PROVE  /\ WithStop \in Seq(Chunks \cup {Stop}) /\ Len(WithStop) <= InputSize
         /\ ~InputFull => /\ Len(WithStop) = Len(incoming) + 1
                          /\ \A i \in 1..Len(incoming) :
                               WithStop[i] = incoming[i]
                          /\ WithStop[Len(incoming) + 1] = Stop
<1> DEFINE S == Chunks \cup {Stop}
<1>1. incoming \in Seq(S) /\ Len(incoming) \in Nat /\ Stop \in S
  BY LenProperties DEF TypeOK
<1>2. CASE InputFull
  <2>1. incoming # << >>
    BY <1>2, Sizes, EmptySeq DEF InputFull
  <2>2. /\ Tail(incoming) \in Seq(S)
        /\ Len(Tail(incoming)) = Len(incoming) - 1
    BY <1>1, <2>1, Taken
  <2>3. /\ Append(Tail(incoming), Stop) \in Seq(S)
        /\ Len(Append(Tail(incoming), Stop)) = Len(incoming)
    BY <1>1, <2>2, Put
  <2> QED
    BY <1>2, <2>3 DEF WithStop, TypeOK
<1>3. CASE ~InputFull
  <2>1. /\ Append(incoming, Stop) \in Seq(S)
        /\ Len(Append(incoming, Stop)) = Len(incoming) + 1
        /\ \A i \in 1..Len(incoming) : Append(incoming, Stop)[i] = incoming[i]
        /\ Append(incoming, Stop)[Len(incoming) + 1] = Stop
    BY <1>1, Put
  <2>2. Len(incoming) + 1 <= InputSize
    BY <1>1, <1>3, Sizes DEF InputFull
  <2> QED
    BY <1>3, <2>1, <2>2 DEF WithStop
<1> QED
  BY <1>2, <1>3

\* In a full queue it takes the place of the oldest chunk.
LEMMA WithStopFull ==
  ASSUME TypeOK, InputFull
  PROVE  /\ Len(incoming) = InputSize /\ Len(WithStop) = InputSize
         /\ \A i \in 1..(InputSize - 1) : WithStop[i] = incoming[i + 1]
         /\ WithStop[InputSize] = Stop
<1> DEFINE S == Chunks \cup {Stop}
           q == Tail(incoming)
<1>1. /\ incoming \in Seq(S) /\ Len(incoming) \in Nat /\ Stop \in S
      /\ Len(incoming) <= InputSize
  BY LenProperties DEF TypeOK
<1>2. Len(incoming) = InputSize /\ InputSize \in Nat \ {0}
  BY <1>1, Sizes DEF InputFull
<1>3. incoming # << >>
  BY <1>2, EmptySeq
<1>4. /\ q \in Seq(S) /\ Len(q) = InputSize - 1
      /\ \A i \in 1..Len(q) : q[i] = incoming[i + 1]
  BY <1>1, <1>2, <1>3, Taken
<1>5. WithStop = Append(q, Stop)
  BY DEF WithStop
<1> HIDE DEF S, q
<1>6. /\ Len(Append(q, Stop)) = InputSize - 1 + 1
      /\ \A i \in 1..(InputSize - 1) : Append(q, Stop)[i] = q[i]
      /\ Append(q, Stop)[InputSize - 1 + 1] = Stop
  BY <1>1, <1>4, Put
<1> QED
  BY <1>2, <1>4, <1>5, <1>6

\* _force_sender_stop leaves outgoing within its bound, with items of it and
\* the sentinel.
LEMMA ForcedStopProperties ==
  ASSUME TypeOK
  PROVE  /\ ForcedStop \in Seq(Item) /\ Len(ForcedStop) <= OutputSize
         /\ \A i \in 1..Len(ForcedStop) :
              \/ ForcedStop[i].seq = 0
              \/ \E j \in 1..Len(outgoing) : ForcedStop[i] = outgoing[j]
<1> DEFINE none == Message("none")
<1>1. outgoing \in Seq(Item) /\ Len(outgoing) \in Nat
  BY LenProperties DEF TypeOK
<1>2. none \in Item /\ none.seq = 0
  BY MessageType
<1> HIDE DEF none
<1>3. CASE OutputFull
  <2>1. outgoing # << >>
    BY <1>3, Sizes, EmptySeq DEF OutputFull
  <2>2. /\ Tail(outgoing) \in Seq(Item)
        /\ Len(Tail(outgoing)) = Len(outgoing) - 1
        /\ \A i \in 1..Len(Tail(outgoing)) : Tail(outgoing)[i] = outgoing[i + 1]
    BY <1>1, <2>1, Taken
  <2>3. /\ Append(Tail(outgoing), none) \in Seq(Item)
        /\ Len(Append(Tail(outgoing), none)) = Len(outgoing)
        /\ \A i \in 1..(Len(outgoing) - 1) :
             Append(Tail(outgoing), none)[i] = outgoing[i + 1]
        /\ Append(Tail(outgoing), none)[Len(outgoing)] = none
    BY <1>1, <1>2, <2>2, Put
  <2>4. ForcedStop = Append(Tail(outgoing), none)
    BY <1>3 DEF ForcedStop, OutputFull, none
  <2>5. Len(ForcedStop) = Len(outgoing)
    BY <2>3, <2>4
  <2>6. ASSUME NEW i \in 1..Len(outgoing)
        PROVE  \/ ForcedStop[i].seq = 0
               \/ \E j \in 1..Len(outgoing) : ForcedStop[i] = outgoing[j]
    <3>1. CASE i = Len(outgoing)
      BY <1>2, <2>3, <2>4, <3>1
    <3>2. CASE i # Len(outgoing)
      <4>1. i \in 1..(Len(outgoing) - 1) /\ i + 1 \in 1..Len(outgoing)
        BY <1>1, <3>2
      <4>2. ForcedStop[i] = outgoing[i + 1]
        BY <2>3, <2>4, <4>1
      <4> QED
        BY <4>1, <4>2
    <3> QED
      BY <3>1, <3>2
  <2> QED
    BY <2>3, <2>4, <2>5, <2>6 DEF TypeOK
<1>4. CASE ~OutputFull
  <2>1. /\ Append(outgoing, none) \in Seq(Item)
        /\ Len(Append(outgoing, none)) = Len(outgoing) + 1
        /\ \A i \in 1..Len(outgoing) : Append(outgoing, none)[i] = outgoing[i]
        /\ Append(outgoing, none)[Len(outgoing) + 1] = none
    BY <1>1, <1>2, Put
  <2>2. ForcedStop = Append(outgoing, none)
    BY <1>4 DEF ForcedStop, OutputFull, none
  <2>3. Len(outgoing) + 1 <= OutputSize
    BY <1>1, <1>4, Sizes DEF OutputFull
  <2>4. \A i \in 1..(Len(outgoing) + 1) :
          i \in 1..Len(outgoing) \/ i = Len(outgoing) + 1
    BY <1>1
  <2> QED
    BY <1>2, <2>1, <2>2, <2>3, <2>4
<1> QED
  BY <1>3, <1>4

-----------------------------------------------------------------------------
(* Types                                                                   *)

\* What Produces queues is an event with the next number.
LEMMA ProducesType ==
  ASSUME TypeOK, Ready, Produces({"partial", "durable"})
  PROVE  /\ produced' = produced + 1 /\ produced' \in Nat
         /\ owed' \subseteq owed \cup {produced + 1}
         /\ owed' \subseteq 1..produced' /\ emitting' \in Seq(Item)
         /\ \E e \in Item :
              /\ emitting' = <<e>> /\ e.seq = produced + 1
              /\ e.kind = "durable" <=> produced + 1 \in owed'
<1>1. PICK kind \in {"partial", "durable"} :
        /\ produced' = produced + 1
        /\ owed' = IF kind = "durable" THEN owed \cup {produced + 1} ELSE owed
        /\ emitting' = Append(emitting, [kind |-> kind, seq |-> produced + 1])
  BY DEF Produces
<1> DEFINE e == [kind |-> kind, seq |-> produced + 1]
<1>2. e \in Item /\ e.seq = produced + 1 /\ e.kind = kind
  BY DEF TypeOK, Item
<1>3. emitting' = <<e>>
  BY <1>1 DEF Ready
<1>4. produced + 1 \notin owed
  BY DEF TypeOK
<1>5. produced' \in Nat /\ owed' \subseteq 1..produced'
  BY <1>1 DEF TypeOK
<1> HIDE DEF e
<1>6. <<e>> \in Seq(Item)
  BY <1>2
<1> QED
  BY <1>1, <1>2, <1>3, <1>4, <1>5, <1>6

\* The types of the input's variables, and of the output's.
InputType ==
  /\ incoming \in Seq(Chunks \cup {Stop}) /\ Len(incoming) <= InputSize
  /\ paused \in BOOLEAN /\ client_paused \in BOOLEAN
  /\ frame \in 0..MaxFrame /\ accepted \in 0..MaxChunks
  /\ handler \in HandlerPC /\ taken \subseteq Chunks

OutputType ==
  /\ outgoing \in Seq(Item) /\ Len(outgoing) <= OutputSize
  /\ cancel_event \in BOOLEAN /\ sender \in BOOLEAN
  /\ emitting \in Seq(Item) /\ worker \in WorkerPC
  /\ produced \in Nat /\ highest \in Nat /\ owed \subseteq 1..produced

\* Every step leaves the input's variables well typed.
LEMMA InputTypeStep ==
  TypeOK /\ FrameFits /\ [Next]_vars => InputType' /\ FrameFits'
<1> SUFFICES ASSUME TypeOK, FrameFits, [Next]_vars
             PROVE  InputType' /\ FrameFits'
  OBVIOUS
<1> USE DEF TypeOK, FrameFits, InputType, HandlerPC, inputVars, outputVars
<1>1. ASSUME NEW n \in 1..MaxFrame, ReceiveFrame(n)
      PROVE  InputType' /\ FrameFits'
  BY <1>1, Sizes DEF ReceiveFrame
<1>2. CASE StartEnqueue
  BY <1>2 DEF StartEnqueue
<1>3. CASE PauseClient
  BY <1>3 DEF PauseClient
<1>4. CASE StoreChunk
  BY <1>4, Sizes DEF StoreChunk
<1>5. CASE PutChunk
  <2>1. accepted \in Chunks \cup {Stop}
    BY <1>5, Sizes DEF PutChunk, Chunks
  <2>2. /\ incoming' \in Seq(Chunks \cup {Stop})
        /\ Len(incoming') = Len(incoming) + 1 /\ Len(incoming) \in Nat
    BY <1>5, <2>1, Put DEF PutChunk
  <2>3. Len(incoming') <= InputSize
    BY <1>5, <2>2, Sizes DEF PutChunk, InputFull
  <2> QED
    BY <1>5, <2>2, <2>3 DEF PutChunk
<1>6. CASE ReceiveEnd
  BY <1>6, WithStopProperties DEF ReceiveEnd
<1>7. CASE ReceiveCancel
  BY <1>7, WithStopProperties DEF ReceiveCancel
<1>8. CASE HandlerFails
  BY <1>8, WithStopProperties DEF HandlerFails
<1>9. CASE FinalizationFails
  BY <1>9, WithStopProperties DEF FinalizationFails
<1>10. CASE HandlerReturns
  BY <1>10, WithStopProperties DEF HandlerReturns
<1>11. CASE TakeChunk
  <2>1. /\ incoming' \in Seq(Chunks \cup {Stop})
        /\ Len(incoming') = Len(incoming) - 1 /\ Len(incoming) \in Nat
        /\ Head(incoming) \in Chunks
    BY <1>11, Taken DEF TakeChunk
  <2>2. Len(incoming') <= InputSize
    BY <2>1, Sizes
  <2>3. paused' \in BOOLEAN
    BY <1>11 DEF TakeChunk
  <2> QED
    BY <1>11, <2>1, <2>2, <2>3 DEF TakeChunk
<1>12. CASE InputEnds
  <2>1. /\ incoming' \in Seq(Chunks \cup {Stop})
        /\ Len(incoming') = Len(incoming) - 1 /\ Len(incoming) \in Nat
    BY <1>12, Taken DEF InputEnds
  <2>2. Len(incoming') <= InputSize
    BY <2>1, Sizes
  <2> QED
    BY <1>12, <2>1, <2>2 DEF InputEnds
<1>13. CASE Send
  <2>1. client_paused' \in BOOLEAN
    BY <1>13 DEF Send
  <2> QED
    BY <1>13, <2>1 DEF Send
<1>14. CASE UNCHANGED <<inputVars, handler>>
  BY <1>14
<1> QED
  BY <1>1, <1>2, <1>3, <1>4, <1>5, <1>6, <1>7, <1>8, <1>9, <1>10, <1>11,
     <1>12, <1>13, <1>14
  DEF Next, Handler, Worker, WorkerRuns, vars, MakeEvent, EndTranscript,
      WorkerFails, Emit, EmitDrops, EmitTimesOut, StopSender,
      StopSenderTimesOut

\* Every step leaves the output's variables well typed.
LEMMA OutputTypeStep ==
  TypeOK /\ [Next]_vars => OutputType'
<1> SUFFICES ASSUME TypeOK, [Next]_vars
             PROVE  OutputType'
  OBVIOUS
<1> USE DEF TypeOK, OutputType, WorkerPC, inputVars, outputVars
<1>1. CASE UNCHANGED <<outputVars, cancel_event, worker>>
  BY <1>1
<1>2. CASE ReceiveCancel
  BY <1>2, ForcedStopProperties DEF ReceiveCancel
<1>3. CASE HandlerFails \/ FinalizationFails \/ HandlerReturns
  BY <1>3 DEF HandlerFails, FinalizationFails, HandlerReturns
<1>4. CASE TakeChunk
  <2>1. emitting' \in Seq(Item)
    BY <1>4, MessageType, Single DEF TakeChunk
  <2> QED
    BY <1>4, <2>1 DEF TakeChunk
<1>5. CASE MakeEvent
  <2>1. Produces({"partial", "durable"}) /\ Ready
    BY <1>5 DEF MakeEvent
  <2> QED
    BY <1>5, <2>1, ProducesType DEF MakeEvent
<1>6. CASE InputEnds
  BY <1>6 DEF InputEnds
<1>7. CASE EndTranscript
  <2>1. CASE cancel_event
    BY <1>7, <2>1 DEF EndTranscript
  <2>2. CASE ~cancel_event
    <3>1. Produces({"partial", "durable"}) /\ Ready
      BY <1>7, <2>2 DEF EndTranscript, Produces
    <3> QED
      BY <1>7, <3>1, ProducesType DEF EndTranscript
  <2> QED
    BY <2>1, <2>2
<1>8. CASE WorkerFails
  BY <1>8, MessageType, Single DEF WorkerFails
<1>9. CASE Emit
  <2>1. /\ Head(emitting) \in Item /\ emitting' \in Seq(Item)
        /\ outgoing' = Append(outgoing, Head(emitting))
    BY <1>9, Taken DEF Emit
  <2>2. /\ outgoing' \in Seq(Item) /\ Len(outgoing) \in Nat
        /\ Len(outgoing') = Len(outgoing) + 1
    BY <2>1, Put
  <2>3. Len(outgoing') <= OutputSize
    BY <1>9, <2>2, Sizes DEF Emit, OutputFull
  <2> QED
    BY <1>9, <2>1, <2>2, <2>3 DEF Emit
<1>10. CASE EmitDrops
  BY <1>10, Taken DEF EmitDrops
<1>11. CASE EmitTimesOut
  <2>1. emitting' \in Seq(Item)
    BY <1>11, MessageType, Single, EmptySeq DEF EmitTimesOut
  <2> QED
    BY <1>11, <2>1 DEF EmitTimesOut
<1>12. CASE StopSender \/ StopSenderTimesOut
  <2>1. CASE outgoing' = ForcedStop
    BY <1>12, <2>1, ForcedStopProperties DEF StopSender, StopSenderTimesOut
  <2>2. CASE ~OutputFull /\ outgoing' = Append(outgoing, Message("none"))
    <3>1. /\ outgoing' \in Seq(Item) /\ Len(outgoing) \in Nat
          /\ Len(outgoing') = Len(outgoing) + 1
      BY <2>2, MessageType, Put
    <3>2. Len(outgoing') <= OutputSize
      BY <2>2, <3>1, Sizes DEF OutputFull
    <3> QED
      BY <1>12, <3>1, <3>2 DEF StopSender, StopSenderTimesOut
  <2> QED
    BY <1>12, <2>1, <2>2 DEF StopSender, StopSenderTimesOut
<1>13. CASE Send
  <2>1. /\ Head(outgoing) \in Item /\ outgoing' \in Seq(Item)
        /\ Len(outgoing') = Len(outgoing) - 1 /\ Len(outgoing) \in Nat
    BY <1>13, Taken DEF Send
  <2>2. Len(outgoing') <= OutputSize
    BY <2>1, Sizes
  <2>3. highest' \in Nat /\ owed' \subseteq owed /\ sender' \in BOOLEAN
    BY <1>13, <2>1 DEF Send, Item
  <2> QED
    BY <1>13, <2>1, <2>2, <2>3 DEF Send
<1> QED
  BY <1>1, <1>2, <1>3, <1>4, <1>5, <1>6, <1>7, <1>8, <1>9, <1>10, <1>11,
     <1>12, <1>13
  DEF Next, Handler, Worker, WorkerRuns, vars, ReceiveFrame, StartEnqueue,
      PauseClient, StoreChunk, PutChunk, ReceiveEnd

\* Every step leaves the variables well typed.
LEMMA TypeStep == TypeOK /\ FrameFits /\ [Next]_vars => TypeOK' /\ FrameFits'
<1>1. InputType' /\ OutputType' => TypeOK'
  BY DEF TypeOK, InputType, OutputType
<1> QED
  BY <1>1, InputTypeStep, OutputTypeStep

-----------------------------------------------------------------------------
(* The output                                                              *)

\* Numbers are given out one by one, and a queued or sent one is given out.
LEMMA EmittingIsLastStep ==
  TypeOK /\ TypeOK' /\ EmittingIsLast /\ [Next]_vars => EmittingIsLast'
<1> SUFFICES ASSUME TypeOK, TypeOK', EmittingIsLast, [Next]_vars
             PROVE  EmittingIsLast'
  OBVIOUS
<1>0. /\ Len(emitting) \in Nat /\ Len(outgoing) \in Nat
      /\ produced \in Nat /\ owed \subseteq 1..produced
  BY LenProperties DEF TypeOK
<1>1. CASE UNCHANGED <<outgoing, emitting, produced, owed, highest>>
  BY <1>1 DEF EmittingIsLast
<1>2. CASE ReceiveCancel
  <2>1. \A i \in 1..Len(outgoing') : outgoing'[i].seq <= produced
    BY <1>0, <1>2, ForcedStopProperties DEF ReceiveCancel, EmittingIsLast
  <2> QED
    BY <1>2, <2>1 DEF ReceiveCancel, EmittingIsLast
<1>3. CASE TakeChunk
  <2>1. CASE emitting' = emitting
    BY <1>3, <2>1 DEF TakeChunk, EmittingIsLast
  <2>2. CASE emitting' = <<Message("resume")>>
    <3>1. Len(emitting') = 1 /\ emitting'[1].seq = 0 /\ emitting'[1].kind = "resume"
      BY <2>2, MessageType, Single
    <3> QED
      BY <1>3, <3>1 DEF TakeChunk, EmittingIsLast
  <2> QED
    BY <1>3, <2>1, <2>2 DEF TakeChunk
<1>4. ASSUME Ready, Produces({"partial", "durable"}), UNCHANGED <<outgoing, highest>>
      PROVE  EmittingIsLast'
  <2>1. PICK e \in Item :
          /\ emitting' = <<e>> /\ e.seq = produced + 1
          /\ e.kind = "durable" <=> produced + 1 \in owed'
    BY <1>4, ProducesType
  <2>2. Len(emitting') = 1 /\ emitting'[1] = e
    BY <2>1, Single
  <2>3. produced' = produced + 1
    BY <1>4, ProducesType
  <2>4. /\ \A i \in 1..Len(outgoing') : outgoing'[i].seq <= produced
        /\ highest' <= produced
    BY <1>4 DEF EmittingIsLast
  <2>5. \A i \in 1..Len(outgoing') : outgoing'[i].seq \in Nat
    BY ItemNumbers DEF TypeOK
  <2>6. highest' \in Nat /\ produced' \in Nat
    BY DEF TypeOK
  <2>7. /\ \A i \in 1..Len(outgoing') : outgoing'[i].seq <= produced'
        /\ highest' <= produced'
    BY <1>0, <2>3, <2>4, <2>5, <2>6
  <2>8. e.kind = "partial" => e.seq \notin owed'
    BY <2>1
  <2> QED
    BY <2>1, <2>2, <2>3, <2>7, <2>8 DEF EmittingIsLast
<1>5. CASE MakeEvent
  BY <1>4, <1>5 DEF MakeEvent
<1>6. CASE EndTranscript
  <2>1. CASE cancel_event
    BY <1>1, <1>6, <2>1 DEF EndTranscript, Ready
  <2>2. CASE ~cancel_event
    BY <1>4, <1>6, <2>2 DEF EndTranscript, Produces
  <2> QED
    BY <2>1, <2>2
<1>7. CASE WorkerFails
  <2>1. Len(emitting') = 1 /\ emitting'[1].seq = 0 /\ emitting'[1].kind = "error"
    BY <1>7, MessageType, Single DEF WorkerFails
  <2> QED
    BY <1>7, <2>1 DEF WorkerFails, EmittingIsLast
<1>8. CASE Emit
  <2>1. /\ Head(emitting) \in Item /\ Head(emitting) = emitting[1]
        /\ emitting' = << >> /\ outgoing' = Append(outgoing, emitting[1])
    BY <1>0, <1>8, Taken, EmptySeq DEF Emit, TypeOK, EmittingIsLast
  <2>2. /\ Len(outgoing') = Len(outgoing) + 1
        /\ \A i \in 1..Len(outgoing) : outgoing'[i] = outgoing[i]
        /\ outgoing'[Len(outgoing) + 1] = emitting[1]
    BY <2>1, Put DEF TypeOK
  <2>3. emitting[1].seq <= produced
    BY <1>0, <1>8 DEF Emit, EmittingIsLast
  <2>4. \A i \in 1..(Len(outgoing) + 1) :
          i \in 1..Len(outgoing) \/ i = Len(outgoing) + 1
    BY <1>0
  <2> QED
    BY <1>8, <2>1, <2>2, <2>3, <2>4 DEF Emit, EmittingIsLast
<1>9. CASE EmitDrops
  <2>1. emitting' = << >>
    BY <1>0, <1>9, Taken, EmptySeq DEF EmitDrops, TypeOK, EmittingIsLast
  <2> QED
    BY <1>9, <2>1 DEF EmitDrops, EmittingIsLast
<1>10. CASE EmitTimesOut
  <2>1. \/ emitting' = << >>
        \/ /\ Len(emitting') = 1 /\ emitting'[1].seq = 0
           /\ emitting'[1].kind = "error"
    BY <1>10, MessageType, Single DEF EmitTimesOut
  <2> QED
    BY <1>10, <2>1 DEF EmitTimesOut, EmittingIsLast
<1>11. CASE StopSender \/ StopSenderTimesOut
  <2>1. CASE outgoing' = ForcedStop
    <3>1. \A i \in 1..Len(outgoing') : outgoing'[i].seq <= produced
      BY <1>0, <2>1, ForcedStopProperties DEF EmittingIsLast
    <3> QED
      BY <1>11, <3>1 DEF StopSender, StopSenderTimesOut, EmittingIsLast
  <2>2. CASE outgoing' = Append(outgoing, Message("none"))
    <3>1. /\ Len(outgoing') = Len(outgoing) + 1
          /\ \A i \in 1..Len(outgoing) : outgoing'[i] = outgoing[i]
          /\ outgoing'[Len(outgoing) + 1].seq = 0
      BY <2>2, Put, MessageType DEF TypeOK
    <3>2. \A i \in 1..(Len(outgoing) + 1) :
            i \in 1..Len(outgoing) \/ i = Len(outgoing) + 1
      BY <1>0
    <3> QED
      BY <1>0, <1>11, <3>1, <3>2
      DEF StopSender, StopSenderTimesOut, EmittingIsLast
  <2> QED
    BY <1>11, <2>1, <2>2 DEF StopSender, StopSenderTimesOut
<1>12. CASE Send
  <2>1. /\ Head(outgoing) = outgoing[1] /\ Len(outgoing) \in Nat \ {0}
        /\ Len(outgoing') = Len(outgoing) - 1
        /\ \A i \in 1..Len(outgoing') : outgoing'[i] = outgoing[i + 1]
    BY <1>12, Taken DEF Send, TypeOK
  <2>2. \A i \in 1..Len(outgoing') : i + 1 \in 1..Len(outgoing)
    BY <2>1
  <2>3. highest' <= produced
    BY <1>12, <2>1 DEF Send, EmittingIsLast
  <2>4. owed' \subseteq owed
    BY <1>12 DEF Send
  <2> QED
    BY <1>12, <2>1, <2>2, <2>3, <2>4 DEF Send, EmittingIsLast
<1> QED
  BY <1>1, <1>2, <1>3, <1>5, <1>6, <1>7, <1>8, <1>9, <1>10, <1>11, <1>12
  DEF Next, Handler, Worker, WorkerRuns, vars, ReceiveFrame, StartEnqueue,
      PauseClient, StoreChunk, PutChunk, ReceiveEnd, HandlerFails,
      FinalizationFails, HandlerReturns, InputEnds, outputVars

\* A durable event stays on its way until it is sent or given up.
LEMMA OnItsWayStep ==
  TypeOK /\ EmittingIsLast /\ OnItsWay /\ [Next]_vars => OnItsWay'
<1> SUFFICES ASSUME TypeOK, EmittingIsLast, OnItsWay, [Next]_vars,
                    ~cancel_event'
             PROVE  OnItsWay'
  BY DEF OnItsWay
<1>0. Len(emitting) \in Nat /\ Len(outgoing) \in Nat
  BY LenProperties DEF TypeOK
<1>1. CASE UNCHANGED <<outgoing, emitting, owed, cancel_event, worker>>
  BY <1>1 DEF OnItsWay
<1>2. CASE TakeChunk
  <2>1. \A n \in owed : \E i \in 1..Len(outgoing) : outgoing[i].seq = n
    BY <1>2 DEF OnItsWay, TakeChunk, Ready
  <2> QED
    BY <1>2, <2>1 DEF TakeChunk, OnItsWay
<1>3. ASSUME worker \in {"listening", "flushing"}, ~cancel_event, Ready,
             Produces({"partial", "durable"}), UNCHANGED outgoing
      PROVE  OnItsWay'
  <2>1. PICK e \in Item : emitting' = <<e>> /\ e.seq = produced + 1
    BY <1>3, ProducesType
  <2>2. emitting'[1].seq = produced + 1 /\ emitting' # << >>
    BY <2>1, Single
  <2>3. \A n \in owed : \E i \in 1..Len(outgoing) : outgoing[i].seq = n
    BY <1>3 DEF OnItsWay, Ready
  <2>4. owed' \subseteq owed \cup {produced + 1}
    BY <1>3, ProducesType
  <2> QED
    BY <1>3, <2>2, <2>3, <2>4 DEF OnItsWay
<1>4. CASE MakeEvent
  BY <1>3, <1>4 DEF MakeEvent
<1>5. CASE InputEnds
  BY <1>5 DEF InputEnds, OnItsWay, Ready, outputVars
<1>6. CASE EndTranscript
  <2>1. ~cancel_event
    BY <1>6 DEF EndTranscript
  <2> QED
    BY <1>3, <1>6, <2>1 DEF EndTranscript, Produces
<1>7. CASE WorkerFails
  <2>1. \A n \in owed : \E i \in 1..Len(outgoing) : outgoing[i].seq = n
    BY <1>7 DEF OnItsWay, WorkerFails, Ready
  <2> QED
    BY <1>7, <2>1 DEF WorkerFails, OnItsWay
<1>8. CASE Emit
  <2>1. /\ Head(emitting) \in Item /\ Head(emitting) = emitting[1]
        /\ emitting' = << >> /\ outgoing' = Append(outgoing, emitting[1])
    BY <1>0, <1>8, Taken, EmptySeq DEF Emit, TypeOK, EmittingIsLast
  <2>2. /\ Len(outgoing') = Len(outgoing) + 1
        /\ \A i \in 1..Len(outgoing) : outgoing'[i] = outgoing[i]
        /\ outgoing'[Len(outgoing) + 1] = emitting[1]
    BY <2>1, Put DEF TypeOK
  <2>3. ASSUME NEW n \in owed
        PROVE  \/ \E i \in 1..Len(outgoing') : outgoing'[i].seq = n
               \/ worker \in {"stopping", "gone"}
    <3>1. CASE \E i \in 1..Len(outgoing) : outgoing[i].seq = n
      BY <1>0, <2>2, <3>1
    <3>2. CASE emitting[1].seq = n
      <4>1. Len(outgoing) + 1 \in 1..Len(outgoing')
        BY <1>0, <2>2
      <4> QED
        BY <2>2, <3>2, <4>1
    <3> QED
      BY <1>8, <3>1, <3>2 DEF OnItsWay, Emit
  <2> QED
    BY <1>8, <2>1, <2>3 DEF Emit, OnItsWay
<1>9. CASE EmitDrops
  <2>1. /\ emitting' = << >> /\ Head(emitting) = emitting[1]
        /\ emitting # << >> /\ ~cancel_event
    BY <1>0, <1>9, Taken, EmptySeq DEF EmitDrops, TypeOK, EmittingIsLast
  <2>2. \A n \in owed : emitting[1].seq # n
    BY <1>9, <2>1 DEF EmitDrops, EmittingIsLast
  <2> QED
    BY <1>9, <2>1, <2>2 DEF EmitDrops, OnItsWay
<1>10. CASE EmitTimesOut
  <2>1. emitting' = << >> \/ emitting'[1].seq = 0
    BY <1>10, MessageType, Single DEF EmitTimesOut
  <2> QED
    BY <1>10, <2>1 DEF EmitTimesOut, OnItsWay
<1>11. CASE StopSender
  <2>1. outgoing' = Append(outgoing, Message("none"))
    BY <1>11 DEF StopSender
  <2>2. /\ Len(outgoing') = Len(outgoing) + 1
        /\ \A i \in 1..Len(outgoing) : outgoing'[i] = outgoing[i]
    BY <2>1, Put, MessageType DEF TypeOK
  <2>3. \A i \in 1..Len(outgoing) : i \in 1..Len(outgoing')
    BY <1>0, <2>2
  <2> QED
    BY <1>11, <2>2, <2>3 DEF StopSender, OnItsWay, Ready
<1>12. CASE Send
  <2>1. /\ Head(outgoing) = outgoing[1] /\ Len(outgoing) \in Nat \ {0}
        /\ Len(outgoing') = Len(outgoing) - 1
        /\ \A i \in 1..Len(outgoing') : outgoing'[i] = outgoing[i + 1]
    BY <1>12, Taken DEF Send, TypeOK
  <2>2. ASSUME NEW n \in owed', NEW i \in 1..Len(outgoing), outgoing[i].seq = n
        PROVE  \E j \in 1..Len(outgoing') : outgoing'[j].seq = n
    <3>1. i # 1
      BY <1>12, <2>1, <2>2 DEF Send
    <3>2. i - 1 \in 1..Len(outgoing') /\ (i - 1) + 1 = i
      BY <2>1, <3>1
    <3>3. outgoing'[i - 1] = outgoing[i]
      BY <2>1, <3>2
    <3> QED
      BY <2>2, <3>2, <3>3
  <2>3. owed' \subseteq owed
    BY <1>12 DEF Send
  <2> QED
    BY <1>12, <2>2, <2>3 DEF Send, OnItsWay
<1> QED
  BY <1>1, <1>2, <1>4, <1>5, <1>6, <1>7, <1>8, <1>9, <1>10, <1>11, <1>12
  DEF Next, Handler, Worker, WorkerRuns, vars, ReceiveFrame, StartEnqueue,
      PauseClient, StoreChunk, PutChunk, ReceiveEnd, ReceiveCancel,
      HandlerFails, FinalizationFails, HandlerReturns, StopSenderTimesOut,
      outputVars

\* No event passes a durable one that is owed.
LEMMA NothingOvertakesStep ==
  TypeOK /\ TypeOK' /\ EmittingIsLast /\ OnItsWay /\ NothingOvertakes
    /\ [Next]_vars => NothingOvertakes'
<1> SUFFICES ASSUME TypeOK, TypeOK', EmittingIsLast, OnItsWay,
                    NothingOvertakes, [Next]_vars, ~cancel_event'
             PROVE  NothingOvertakes'
  BY DEF NothingOvertakes
<1>0. /\ Len(emitting) \in Nat /\ Len(outgoing) \in Nat /\ highest \in Nat
      /\ produced \in Nat /\ owed \subseteq 1..produced
      /\ \A i \in 1..Len(outgoing) : outgoing[i].seq \in Nat
  BY LenProperties, ItemNumbers DEF TypeOK
<1>1. CASE UNCHANGED <<outgoing, owed, highest, cancel_event>>
  BY <1>1 DEF NothingOvertakes
<1>2. ASSUME ~cancel_event, Ready, Produces({"partial", "durable"}),
             UNCHANGED <<outgoing, highest>>
      PROVE  NothingOvertakes'
  <2>1. owed' \subseteq owed \cup {produced + 1}
    BY <1>2, ProducesType
  <2>2. /\ produced + 1 > highest
        /\ \A i \in 1..Len(outgoing) : ~(outgoing[i].seq > produced + 1)
    BY <1>0 DEF EmittingIsLast
  <2> QED
    BY <1>2, <2>1, <2>2 DEF NothingOvertakes
<1>3. CASE MakeEvent
  BY <1>2, <1>3 DEF MakeEvent
<1>4. CASE EndTranscript
  BY <1>1, <1>2, <1>4 DEF EndTranscript, Produces
<1>5. ASSUME NEW e \in Item, UNCHANGED <<owed, highest, cancel_event>>,
             outgoing' = Append(outgoing, e),
             \A n \in owed : e.seq > n =>
               \E j \in 1..Len(outgoing) : outgoing[j].seq = n
      PROVE  NothingOvertakes'
  <2>1. /\ Len(outgoing') = Len(outgoing) + 1
        /\ \A i \in 1..Len(outgoing) : outgoing'[i] = outgoing[i]
        /\ outgoing'[Len(outgoing) + 1] = e
    BY <1>5, Put DEF TypeOK
  <2>2. ASSUME NEW n \in owed, NEW i \in 1..Len(outgoing'), outgoing'[i].seq > n
        PROVE  \E j \in 1..(i - 1) : outgoing'[j].seq = n
    <3>1. CASE i = Len(outgoing) + 1
      BY <1>0, <1>5, <2>1, <2>2, <3>1
    <3>2. CASE i # Len(outgoing) + 1
      <4>1. i \in 1..Len(outgoing)
        BY <1>0, <2>1, <3>2
      <4>2. PICK j \in 1..(i - 1) : outgoing[j].seq = n
        BY <1>5, <2>1, <2>2, <4>1 DEF NothingOvertakes
      <4>3. j \in 1..Len(outgoing)
        BY <1>0, <4>1
      <4> QED
        BY <2>1, <4>2, <4>3
    <3> QED
      BY <3>1, <3>2
  <2> QED
    BY <1>5, <2>2 DEF NothingOvertakes
<1>6. CASE Emit
  <2>1. /\ Head(emitting) \in Item /\ Head(emitting) = emitting[1]
        /\ outgoing' = Append(outgoing, emitting[1])
    BY <1>6, Taken DEF Emit, TypeOK
  <2>2. ASSUME NEW n \in owed, emitting[1].seq > n
        PROVE  \E j \in 1..Len(outgoing) : outgoing[j].seq = n
    <3>1. n \in Nat /\ n # 0
      BY <1>0
    <3>2. emitting[1].seq # n /\ emitting[1].seq # 0
      BY <2>1, <2>2, <3>1 DEF Item
    <3> QED
      BY <1>6, <3>2 DEF Emit, OnItsWay
  <2> QED
    BY <1>5, <1>6, <2>1, <2>2 DEF Emit
<1>7. CASE StopSender
  <2>1. outgoing' = Append(outgoing, Message("none"))
    BY <1>7 DEF StopSender
  <2>2. Message("none") \in Item /\ \A n \in owed : ~(Message("none").seq > n)
    BY <1>0, MessageType
  <2> QED
    BY <1>5, <1>7, <2>1, <2>2 DEF StopSender
<1>8. CASE Send
  <2>1. /\ Head(outgoing) = outgoing[1] /\ Len(outgoing) \in Nat \ {0}
        /\ Len(outgoing') = Len(outgoing) - 1
        /\ \A i \in 1..Len(outgoing') : outgoing'[i] = outgoing[i + 1]
    BY <1>8, Taken DEF Send, TypeOK
  <2>2. /\ owed' = owed \ {outgoing[1].seq} /\ cancel_event' = cancel_event
        /\ highest' \in {highest, outgoing[1].seq}
    BY <1>8, <2>1 DEF Send
  <2>3. ASSUME NEW n \in owed'
        PROVE  n > highest'
    <3>1. ~(outgoing[1].seq > n)
      BY <2>1, <2>2 DEF NothingOvertakes
    <3>2. 1 \in 1..Len(outgoing) /\ n \in Nat
      BY <1>0, <2>1, <2>2
    <3>3. outgoing[1].seq \in Nat /\ outgoing[1].seq # n /\ n > highest
      BY <1>0, <2>2, <3>2 DEF NothingOvertakes
    <3> QED
      BY <1>0, <2>2, <3>1, <3>2, <3>3
  <2>4. ASSUME NEW n \in owed', NEW i \in 1..Len(outgoing'), outgoing'[i].seq > n
        PROVE  \E j \in 1..(i - 1) : outgoing'[j].seq = n
    <3>1. i + 1 \in 1..Len(outgoing) /\ outgoing'[i] = outgoing[i + 1]
      BY <2>1
    <3>2. PICK j \in 1..i : outgoing[j].seq = n
      BY <2>2, <2>4, <3>1 DEF NothingOvertakes
    <3>3. j # 1
      BY <2>2, <3>2
    <3>4. j - 1 \in 1..(i - 1) /\ j - 1 \in 1..Len(outgoing') /\ (j - 1) + 1 = j
      BY <2>1, <3>3
    <3>5. outgoing'[j - 1] = outgoing[j]
      BY <2>1, <3>4
    <3> QED
      BY <3>2, <3>4, <3>5
  <2> QED
    BY <2>2, <2>3, <2>4 DEF NothingOvertakes
<1> QED
  BY <1>1, <1>3, <1>4, <1>6, <1>7, <1>8
  DEF Next, Handler, Worker, WorkerRuns, vars, ReceiveFrame, StartEnqueue,
      PauseClient, StoreChunk, PutChunk, ReceiveEnd, ReceiveCancel,
      HandlerFails, FinalizationFails, HandlerReturns, StopSenderTimesOut,
      TakeChunk, InputEnds, WorkerFails, EmitDrops, EmitTimesOut, outputVars

-----------------------------------------------------------------------------
(* The input                                                               *)

\* cancel_event is never cleared.
LEMMA CancelStays == cancel_event /\ [Next]_vars => cancel_event'
BY DEF Next, Handler, Worker, WorkerRuns, vars, ReceiveFrame, StartEnqueue,
       PauseClient, StoreChunk, PutChunk, ReceiveEnd, ReceiveCancel,
       HandlerFails, FinalizationFails, HandlerReturns, TakeChunk, MakeEvent,
       InputEnds, EndTranscript, WorkerFails, Emit, EmitDrops, EmitTimesOut,
       StopSender, StopSenderTimesOut, Send

\* Whoever leaves the running states without "end" sets cancel_event.
LEMMA EndedOrRunningStep == EndedOrRunning /\ [Next]_vars => EndedOrRunning'
BY DEF EndedOrRunning, Next, Handler, Worker, WorkerRuns, vars, inputVars,
       outputVars, ReceiveFrame, StartEnqueue, PauseClient, StoreChunk,
       PutChunk, ReceiveEnd, ReceiveCancel, HandlerFails, FinalizationFails,
       HandlerReturns, TakeChunk, MakeEvent, InputEnds, EndTranscript,
       WorkerFails, Emit, EmitDrops, EmitTimesOut, StopSender,
       StopSenderTimesOut, Send

\* When the worker finds the sentinel, it has had all that is to come.
LEMMA StopComesLast ==
  ASSUME TypeOK, FrameFits, InputInOrder, InputEnds, ~cancel_event
  PROVE  /\ handler = "ended"
         /\ taken \subseteq 1..accepted
         /\ (1..accepted) \ taken \subseteq {Displaced}
<1>1. /\ Head(incoming) = incoming[1] /\ incoming[1] = Stop
      /\ Len(incoming) \in Nat \ {0} /\ accepted \in Nat
  BY Taken, Sizes DEF InputEnds, TypeOK
<1>2. LastPut \in Nat /\ Waiting \in Nat
  BY <1>1 DEF LastPut, Waiting, InputInOrder, InputEnds, FrameFits
<1>3. Waiting = 0
  <2>1. SUFFICES ASSUME 1 \in 1..Waiting PROVE FALSE
    BY <1>2
  <2>2. incoming[1] = LastPut - Waiting + 1 /\ Waiting <= LastPut
    BY <2>1 DEF InputInOrder, InputEnds
  <2> QED
    BY <1>1, <1>2, <2>2 DEF Stop
<1>4. handler = "ended"
  BY <1>1, <1>3 DEF Waiting
<1>5. LastPut = accepted /\ LastPut - Waiting = accepted
  BY <1>1, <1>3, <1>4 DEF LastPut
<1> QED
  BY <1>4, <1>5 DEF InputInOrder, InputEnds

\* The queue continues what the worker has had.
LEMMA InputInOrderStep ==
  TypeOK /\ FrameFits /\ EndedOrRunning /\ InputInOrder /\ [Next]_vars
    => InputInOrder'
<1> SUFFICES ASSUME TypeOK, FrameFits, EndedOrRunning, InputInOrder, [Next]_vars, ~cancel_event', worker' = "listening"
             PROVE  InputInOrder'
  BY DEF InputInOrder
<1>0. Len(incoming) \in Nat /\ accepted \in Nat
  BY LenProperties, Sizes DEF TypeOK
<1>1. CASE UNCHANGED <<incoming, taken, accepted, cancel_event, worker>>
           /\ (handler' = handler
               \/ {handler, handler'} \subseteq {"receiving", "pausing", "storing"})
  BY <1>1 DEF InputInOrder, LastPut, Waiting, Displaced
<1>2. CASE StoreChunk
  <2>1. /\ handler = "storing" /\ handler' = "putting"
        /\ accepted' = accepted + 1 /\ UNCHANGED <<incoming, taken>>
        /\ ~cancel_event /\ worker = "listening"
    BY <1>2 DEF StoreChunk, outputVars
  <2>2. /\ LastPut = accepted /\ LastPut' = accepted
        /\ Waiting = Len(incoming) /\ Waiting' = Len(incoming)
    BY <1>0, <2>1 DEF LastPut, Waiting
  <2> QED
    BY <1>0, <2>1, <2>2 DEF InputInOrder
<1>3. CASE PutChunk
  <2>1. accepted \in Chunks \cup {Stop}
    BY <1>3, Sizes DEF PutChunk, Chunks, TypeOK, FrameFits
  <2>2. /\ Len(incoming') = Len(incoming) + 1
        /\ \A i \in 1..Len(incoming) : incoming'[i] = incoming[i]
        /\ incoming'[Len(incoming) + 1] = accepted
    BY <1>3, <2>1, Put DEF PutChunk, TypeOK
  <2>3. /\ LastPut = accepted - 1 /\ LastPut' = accepted
        /\ Waiting = Len(incoming) /\ Waiting' = Len(incoming) + 1
        /\ ~cancel_event /\ worker = "listening" /\ handler' = "receiving"
        /\ handler # "ended" /\ taken' = taken
    BY <1>3, <2>2 DEF PutChunk, LastPut, Waiting, outputVars
  <2>4. LastPut' - Waiting' = LastPut - Waiting
    BY <1>0, <2>3
  <2>5. /\ 0 <= Waiting /\ Waiting <= LastPut
        /\ taken \subseteq 1..(LastPut - Waiting)
        /\ (1..(LastPut - Waiting)) \ taken \subseteq {}
        /\ \A i \in 1..Waiting : incoming[i] = LastPut - Waiting + i
    BY <2>3 DEF InputInOrder
  <2>6. ASSUME NEW i \in 1..Waiting'
        PROVE  incoming'[i] = LastPut' - Waiting' + i
    <3>1. CASE i = Len(incoming) + 1
      BY <1>0, <2>2, <2>3, <3>1
    <3>2. CASE i # Len(incoming) + 1
      <4>1. i \in 1..Len(incoming)
        BY <1>0, <2>3, <3>2
      <4> QED
        BY <2>2, <2>3, <2>4, <2>5, <4>1
    <3> QED
      BY <3>1, <3>2
  <2>7. 0 <= Waiting' /\ Waiting' <= LastPut'
    BY <1>0, <2>3, <2>5
  <2>8. /\ taken' \subseteq 1..(LastPut' - Waiting')
        /\ (1..(LastPut' - Waiting')) \ taken' \subseteq {}
    BY <2>3, <2>4, <2>5
  <2> QED
    BY <2>3, <2>6, <2>7, <2>8 DEF InputInOrder
<1>4. CASE ReceiveEnd
  <2>1. /\ LastPut = accepted /\ LastPut' = accepted
        /\ Waiting = Len(incoming) /\ handler # "ended" /\ handler' = "ended"
        /\ ~cancel_event /\ worker = "listening"
        /\ UNCHANGED <<taken, accepted>>
        /\ Waiting' = Len(incoming') - 1 /\ Displaced' = Displaced
    BY <1>0, <1>4 DEF ReceiveEnd, LastPut, Waiting, outputVars, Displaced
  <2>2. /\ Len(incoming) <= accepted
        /\ taken \subseteq 1..(accepted - Len(incoming))
        /\ (1..(accepted - Len(incoming))) \ taken \subseteq {}
        /\ \A i \in 1..Len(incoming) :
             incoming[i] = accepted - Len(incoming) + i
    BY <2>1 DEF InputInOrder
  <2>3. CASE ~InputFull
    <3>1. /\ Len(incoming') = Len(incoming) + 1
          /\ \A i \in 1..Len(incoming) : incoming'[i] = incoming[i]
          /\ incoming'[Len(incoming) + 1] = Stop
      BY <1>4, <2>3, WithStopProperties DEF ReceiveEnd
    <3>2. Waiting' = Len(incoming)
      BY <1>0, <2>1, <3>1
    <3>3. /\ 0 <= Waiting' /\ Waiting' <= LastPut'
          /\ taken' \subseteq 1..(LastPut' - Waiting')
          /\ (1..(LastPut' - Waiting')) \ taken' \subseteq {Displaced'}
      BY <1>0, <2>1, <2>2, <3>2
    <3>4. \A i \in 1..Waiting' : incoming'[i] = LastPut' - Waiting' + i
      BY <2>1, <2>2, <3>1, <3>2
    <3>5. incoming'[Len(incoming')] = Stop
      BY <3>1
    <3> QED
      BY <2>1, <3>3, <3>4, <3>5 DEF InputInOrder
  <2>4. CASE InputFull
    <3>1. /\ Len(incoming) = InputSize /\ InputSize \in Nat \ {0}
          /\ Len(incoming') = InputSize
          /\ \A i \in 1..(InputSize - 1) : incoming'[i] = incoming[i + 1]
          /\ incoming'[InputSize] = Stop
      BY <1>0, <1>4, <2>4, WithStopFull, Sizes DEF ReceiveEnd, InputFull, TypeOK
    <3>2. Waiting' = InputSize - 1
      BY <2>1, <3>1
    <3>3. LastPut' - Waiting' = Displaced /\ Displaced = accepted - InputSize + 1
          /\ accepted - InputSize \in Nat
      BY <1>0, <2>1, <2>2, <3>1, <3>2 DEF Displaced
    <3>4. /\ 0 <= Waiting' /\ Waiting' <= LastPut'
      BY <1>0, <2>1, <2>2, <3>1, <3>2
    <3>5. /\ taken' \subseteq 1..(LastPut' - Waiting')
          /\ (1..(LastPut' - Waiting')) \ taken' \subseteq {Displaced'}
      BY <1>0, <2>1, <2>2, <3>1, <3>3
    <3>6. ASSUME NEW i \in 1..Waiting'
          PROVE  incoming'[i] = LastPut' - Waiting' + i
      <4>1. i \in 1..(InputSize - 1) /\ i + 1 \in 1..Len(incoming)
        BY <3>1, <3>2
      <4>2. incoming'[i] = accepted - Len(incoming) + (i + 1)
        BY <2>2, <3>1, <4>1
      <4> QED
        BY <1>0, <3>1, <3>3, <4>1, <4>2
    <3> QED
      BY <2>1, <3>1, <3>4, <3>5, <3>6 DEF InputInOrder
  <2> QED
    BY <2>3, <2>4
<1>5. CASE TakeChunk
  <2>1. /\ Head(incoming) = incoming[1] /\ Len(incoming) \in Nat \ {0}
        /\ Len(incoming') = Len(incoming) - 1 /\ incoming[1] # Stop
        /\ \A i \in 1..Len(incoming') : incoming'[i] = incoming[i + 1]
        /\ taken' = taken \cup {incoming[1]}
    BY <1>5, Taken DEF TakeChunk, TypeOK
  <2>2. /\ LastPut' = LastPut /\ Waiting' = Waiting - 1 /\ handler' = handler
        /\ ~cancel_event /\ worker = "listening" /\ Displaced' = Displaced
    BY <1>5, <2>1 DEF TakeChunk, LastPut, Waiting, Displaced
  <2>3. /\ 0 <= Waiting /\ Waiting <= LastPut
        /\ taken \subseteq 1..(LastPut - Waiting)
        /\ (1..(LastPut - Waiting)) \ taken
             \subseteq (IF handler = "ended" THEN {Displaced} ELSE {})
        /\ \A i \in 1..Waiting : incoming[i] = LastPut - Waiting + i
        /\ handler = "ended" => incoming[Len(incoming)] = Stop
    BY <2>2 DEF InputInOrder
  <2>4. Waiting \in Nat /\ LastPut \in Int /\ Waiting <= Len(incoming)
    BY <1>0, <2>1, <2>3 DEF Waiting, LastPut
  <2>5. Waiting # 0
    BY <2>1, <2>3 DEF Waiting
  <2>6. incoming[1] = LastPut - Waiting + 1
    BY <2>3, <2>4, <2>5
  <2>7. /\ taken' \subseteq 1..(LastPut' - Waiting')
        /\ (1..(LastPut' - Waiting')) \ taken'
             \subseteq (IF handler' = "ended" THEN {Displaced'} ELSE {})
    <3>1. LastPut' - Waiting' = LastPut - Waiting + 1
      BY <2>2, <2>4
    <3>2. taken' = taken \cup {LastPut - Waiting + 1}
      BY <2>1, <2>6
    <3>3. 1..(LastPut' - Waiting')
            = (1..(LastPut - Waiting)) \cup {LastPut - Waiting + 1}
      BY <2>3, <2>4, <3>1
    <3> QED
      BY <2>2, <2>3, <3>2, <3>3
  <2>8. ASSUME NEW i \in 1..Waiting'
        PROVE  incoming'[i] = LastPut' - Waiting' + i
    <3>1. i \in 1..Len(incoming') /\ i + 1 \in 1..Waiting
      BY <2>1, <2>2, <2>4
    <3>2. incoming'[i] = LastPut - Waiting + (i + 1)
      BY <2>1, <2>3, <3>1
    <3> QED
      BY <2>2, <2>4, <3>1, <3>2
  <2>9. ASSUME handler = "ended"
        PROVE  incoming'[Len(incoming')] = Stop
    <3>1. Len(incoming) = Waiting + 1
      BY <2>1, <2>9 DEF Waiting
    <3>2. Len(incoming') \in 1..Len(incoming')
      BY <2>1, <2>4, <2>5, <3>1
    <3> QED
      BY <2>1, <2>3, <2>9, <3>2
  <2>10. 0 <= Waiting' /\ Waiting' <= LastPut'
    BY <2>2, <2>3, <2>4, <2>5
  <2> QED
    BY <2>2, <2>7, <2>8, <2>9, <2>10 DEF InputInOrder
<1> QED
  BY <1>1, <1>2, <1>3, <1>4, <1>5
  DEF Next, Handler, Worker, WorkerRuns, vars, inputVars, outputVars,
      ReceiveFrame, StartEnqueue, PauseClient, ReceiveCancel, HandlerFails,
      FinalizationFails, HandlerReturns, MakeEvent, InputEnds, EndTranscript,
      WorkerFails, Emit, EmitDrops, EmitTimesOut, StopSender,
      StopSenderTimesOut, Send

\* What the worker had when it saw the sentinel does not change after it.
LEMMA OnlyDisplacedStep ==
  InputInv /\ [Next]_vars
    => OnlyDisplacedIsDropped' /\ EndedBeforeFlush'
<1> SUFFICES ASSUME InputInv, [Next]_vars, ~cancel_event', worker' = "flushing"
             PROVE  /\ handler' = "ended"
                    /\ taken' \subseteq 1..accepted'
                    /\ (1..accepted') \ taken' \subseteq {Displaced'}
  BY DEF OnlyDisplacedIsDropped, EndedBeforeFlush
<1>1. CASE InputEnds
  <2>1. /\ handler = "ended"
        /\ taken \subseteq 1..accepted
        /\ (1..accepted) \ taken \subseteq {Displaced}
    BY <1>1, StopComesLast DEF InputInv, InputEnds
  <2>2. UNCHANGED <<taken, accepted, handler>>
    BY <1>1 DEF InputEnds
  <2> QED
    BY <2>1, <2>2 DEF Displaced
<1>2. CASE worker = "flushing" /\ ~cancel_event
  <2>1. /\ handler = "ended"
        /\ taken \subseteq 1..accepted
        /\ (1..accepted) \ taken \subseteq {Displaced}
    BY <1>2 DEF InputInv, OnlyDisplacedIsDropped, EndedBeforeFlush
  <2>2. UNCHANGED <<taken, accepted>> /\ handler' = handler
    BY <1>2, <2>1
    DEF Next, Handler, Worker, WorkerRuns, vars, inputVars, outputVars,
        ReceiveFrame, StartEnqueue, PauseClient, StoreChunk, PutChunk,
        ReceiveEnd, ReceiveCancel, HandlerFails, FinalizationFails,
        HandlerReturns, TakeChunk, MakeEvent, InputEnds, EndTranscript,
        WorkerFails, Emit, EmitDrops, EmitTimesOut, StopSender,
        StopSenderTimesOut, Send
  <2> QED
    BY <2>1, <2>2 DEF Displaced
<1>3. ~cancel_event
  BY CancelStays
<1>4. worker = "flushing" \/ InputEnds
  BY DEF Next, Handler, Worker, WorkerRuns, vars, outputVars, ReceiveFrame,
         StartEnqueue, PauseClient, StoreChunk, PutChunk, ReceiveEnd,
         ReceiveCancel, HandlerFails, FinalizationFails, HandlerReturns,
         TakeChunk, MakeEvent, EndTranscript, WorkerFails, Emit, EmitDrops,
         EmitTimesOut, StopSender, StopSenderTimesOut, Send
<1> QED
  BY <1>1, <1>2, <1>3, <1>4

-----------------------------------------------------------------------------
(* The theorems                                                            *)

\* At the start both queues are empty.
LEMMA InitInv == Init => OutputInv /\ InputInv
<1> SUFFICES ASSUME Init PROVE OutputInv /\ InputInv
  OBVIOUS
<1>1. TypeOK
  <2>1. /\ incoming \in Seq(Chunks \cup {Stop}) /\ Len(incoming) = 0
        /\ outgoing \in Seq(Item) /\ Len(outgoing) = 0
        /\ emitting \in Seq(Item)
    BY EmptySeq DEF Init
  <2>2. Len(incoming) <= InputSize /\ Len(outgoing) <= OutputSize
    BY <2>1, Sizes
  <2>3. frame \in 0..MaxFrame /\ accepted \in 0..MaxChunks
    BY Sizes DEF Init
  <2> QED
    BY <2>1, <2>2, <2>3 DEF Init, TypeOK, HandlerPC, WorkerPC
<1> QED
  BY <1>1, Sizes, EmptySeq
  DEF Init, OutputInv, InputInv, FrameFits, EmittingIsLast, OnItsWay,
      NothingOvertakes, EndedOrRunning, InputInOrder, LastPut, Waiting,
      OnlyDisplacedIsDropped, EndedBeforeFlush

\* The variables of both queues are well typed, and the queues keep to their
\* bounds: a sentinel makes room for itself, everything else waits for room.
THEOREM TransportTypeCorrect == Spec => []TypeOK
<1>1. Init => TypeOK /\ FrameFits
  BY InitInv DEF OutputInv
<1>2. TypeOK /\ FrameFits /\ [Next]_vars => TypeOK' /\ FrameFits'
  BY TypeStep
<1> QED
  BY <1>1, <1>2, PTL DEF Spec

\* What is known of outgoing is an invariant of the session.
THEOREM OutputInvariant == Spec => []OutputInv
<1>1. Init => OutputInv
  BY InitInv
<1>2. OutputInv /\ [Next]_vars => OutputInv'
  BY TypeStep, EmittingIsLastStep, OnItsWayStep, NothingOvertakesStep
  DEF OutputInv
<1> QED
  BY <1>1, <1>2, PTL DEF Spec

\* "commit, replace and end are never silently dropped": until the session is
\* cancelled the client has every durable event before the last it received,
\* however full the queues, whatever times out, whenever the worker fails.
THEOREM EventsArriveWithoutGap == Spec => []NoGapWhileRunning
<1>1. OutputInv => NoGapWhileRunning
  BY DEF OutputInv, NothingOvertakes, NoGapWhileRunning
<1> QED
  BY <1>1, OutputInvariant, PTL

\* What is known of incoming is an invariant of the session.
THEOREM InputInvariant == Spec => []InputInv
<1>1. Init => InputInv
  BY InitInv
<1>2. InputInv /\ [Next]_vars => InputInv'
  BY TypeStep, EndedOrRunningStep, InputInOrderStep, OnlyDisplacedStep
  DEF InputInv
<1> QED
  BY <1>1, <1>2, PTL DEF Spec

\* When the worker sees the end of the input and the session is not cancelled,
\* it has had every accepted chunk but one at most: the head of the full queue
\* in which "end" put its sentinel.
THEOREM AcceptedAudioIsHeard == Spec => []OnlyDisplacedIsDropped
<1>1. InputInv => OnlyDisplacedIsDropped
  BY DEF InputInv
<1> QED
  BY <1>1, InputInvariant, PTL

-----------------------------------------------------------------------------
(***************************************************************************)
(* ServerLifecycle.                                                        *)
(***************************************************************************)

Holding == {c \in Connections : task[c] \in Admitted}

\* What SlotPerSession rests on: the types of the tasks and of the counter.
SlotInv ==
  /\ task \in [Connections -> Phases]
  /\ active_sessions \in Nat
  /\ SlotPerSession

\* A handler that neither enters nor leaves the admitted phases holds what it
\* held, and so do the others.
LEMMA SameHolding ==
  ASSUME task \in [Connections -> Phases],
         NEW c \in Connections, NEW p \in Phases,
         task' = [task EXCEPT ![c] = p],
         task[c] \in Admitted <=> p \in Admitted
  PROVE  Holding' = Holding /\ task' \in [Connections -> Phases]
BY DEF Holding

\* Admit: one more session, if the limit leaves room.
LEMMA OneMore ==
  ASSUME SlotInv, NEW c \in Connections,
         task[c] = "arrived", ~AtCapacity,
         task' = [task EXCEPT ![c] = "starting"],
         active_sessions' = active_sessions + 1
  PROVE  SlotInv'
<1>1. Holding' = Holding \cup {c} /\ c \notin Holding
  BY DEF SlotInv, Holding, Admitted, Waits
<1>2. IsFiniteSet(Holding)
  BY LifecycleAssumption, FS_Subset DEF Holding
<1>3. Cardinality(Holding') = Cardinality(Holding) + 1
  BY <1>1, <1>2, FS_AddElement
<1>4. task' \in [Connections -> Phases]
  BY DEF SlotInv, Phases, Admitted, Waits
<1> QED
  BY <1>3, <1>4, LifecycleAssumption
     DEF SlotInv, SlotPerSession, Holding, AtCapacity

\* Done after an admission: one fewer.
LEMMA OneFewer ==
  ASSUME SlotInv, NEW c \in Connections,
         task[c] = "left",
         task' = [task EXCEPT ![c] = "none"],
         active_sessions' = active_sessions - 1
  PROVE  SlotInv'
<1>1. Holding' = Holding \ {c} /\ c \in Holding
  BY DEF SlotInv, Holding, Admitted, Waits
<1>2. IsFiniteSet(Holding)
  BY LifecycleAssumption, FS_Subset DEF Holding
<1>3. Cardinality(Holding') = Cardinality(Holding) - 1
  BY <1>1, <1>2, FS_RemoveElement
<1>4. Cardinality(Holding') \in Nat
  BY <1>1, <1>2, FS_RemoveElement, FS_CardinalityType
<1>5. task' \in [Connections -> Phases]
  BY DEF SlotInv, Phases
<1> QED
  BY <1>3, <1>4, <1>5, LifecycleAssumption DEF SlotInv, SlotPerSession, Holding

\* Every other step leaves the counter and the set of admitted sessions alone.
LEMMA SameSlots ==
  ASSUME SlotInv, Holding' = Holding, task' \in [Connections -> Phases],
         UNCHANGED active_sessions
  PROVE  SlotInv'
BY DEF SlotInv, SlotPerSession, Holding

\* No session is admitted before the first connection.
LEMMA InitSlot == LifecycleInit => SlotInv
<1> SUFFICES ASSUME LifecycleInit PROVE SlotInv
  OBVIOUS
<1>1. Holding = {}
  BY DEF LifecycleInit, Holding, Admitted, Waits
<1> QED
  BY <1>1, FS_EmptySet, LifecycleAssumption
     DEF LifecycleInit, SlotInv, SlotPerSession, Holding, Phases, Admitted, Waits

\* A step admits one session, ends one, or leaves the admitted ones as they are.
LEMMA NextSlot == SlotInv /\ [LifecycleNext]_lifecycleVars => SlotInv'
<1> SUFFICES ASSUME SlotInv, [LifecycleNext]_lifecycleVars PROVE SlotInv'
  OBVIOUS
<1>typed. task \in [Connections -> Phases]
  BY DEF SlotInv
<1> USE DEF Goes, serveVars, loopVars
<1>1. ASSUME NEW c \in Connections, Connect(c) \/ Arrive(c) \/ Refuse(c)
             \/ StartWorker(c) \/ Initialized(c) \/ End(c) \/ Leave(c) \/ Joined(c)
      PROVE  SlotInv'
  <2>1. PICK p \in Phases : /\ task' = [task EXCEPT ![c] = p]
                            /\ task[c] \in Admitted <=> p \in Admitted
    BY <1>1, <1>typed
       DEF Connect, Arrive, Refuse, StartWorker, Initialized, End, Leave, Joined,
           Phases, Admitted, Waits
  <2>2. UNCHANGED active_sessions
    BY <1>1
       DEF Connect, Arrive, Refuse, StartWorker, Initialized, End, Leave, Joined
  <2> QED
    BY <2>1, <2>2, <1>typed, SameHolding, SameSlots
<1>2. ASSUME NEW c \in Connections, Admit(c)
      PROVE  SlotInv'
  BY <1>2, OneMore DEF Admit
<1>3. ASSUME NEW c \in Connections, Done(c)
      PROVE  SlotInv'
  <2>1. CASE task[c] = "left"
    BY <1>3, <2>1, OneFewer DEF Done
  <2>2. CASE task[c] # "left"
    <3>1. task[c] \notin Admitted /\ "none" \notin Admitted /\ "none" \in Phases
      BY <1>3, <2>2 DEF Done, Admitted, Waits, Phases
    <3> QED
      BY <1>3, <2>2, <3>1, <1>typed, SameHolding, SameSlots DEF Done
  <2> QED
    BY <2>1, <2>2
<1>4. ASSUME NEW c \in Connections, ClosePeer(c) \/ WorkerExits(c)
      PROVE  SlotInv'
  BY <1>4, <1>typed, SameSlots DEF ClosePeer, WorkerExits, Holding
<1>5. ASSUME Serve
      PROVE  SlotInv'
  <2>1. UNCHANGED <<task, active_sessions>>
    BY <1>5 DEF Serve, RequestShutdown, PreloadFails, Listen, SweeperFails,
       StopSweeper, SweeperAwaited, ServerCloses, GraceExpires, HandlersGathered,
       CloseStores
  <2> QED
    BY <2>1, <1>typed, SameSlots DEF Holding
<1>6. CASE UNCHANGED lifecycleVars
  BY <1>6, <1>typed, SameSlots DEF lifecycleVars, Holding
<1> QED
  BY <1>1, <1>2, <1>3, <1>4, <1>5, <1>6 DEF LifecycleNext, HandlerTask

\* Every admitted session holds exactly one slot, whichever of its waits it
\* leaves by which way, and the limit is never exceeded; for any clients and any
\* limit.
THEOREM SlotsAreGivenBack == LifecycleSpec => []SlotPerSession
<1>1. SlotInv => SlotPerSession
  BY DEF SlotInv
<1> QED
  BY <1>1, InitSlot, NextSlot, PTL DEF LifecycleSpec

\* What TypeOK says beside it: of serve(), and of the sets of connections.
ServeType ==
  /\ server \in {"preloading", "listening", "unsweeping", "closing",
                 "cancelling", "closed", "stopped", "raised"}
  /\ shutdown_event \in BOOLEAN
  /\ sweeper \in {"none", "running", "failed"}
  /\ peer_open \subseteq Connections
  /\ cancelled \subseteq Connections
  /\ workers \subseteq Connections
  /\ peers \subseteq Connections
  /\ stores_open \in BOOLEAN

LEMMA NextServe == ServeType /\ [LifecycleNext]_lifecycleVars => ServeType'
<1> SUFFICES ASSUME ServeType, [LifecycleNext]_lifecycleVars PROVE ServeType'
  OBVIOUS
<1> USE DEF ServeType
<1>1. ASSUME NEW c \in Connections, HandlerTask(c)
      PROVE  ServeType'
  BY <1>1 DEF HandlerTask, Connect, Arrive, Admit, Refuse, StartWorker, Initialized,
     End, Leave, Joined, Done, serveVars
<1>2. ASSUME NEW c \in Connections, ClosePeer(c) \/ WorkerExits(c)
      PROVE  ServeType'
  BY <1>2 DEF ClosePeer, WorkerExits, serveVars
<1>3. ASSUME Serve
      PROVE  ServeType'
  <2>1. handler_tasks \subseteq Connections
    BY DEF handler_tasks
  <2> QED
    BY <1>3, <2>1
       DEF Serve, RequestShutdown, PreloadFails, Listen, SweeperFails, StopSweeper,
           SweeperAwaited, ServerCloses, GraceExpires, HandlersGathered,
           CloseStores, loopVars, active_connections
<1>4. CASE UNCHANGED lifecycleVars
  BY <1>4 DEF lifecycleVars
<1> QED
  BY <1>1, <1>2, <1>3, <1>4 DEF LifecycleNext

\* Tasks, counters and sets keep their types: above all, active_sessions never
\* becomes negative, because a task gives back only the slot it holds.  handler
\* in serve(), server.py:1332.
THEOREM LifecycleTypeCorrect == LifecycleSpec => []LifecycleTypeOK
<1>1. LifecycleInit => ServeType
  BY DEF LifecycleInit, ServeType
<1>2. ServeType /\ SlotInv => LifecycleTypeOK
  BY DEF ServeType, SlotInv, LifecycleTypeOK
<1> QED
  BY <1>1, <1>2, InitSlot, NextSlot, NextServe, PTL DEF LifecycleSpec

-----------------------------------------------------------------------------
\* Before the port is opened and after it is closed there are no handlers, and
\* pool and store are closed at no other time.
GoneInv ==
  /\ task \in [Connections -> Phases]
  /\ server \in {"preloading", "closed", "stopped"} => AllGone
  /\ ~stores_open => server \in {"stopped", "raised"} /\ AllGone

\* A connection begins only while the port is open; serve() leaves the open
\* port, and closes pool and store, only when no task is left.
LEMMA NextGone == GoneInv /\ [LifecycleNext]_lifecycleVars => GoneInv'
<1> SUFFICES ASSUME GoneInv, [LifecycleNext]_lifecycleVars PROVE GoneInv'
  OBVIOUS
<1> USE DEF GoneInv, AllGone
<1>1. ASSUME NEW c \in Connections, HandlerTask(c)
      PROVE  GoneInv'
  <2>1. UNCHANGED <<server, stores_open>>
    BY <1>1
       DEF HandlerTask, Connect, Arrive, Admit, Refuse, StartWorker, Initialized,
           End, Leave, Joined, Done, serveVars
  <2>2. task' \in [Connections -> Phases]
    BY <1>1
       DEF HandlerTask, Connect, Arrive, Admit, Refuse, StartWorker, Initialized,
           End, Leave, Joined, Done, Goes, Phases, Admitted, Waits
  <2>3. task[c] = "none" => server \in {"listening", "unsweeping"}
    BY <1>1
       DEF HandlerTask, Connect, Arrive, Admit, Refuse, StartWorker, Initialized,
           End, Leave, Joined, Done, Goes, Waits
  <2> QED
    BY <2>1, <2>2, <2>3
<1>2. ASSUME NEW c \in Connections, ClosePeer(c) \/ WorkerExits(c)
      PROVE  GoneInv'
  BY <1>2 DEF ClosePeer, WorkerExits, serveVars
<1>3. ASSUME Serve
      PROVE  GoneInv'
  BY <1>3 DEF Serve, RequestShutdown, PreloadFails, Listen, SweeperFails,
     StopSweeper, SweeperAwaited, ServerCloses, GraceExpires, HandlersGathered,
     CloseStores, loopVars
<1>4. CASE UNCHANGED lifecycleVars
  BY <1>4 DEF lifecycleVars
<1> QED
  BY <1>1, <1>2, <1>3, <1>4 DEF LifecycleNext

\* Pool and store are closed only when no handler is left to use them, for any
\* clients.
THEOREM StoresOutliveHandlers == LifecycleSpec => []NoHandlerAfterClose
<1>1. LifecycleInit => GoneInv
  BY DEF LifecycleInit, GoneInv, AllGone, Phases
<1>2. GoneInv => NoHandlerAfterClose
  BY DEF GoneInv, NoHandlerAfterClose
<1> QED
  BY <1>1, <1>2, NextGone, PTL DEF LifecycleSpec

=============================================================================
