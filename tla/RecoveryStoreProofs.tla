------------------------ MODULE RecoveryStoreProofs ------------------------
(***************************************************************************)
(* Proofs about RecoveryStore for every number of sessions, connections,   *)
(* chunk sizes and limits.                                                 *)
(***************************************************************************)
EXTENDS RecoveryStore, FiniteSetTheorems, WellFoundedInduction, TLAPS

LEMMA InitTyped == Init => TypeOK /\ ConnInv
<1> SUFFICES ASSUME Init PROVE TypeOK /\ ConnInv
  OBVIOUS
<1>1. TypeOK
  <2>1. /\ audio_bytes \in [Sessions -> Nat]
        /\ total \in Int
    BY DEF Init
  <2>2. /\ ref \in [Connections -> Sessions \cup {NoSession}]
        /\ handler \in [Connections -> HandlerPC]
        /\ worker \in [Connections -> {"none", "running", "released"}]
        /\ done \in [Connections -> BOOLEAN]
        /\ pending \in [Connections -> Nat]
    BY DEF Init, HandlerPC
  <2>3. QED
    BY <2>1, <2>2 DEF Init, TypeOK
<1>2. ConnInv
  BY DEF Init, ConnInv
<1>3. QED
  BY <1>1, <1>2

\* Counters stay natural numbers: a release takes all of a session's bytes, a
\* rollback only bytes that are still reserved.
LEMMA NextTyped == TypeOK /\ ConnInv /\ [Next]_vars => TypeOK' /\ ConnInv'
<1> SUFFICES ASSUME TypeOK, ConnInv, [Next]_vars PROVE TypeOK' /\ ConnInv'
  OBVIOUS
<1> USE StoreAssumption DEF TypeOK, ConnInv, HandlerPC, storeVars, connVars,
     Goto, Inactive, Leave
<1>1. ASSUME NEW c \in Connections, NEW s \in Sessions, OpenNew(c, s)
      PROVE  TypeOK' /\ ConnInv'
  BY <1>1 DEF OpenNew, NewSession, Fresh
<1>2. ASSUME NEW c \in Connections, NEW s \in Sessions,
             NEW e \in Sessions, OpenEvicting(c, s, e)
      PROVE  TypeOK' /\ ConnInv'
  BY <1>2 DEF OpenEvicting, NewSession, Fresh, Oldest
<1>3. ASSUME NEW c \in Connections, NEW s \in Sessions, Resume(c, s)
      PROVE  TypeOK' /\ ConnInv'
  BY <1>3 DEF Resume
<1>4. ASSUME NEW c \in Connections, StartWorker(c)
      PROVE  TypeOK' /\ ConnInv'
  BY <1>4 DEF StartWorker
<1>5. ASSUME NEW c \in Connections, NEW n \in Sizes, ReserveAudio(c, n)
      PROVE  TypeOK' /\ ConnInv'
  BY <1>5 DEF ReserveAudio
<1>6. ASSUME NEW c \in Connections, NEW n \in Sizes, ReserveRaises(c, n)
      PROVE  TypeOK' /\ ConnInv'
  BY <1>6 DEF ReserveRaises
<1>7. ASSUME NEW c \in Connections, AppendTimeline(c)
      PROVE  TypeOK' /\ ConnInv'
  BY <1>7 DEF AppendTimeline, Touch
<1>8. ASSUME NEW c \in Connections, AppendRaises(c)
      PROVE  TypeOK' /\ ConnInv'
  BY <1>8 DEF AppendRaises
<1>9. ASSUME NEW c \in Connections, RollBackAudio(c)
      PROVE  TypeOK' /\ ConnInv'
  BY <1>9 DEF RollBackAudio, AtLeastZero
<1>10. ASSUME NEW c \in Connections, WorkerReleases(c)
      PROVE  TypeOK' /\ ConnInv'
  BY <1>10 DEF WorkerReleases, ReleaseSession, Touch
<1>11. ASSUME NEW c \in Connections, WorkerEnds(c)
      PROVE  TypeOK' /\ ConnInv'
  BY <1>11 DEF WorkerEnds
<1>12. ASSUME NEW c \in Connections, HandlerCancels(c)
      PROVE  TypeOK' /\ ConnInv'
  BY <1>12 DEF HandlerCancels
<1>13. ASSUME NEW c \in Connections, HandlerStops(c)
      PROVE  TypeOK' /\ ConnInv'
  BY <1>13 DEF HandlerStops
<1>14. ASSUME NEW c \in Connections, HandlerReleases(c)
      PROVE  TypeOK' /\ ConnInv'
  BY <1>14 DEF HandlerReleases, ReleaseSession, Touch, Takes
<1>15. ASSUME NEW c \in Connections, HandlerLeaves(c)
      PROVE  TypeOK' /\ ConnInv'
  BY <1>15 DEF HandlerLeaves
<1>16. ASSUME NEW s \in Sessions, Prune(s)
      PROVE  TypeOK' /\ ConnInv'
  BY <1>16 DEF Prune, Oldest, AtLeastZero
<1>17. ASSUME Close
      PROVE  TypeOK' /\ ConnInv'
  BY <1>17 DEF Close
<1>18. ASSUME NEW s \in Sessions, CloseTimeline(s)
      PROVE  TypeOK' /\ ConnInv'
  BY <1>18 DEF CloseTimeline
<1>19. CASE UNCHANGED vars
  BY <1>19 DEF vars
<1>20. QED
  BY <1>1, <1>2, <1>3, <1>4, <1>5, <1>6, <1>7, <1>8, <1>9, <1>10,
     <1>11, <1>12, <1>13, <1>14, <1>15, <1>16, <1>17, <1>18, <1>19
     DEF Next, Open, AppendAudio, Finish

THEOREM StoreTyped == Spec => [](TypeOK /\ ConnInv)
  BY InitTyped, NextTyped, PTL DEF Spec

-----------------------------------------------------------------------------
LEMMA NextActive ==
  TypeOK /\ ConnInv /\ ActiveHasOwner /\ [Next]_vars => ActiveHasOwner'
<1> SUFFICES ASSUME TypeOK, ConnInv, ActiveHasOwner, [Next]_vars
             PROVE  ActiveHasOwner'
  OBVIOUS
<1> USE StoreAssumption DEF TypeOK, ConnInv, ActiveHasOwner, HandlerPC,
     storeVars, connVars, Goto, Inactive
<1>1. ASSUME NEW c \in Connections, NEW s \in Sessions, OpenNew(c, s)
      PROVE  ActiveHasOwner'
  BY <1>1 DEF OpenNew, NewSession, Fresh
<1>2. ASSUME NEW c \in Connections, NEW s \in Sessions,
             NEW e \in Sessions, OpenEvicting(c, s, e)
      PROVE  ActiveHasOwner'
  BY <1>2 DEF OpenEvicting, NewSession, Fresh, Oldest
<1>3. ASSUME NEW c \in Connections, NEW s \in Sessions, Resume(c, s)
      PROVE  ActiveHasOwner'
  BY <1>3 DEF Resume
<1>4. ASSUME NEW c \in Connections, StartWorker(c)
      PROVE  ActiveHasOwner'
  BY <1>4 DEF StartWorker
<1>5. ASSUME NEW c \in Connections, NEW n \in Sizes, ReserveAudio(c, n)
      PROVE  ActiveHasOwner'
  BY <1>5 DEF ReserveAudio
<1>6. ASSUME NEW c \in Connections, NEW n \in Sizes, ReserveRaises(c, n)
      PROVE  ActiveHasOwner'
  BY <1>6 DEF ReserveRaises
<1>7. ASSUME NEW c \in Connections, AppendTimeline(c)
      PROVE  ActiveHasOwner'
  BY <1>7 DEF AppendTimeline, Touch
<1>8. ASSUME NEW c \in Connections, AppendRaises(c)
      PROVE  ActiveHasOwner'
  BY <1>8 DEF AppendRaises
<1>9. ASSUME NEW c \in Connections, RollBackAudio(c)
      PROVE  ActiveHasOwner'
  BY <1>9 DEF RollBackAudio, AtLeastZero
<1>10. ASSUME NEW c \in Connections, WorkerReleases(c)
      PROVE  ActiveHasOwner'
  BY <1>10 DEF WorkerReleases, ReleaseSession, Touch
<1>11. ASSUME NEW c \in Connections, WorkerEnds(c)
      PROVE  ActiveHasOwner'
  BY <1>11 DEF WorkerEnds
<1>12. ASSUME NEW c \in Connections, HandlerCancels(c)
      PROVE  ActiveHasOwner'
  BY <1>12 DEF HandlerCancels
<1>13. ASSUME NEW c \in Connections, HandlerStops(c)
      PROVE  ActiveHasOwner'
  BY <1>13 DEF HandlerStops
<1>14. ASSUME NEW c \in Connections, HandlerReleases(c)
      PROVE  ActiveHasOwner'
  BY <1>14 DEF HandlerReleases, ReleaseSession, Touch
<1>15. ASSUME NEW c \in Connections, HandlerLeaves(c)
      PROVE  ActiveHasOwner'
  BY <1>15 DEF HandlerLeaves
<1>16. ASSUME NEW s \in Sessions, Prune(s)
      PROVE  ActiveHasOwner'
  BY <1>16 DEF Prune, Oldest, AtLeastZero
<1>17. ASSUME Close
      PROVE  ActiveHasOwner'
  BY <1>17 DEF Close
<1>18. ASSUME NEW s \in Sessions, CloseTimeline(s)
      PROVE  ActiveHasOwner'
  BY <1>18 DEF CloseTimeline
<1>19. CASE UNCHANGED vars
  BY <1>19 DEF vars
<1>20. QED
  BY <1>1, <1>2, <1>3, <1>4, <1>5, <1>6, <1>7, <1>8, <1>9, <1>10,
     <1>11, <1>12, <1>13, <1>14, <1>15, <1>16, <1>17, <1>18, <1>19
     DEF Next, Open, AppendAudio, Finish

\* No session is left active without a connection that will release it.
THEOREM ActiveSessionsHaveOwners == Spec => []ActiveHasOwner
<1>1. Init => ActiveHasOwner
  BY DEF Init, ActiveHasOwner
<1>2. QED
  BY <1>1, NextActive, StoreTyped, PTL DEF Spec

-----------------------------------------------------------------------------
LEMMA NextHeld == TypeOK /\ ConnInv /\ HeldInv /\ [Next]_vars => HeldInv'
<1> SUFFICES ASSUME TypeOK, ConnInv, HeldInv, [Next]_vars
             PROVE  HeldInv'
  OBVIOUS
<1> USE StoreAssumption DEF TypeOK, ConnInv, HeldInv, Using, Live,
     HandlerPC, storeVars, connVars, Goto, Inactive
<1>1. ASSUME NEW c \in Connections, NEW s \in Sessions, OpenNew(c, s)
      PROVE  HeldInv'
  BY <1>1 DEF OpenNew, NewSession, Fresh
<1>2. ASSUME NEW c \in Connections, NEW s \in Sessions,
             NEW e \in Sessions, OpenEvicting(c, s, e)
      PROVE  HeldInv'
  BY <1>2 DEF OpenEvicting, NewSession, Fresh, Oldest
<1>3. ASSUME NEW c \in Connections, NEW s \in Sessions, Resume(c, s)
      PROVE  HeldInv'
  BY <1>3 DEF Resume
<1>4. ASSUME NEW c \in Connections, StartWorker(c)
      PROVE  HeldInv'
  BY <1>4 DEF StartWorker
<1>5. ASSUME NEW c \in Connections, NEW n \in Sizes, ReserveAudio(c, n)
      PROVE  HeldInv'
  BY <1>5 DEF ReserveAudio
<1>6. ASSUME NEW c \in Connections, NEW n \in Sizes, ReserveRaises(c, n)
      PROVE  HeldInv'
  BY <1>6 DEF ReserveRaises
<1>7. ASSUME NEW c \in Connections, AppendTimeline(c)
      PROVE  HeldInv'
  BY <1>7 DEF AppendTimeline, Touch
<1>8. ASSUME NEW c \in Connections, AppendRaises(c)
      PROVE  HeldInv'
  BY <1>8 DEF AppendRaises
<1>9. ASSUME NEW c \in Connections, RollBackAudio(c)
      PROVE  HeldInv'
  BY <1>9 DEF RollBackAudio, AtLeastZero
<1>10. ASSUME NEW c \in Connections, WorkerReleases(c)
      PROVE  HeldInv'
  BY <1>10 DEF WorkerReleases, ReleaseSession, Touch
<1>11. ASSUME NEW c \in Connections, WorkerEnds(c)
      PROVE  HeldInv'
  BY <1>11 DEF WorkerEnds
<1>12. ASSUME NEW c \in Connections, HandlerCancels(c)
      PROVE  HeldInv'
  BY <1>12 DEF HandlerCancels
<1>13. ASSUME NEW c \in Connections, HandlerStops(c)
      PROVE  HeldInv'
  BY <1>13 DEF HandlerStops
<1>14. ASSUME NEW c \in Connections, HandlerReleases(c)
      PROVE  HeldInv'
  BY <1>14 DEF HandlerReleases, ReleaseSession, Touch, Takes
<1>15. ASSUME NEW c \in Connections, HandlerLeaves(c)
      PROVE  HeldInv'
  BY <1>15 DEF HandlerLeaves
<1>16. ASSUME NEW s \in Sessions, Prune(s)
      PROVE  HeldInv'
  BY <1>16 DEF Prune, Oldest, AtLeastZero
<1>17. ASSUME Close
      PROVE  HeldInv'
  BY <1>17 DEF Close
<1>18. ASSUME NEW s \in Sessions, CloseTimeline(s)
      PROVE  HeldInv'
  BY <1>18 DEF CloseTimeline
<1>19. CASE UNCHANGED vars
  BY <1>19 DEF vars
<1>20. QED
  BY <1>1, <1>2, <1>3, <1>4, <1>5, <1>6, <1>7, <1>8, <1>9, <1>10,
     <1>11, <1>12, <1>13, <1>14, <1>15, <1>16, <1>17, <1>18, <1>19
     DEF Next, Open, AppendAudio, Finish

\* A session that is being transcribed is never evicted, pruned or resumed by a
\* second connection, however early clients reconnect, before a handler has
\* released it under the connection that resumed it.
THEOREM UsedSessionsAreKept == Spec => []UsedSessionKept
<1>1. Init => HeldInv
  BY DEF Init, HeldInv, Live, Using
<1>2. HeldInv => UsedSessionKept
  BY DEF HeldInv, UsedSessionKept, Live, Using
<1>3. QED
  BY <1>1, <1>2, NextHeld, StoreTyped, PTL DEF Spec

\* Two workers write to one session only after such a release: until then its
\* log and its timeline have a single author at a time.
THEOREM OneWorkerWrites == Spec => []OneWriter
<1>1. Init => HeldInv
  BY DEF Init, HeldInv, Live, Using
<1>2. HeldInv => OneWriter
  BY DEF HeldInv, OneWriter, Live, Using
<1>3. QED
  BY <1>1, <1>2, NextHeld, StoreTyped, PTL DEF Spec

-----------------------------------------------------------------------------
LEMMA NextDrained ==
  TypeOK /\ ConnInv /\ CompletedKeepsNoAudio /\ [Next]_vars => CompletedKeepsNoAudio'
<1> SUFFICES ASSUME TypeOK, ConnInv, CompletedKeepsNoAudio, [Next]_vars
             PROVE  CompletedKeepsNoAudio'
  OBVIOUS
<1> USE StoreAssumption DEF TypeOK, ConnInv, CompletedKeepsNoAudio, HandlerPC,
     storeVars, connVars, Goto, Inactive, Referenced, Leave
<1>1. ASSUME NEW c \in Connections, NEW s \in Sessions, OpenNew(c, s)
      PROVE  CompletedKeepsNoAudio'
  BY <1>1 DEF OpenNew, NewSession, Fresh
<1>2. ASSUME NEW c \in Connections, NEW s \in Sessions,
             NEW e \in Sessions, OpenEvicting(c, s, e)
      PROVE  CompletedKeepsNoAudio'
  BY <1>2 DEF OpenEvicting, NewSession, Fresh, Oldest
<1>3. ASSUME NEW c \in Connections, NEW s \in Sessions, Resume(c, s)
      PROVE  CompletedKeepsNoAudio'
  BY <1>3 DEF Resume
<1>4. ASSUME NEW c \in Connections, StartWorker(c)
      PROVE  CompletedKeepsNoAudio'
  BY <1>4 DEF StartWorker
<1>5. ASSUME NEW c \in Connections, NEW n \in Sizes, ReserveAudio(c, n)
      PROVE  CompletedKeepsNoAudio'
  BY <1>5 DEF ReserveAudio
<1>6. ASSUME NEW c \in Connections, NEW n \in Sizes, ReserveRaises(c, n)
      PROVE  CompletedKeepsNoAudio'
  BY <1>6 DEF ReserveRaises
<1>7. ASSUME NEW c \in Connections, AppendTimeline(c)
      PROVE  CompletedKeepsNoAudio'
  BY <1>7 DEF AppendTimeline, Touch
<1>8. ASSUME NEW c \in Connections, AppendRaises(c)
      PROVE  CompletedKeepsNoAudio'
  BY <1>8 DEF AppendRaises
<1>9. ASSUME NEW c \in Connections, RollBackAudio(c)
      PROVE  CompletedKeepsNoAudio'
  BY <1>9 DEF RollBackAudio, AtLeastZero
<1>10. ASSUME NEW c \in Connections, WorkerReleases(c)
      PROVE  CompletedKeepsNoAudio'
  BY <1>10 DEF WorkerReleases, ReleaseSession, Touch
<1>11. ASSUME NEW c \in Connections, WorkerEnds(c)
      PROVE  CompletedKeepsNoAudio'
  BY <1>11 DEF WorkerEnds
<1>12. ASSUME NEW c \in Connections, HandlerCancels(c)
      PROVE  CompletedKeepsNoAudio'
  BY <1>12 DEF HandlerCancels
<1>13. ASSUME NEW c \in Connections, HandlerStops(c)
      PROVE  CompletedKeepsNoAudio'
  BY <1>13 DEF HandlerStops
<1>14. ASSUME NEW c \in Connections, HandlerReleases(c)
      PROVE  CompletedKeepsNoAudio'
  BY <1>14 DEF HandlerReleases, ReleaseSession, Touch
<1>15. ASSUME NEW c \in Connections, HandlerLeaves(c)
      PROVE  CompletedKeepsNoAudio'
  BY <1>15 DEF HandlerLeaves
<1>16. ASSUME NEW s \in Sessions, Prune(s)
      PROVE  CompletedKeepsNoAudio'
  BY <1>16 DEF Prune, Oldest, AtLeastZero
<1>17. ASSUME Close
      PROVE  CompletedKeepsNoAudio'
  BY <1>17 DEF Close
<1>18. ASSUME NEW s \in Sessions, CloseTimeline(s)
      PROVE  CompletedKeepsNoAudio'
  BY <1>18 DEF CloseTimeline
<1>19. CASE UNCHANGED vars
  BY <1>19 DEF vars
<1>20. QED
  BY <1>1, <1>2, <1>3, <1>4, <1>5, <1>6, <1>7, <1>8, <1>9, <1>10,
     <1>11, <1>12, <1>13, <1>14, <1>15, <1>16, <1>17, <1>18, <1>19
     DEF Next, Open, AppendAudio, Finish

\* A completed session that no connection holds has given back all its bytes,
\* and its temporary file is closed or about to be.
THEOREM CompletedSessionsAreDrained == Spec => []CompletedKeepsNoAudio
<1>1. Init => CompletedKeepsNoAudio
  BY DEF Init, CompletedKeepsNoAudio
<1>2. QED
  BY <1>1, NextDrained, StoreTyped, PTL DEF Spec

-----------------------------------------------------------------------------
\* A set that gains at most the new session s and has lost one first when it
\* was full stays within the limit.
LEMMA NextBounded ==
  /\ TypeOK /\ IsFiniteSet(sessions) /\ SessionsBounded /\ [Next]_vars
  => IsFiniteSet(sessions)' /\ SessionsBounded'
<1> SUFFICES ASSUME TypeOK, IsFiniteSet(sessions), SessionsBounded, [Next]_vars
             PROVE  IsFiniteSet(sessions') /\ SessionsBounded'
  OBVIOUS
<1>0. Cardinality(sessions) \in Nat /\ Cardinality(sessions) <= max_sessions
  BY FS_CardinalityType DEF SessionsBounded
<1>1. ASSUME NEW c \in Connections, NEW s \in Sessions, OpenNew(c, s)
      PROVE  IsFiniteSet(sessions') /\ SessionsBounded'
  <2>1. sessions' = sessions \cup {s} /\ Cardinality(sessions) < max_sessions
    BY <1>1 DEF OpenNew
  <2>2. /\ IsFiniteSet(sessions')
        /\ Cardinality(sessions') = Cardinality(sessions)
             \/ Cardinality(sessions') = Cardinality(sessions) + 1
    BY <2>1, FS_AddElement
  <2>3. QED
    BY <1>0, <2>1, <2>2, StoreAssumption DEF SessionsBounded
<1>2. ASSUME NEW c \in Connections, NEW s \in Sessions, NEW e \in Sessions,
             OpenEvicting(c, s, e)
      PROVE  IsFiniteSet(sessions') /\ SessionsBounded'
  <2> DEFINE Rest == sessions \ {e}
  <2>1. e \in sessions /\ sessions' = Rest \cup {s}
    BY <1>2 DEF OpenEvicting, Oldest, Inactive
  <2>2. IsFiniteSet(Rest) /\ Cardinality(Rest) = Cardinality(sessions) - 1
    BY <2>1, FS_RemoveElement
  <2>3. /\ IsFiniteSet(sessions')
        /\ Cardinality(sessions') = Cardinality(Rest)
             \/ Cardinality(sessions') = Cardinality(Rest) + 1
    BY <2>1, <2>2, FS_AddElement
  <2>4. QED
    BY <1>0, <2>2, <2>3, StoreAssumption DEF SessionsBounded
<1>3. CASE sessions' \subseteq sessions
  <2>1. IsFiniteSet(sessions') /\ Cardinality(sessions') <= Cardinality(sessions)
    BY <1>3, FS_Subset
  <2>2. Cardinality(sessions') \in Nat
    BY <2>1, FS_CardinalityType
  <2>3. QED
    BY <1>0, <2>1, <2>2, StoreAssumption DEF SessionsBounded
<1>4. QED
  BY <1>1, <1>2, <1>3 DEF Next, vars, storeVars, connVars, Open, AppendAudio,
     Finish, Resume, StartWorker, ReserveAudio, ReserveRaises, AppendTimeline,
     AppendRaises, RollBackAudio, WorkerEnds, WorkerReleases, HandlerCancels,
     HandlerStops, HandlerReleases, HandlerLeaves, ReleaseSession, Prune, Close,
     CloseTimeline

\* The store never exceeds its configured number of sessions.
THEOREM StoreStaysBounded == Spec => []SessionsBounded
<1>1. Init => IsFiniteSet(sessions) /\ SessionsBounded
  <2>1. Init => sessions = {}
    BY DEF Init
  <2>2. QED
    BY <2>1, FS_EmptySet, StoreAssumption DEF SessionsBounded
<1>2. QED
  BY <1>1, NextBounded, StoreTyped, PTL DEF Spec

-----------------------------------------------------------------------------
(* Sums over finite sets, taken apart element by element.                  *)

\* A set of numbers with 0 and the successor of each is Nat.
LEMMA NumberInduction ==
  ASSUME NEW S \in SUBSET Nat, 0 \in S, \A n \in S : n + 1 \in S
  PROVE  S = Nat
<1> SUFFICES ASSUME Nat \ S # {} PROVE FALSE
  OBVIOUS
<1> DEFINE R == {ss \in Nat \X Nat : ss[1] < ss[2]}
<1>1. IsWellFoundedOn(R, Nat)
  BY NatLessThanWellFounded DEF OpToRel
<1> HIDE DEF R
<1>2. PICK m \in Nat \ S : \A r \in Nat \ S : ~(<<r, m>> \in R)
  BY <1>1, WFMin
<1>3. m - 1 \in Nat /\ (m - 1) + 1 = m
  OBVIOUS
<1>4. <<m - 1, m>> \in R
  BY <1>3 DEF R
<1>5. m - 1 \in S
  BY <1>2, <1>3, <1>4
<1>6. QED
  BY <1>3, <1>5

\* The element a sum over s begins with, and what defines the sums over the
\* subsets of S, those of at most n elements to begin with.
Element(s) == CHOOSE x \in s : TRUE

Sum(g, f, s) == IF s = {} THEN 0 ELSE f[Element(s)] + g[s \ {Element(s)}]

Sums(g, f, S) == g = [s \in SUBSET S |-> Sum(g, f, s)]

SumsUpTo(g, f, S, n) ==
  /\ g = [s \in SUBSET S |-> g[s]]
  /\ \A s \in SUBSET S : Cardinality(s) <= n => g[s] = Sum(g, f, s)

\* A set without one of its elements.
LEMMA OneLess ==
  ASSUME NEW S, IsFiniteSet(S), NEW s \in SUBSET S, NEW x \in s
  PROVE  /\ s \ {x} \in SUBSET S
         /\ Cardinality(s) \in Nat \ {0}
         /\ Cardinality(s \ {x}) = Cardinality(s) - 1
<1>1. IsFiniteSet(s)
  BY FS_Subset
<1>2. Cardinality(s) \in Nat /\ (Cardinality(s) = 0 <=> s = {})
  BY <1>1, FS_CardinalityType, FS_EmptySet
<1>3. Cardinality(s \ {x}) = Cardinality(s) - 1
  BY <1>1, FS_RemoveElement
<1>4. QED
  BY <1>2, <1>3

LEMMA SumsExist ==
  ASSUME NEW S, IsFiniteSet(S), NEW f
  PROVE  \E g : Sums(g, f, S)
<1> DEFINE N == {n \in Nat : \E g : SumsUpTo(g, f, S, n)}
<1>1. 0 \in N
  <2> DEFINE g == [s \in SUBSET S |-> 0]
  <2>1. \A s \in SUBSET S : Cardinality(s) <= 0 => s = {}
    BY FS_Subset, FS_CardinalityType, FS_EmptySet
  <2>2. SumsUpTo(g, f, S, 0)
    BY <2>1 DEF SumsUpTo, Sum
  <2>3. QED
    BY <2>2
<1>2. ASSUME NEW n \in N PROVE n + 1 \in N
  <2>1. n \in Nat
    OBVIOUS
  <2>2. PICK g : SumsUpTo(g, f, S, n)
    OBVIOUS
  <2> DEFINE h == [s \in SUBSET S |-> Sum(g, f, s)]
  <2>3. \A s \in SUBSET S : h[s] = Sum(g, f, s)
    OBVIOUS
  <2>4. h = [s \in SUBSET S |-> h[s]]
    OBVIOUS
  <2> HIDE DEF h
  <2>5. ASSUME NEW s \in SUBSET S, Cardinality(s) <= n + 1
        PROVE  h[s] = Sum(h, f, s)
    <3>1. CASE s = {}
      BY <2>3, <3>1 DEF Sum
    <3>2. CASE s # {}
      <4> DEFINE rest == s \ {Element(s)}
      <4>1. Element(s) \in s
        BY <3>2 DEF Element
      <4>2. rest \in SUBSET S /\ Cardinality(rest) <= n
        BY <2>1, <2>5, <4>1, OneLess
      <4>3. h[rest] = g[rest]
        BY <2>2, <2>3, <4>2 DEF SumsUpTo
      <4>4. QED
        BY <2>3, <3>2, <4>3 DEF Sum
    <3>3. QED
      BY <3>1, <3>2
  <2>6. SumsUpTo(h, f, S, n + 1)
    BY <2>4, <2>5 DEF SumsUpTo
  <2>7. QED
    BY <2>1, <2>6
<1>3. N \in SUBSET Nat
  OBVIOUS
<1> HIDE DEF N
<1>4. Cardinality(S) \in N
  BY <1>1, <1>2, <1>3, NumberInduction, FS_CardinalityType
<1>5. PICK g : SumsUpTo(g, f, S, Cardinality(S))
  BY <1>4 DEF N
<1>6. \A s \in SUBSET S : Cardinality(s) <= Cardinality(S)
  BY FS_Subset
<1>7. \A s \in SUBSET S : g[s] = Sum(g, f, s)
  BY <1>5, <1>6 DEF SumsUpTo
<1>8. Sums(g, f, S)
  BY <1>5, <1>7 DEF SumsUpTo, Sums
<1>9. QED
  BY <1>8

LEMMA BytesAreSums ==
  ASSUME NEW S, IsFiniteSet(S), NEW f
  PROVE  \E g : Sums(g, f, S) /\ Bytes(f, S) = g[S]
<1> DEFINE g == CHOOSE g : g = [s \in SUBSET S |->
                    IF s = {} THEN 0
                    ELSE f[CHOOSE x \in s : TRUE] + g[s \ {CHOOSE x \in s : TRUE}]]
<1>1. \E h : Sums(h, f, S)
  BY SumsExist
<1>2. Sums(g, f, S)
  BY <1>1 DEF Sums, Sum, Element
<1>3. Bytes(f, S) = g[S]
  BY DEF Bytes, MapThenSumSet, MapThenFoldSet
<1> HIDE DEF g
<1>4. QED
  BY <1>2, <1>3

\* A sum may begin with any element.
SumsOfAny(g, f, s) ==
  g[s] \in Nat /\ \A x \in s : g[s] = f[x] + g[s \ {x}]

LEMMA SumsBeginAnywhere ==
  ASSUME NEW S, IsFiniteSet(S), NEW f, \A x \in S : f[x] \in Nat,
         NEW g, Sums(g, f, S), NEW t \in SUBSET S
  PROVE  SumsOfAny(g, f, t)
<1>0. \A s \in SUBSET S : g[s] = Sum(g, f, s)
  BY DEF Sums
<1>1. SumsOfAny(g, f, {})
  <2>1. {} \in SUBSET S
    OBVIOUS
  <2>2. g[{}] = 0
    BY <1>0, <2>1 DEF Sum
  <2>3. QED
    BY <2>2 DEF SumsOfAny
<1> DEFINE N == {n \in Nat : \A s \in SUBSET S : Cardinality(s) <= n => SumsOfAny(g, f, s)}
<1>2. 0 \in N
  <2>1. \A s \in SUBSET S : Cardinality(s) <= 0 => s = {}
    BY FS_Subset, FS_CardinalityType, FS_EmptySet
  <2>2. QED
    BY <1>1, <2>1
<1>3. ASSUME NEW n \in N PROVE n + 1 \in N
  <2>1. n \in Nat /\ \A s \in SUBSET S : Cardinality(s) <= n => SumsOfAny(g, f, s)
    OBVIOUS
  <2>2. ASSUME NEW s \in SUBSET S, Cardinality(s) <= n + 1, s # {}
        PROVE  SumsOfAny(g, f, s)
    <3> DEFINE p == Element(s)
    <3>2. p \in s
      BY <2>2 DEF Element
    <3>3. g[s] = f[p] + g[s \ {p}]
      BY <1>0, <2>2 DEF Sum
    <3> HIDE DEF p
    <3>4. \A x \in s : s \ {x} \in SUBSET S /\ SumsOfAny(g, f, s \ {x})
      <4> TAKE x \in s
      <4>1. s \ {x} \in SUBSET S /\ Cardinality(s \ {x}) <= n
        BY <2>1, <2>2, OneLess
      <4>2. QED
        BY <2>1, <4>1
    <3>5. \A x \in s : f[x] \in Nat /\ g[s \ {x}] \in Nat
      BY <3>4 DEF SumsOfAny
    <3>6. ASSUME NEW x \in s, x # p PROVE g[s] = f[x] + g[s \ {x}]
      <4> DEFINE rest == s \ {x, p}
      <4>1. (s \ {p}) \ {x} = rest /\ (s \ {x}) \ {p} = rest
        OBVIOUS
      <4>2. g[s \ {p}] = f[x] + g[rest]
        BY <3>2, <3>4, <3>6, <4>1 DEF SumsOfAny
      <4>3. g[s \ {x}] = f[p] + g[rest]
        BY <3>2, <3>4, <3>6, <4>1 DEF SumsOfAny
      <4>4. g[rest] \in Nat
        <5>1. s \ {x} \in SUBSET S /\ p \in s \ {x}
          BY <3>2, <3>6
        <5>2. /\ rest \in SUBSET S
              /\ Cardinality(rest) = Cardinality(s \ {x}) - 1
              /\ Cardinality(s \ {x}) = Cardinality(s) - 1
              /\ Cardinality(s) \in Nat
          BY <4>1, <5>1, OneLess
        <5>3. Cardinality(rest) <= n
          BY <2>1, <2>2, <5>2
        <5>4. QED
          BY <2>1, <5>2, <5>3 DEF SumsOfAny
      <4> HIDE DEF rest
      <4>5. f[x] \in Nat /\ f[p] \in Nat
        BY <3>2, <3>5
      <4>6. QED
        BY <3>3, <4>2, <4>3, <4>4, <4>5
    <3>7. g[s] \in Nat
      BY <3>2, <3>3, <3>5
    <3>8. QED
      BY <3>3, <3>6, <3>7 DEF SumsOfAny
  <2>3. QED
    BY <1>1, <2>1, <2>2
<1>4. N \in SUBSET Nat
  OBVIOUS
<1> HIDE DEF N
<1>5. Cardinality(t) \in N
  BY <1>2, <1>3, <1>4, NumberInduction, FS_Subset, FS_CardinalityType
<1>6. QED
  BY <1>5 DEF N

\* Sums of what is the same are the same.
LEMMA SumsAgree ==
  ASSUME NEW S, IsFiniteSet(S), NEW f, NEW g, Sums(g, f, S),
         NEW T, NEW k, NEW h, Sums(h, k, T),
         NEW U \in SUBSET (S \cap T), \A x \in U : f[x] = k[x]
  PROVE  g[U] = h[U]
<1> DEFINE N == {n \in Nat : \A s \in SUBSET U : Cardinality(s) <= n => g[s] = h[s]}
<1>0. /\ \A s \in SUBSET S : g[s] = Sum(g, f, s)
      /\ \A s \in SUBSET T : h[s] = Sum(h, k, s)
  BY DEF Sums
<1>1. IsFiniteSet(U)
  BY FS_Subset
<1>2. g[{}] = h[{}]
  BY <1>0 DEF Sum
<1>3. 0 \in N
  <2>1. \A s \in SUBSET U : Cardinality(s) <= 0 => s = {}
    BY <1>1, FS_Subset, FS_CardinalityType, FS_EmptySet
  <2>2. QED
    BY <1>2, <2>1
<1>4. ASSUME NEW n \in N PROVE n + 1 \in N
  <2>1. n \in Nat /\ \A s \in SUBSET U : Cardinality(s) <= n => g[s] = h[s]
    OBVIOUS
  <2>2. ASSUME NEW s \in SUBSET U, Cardinality(s) <= n + 1, s # {}
        PROVE  g[s] = h[s]
    <3> DEFINE p == Element(s)
    <3>1. p \in s
      BY <2>2 DEF Element
    <3>2. g[s] = f[p] + g[s \ {p}] /\ h[s] = k[p] + h[s \ {p}]
      BY <1>0, <2>2 DEF Sum
    <3> HIDE DEF p
    <3>3. s \ {p} \in SUBSET U /\ Cardinality(s \ {p}) <= n
      BY <1>1, <2>1, <2>2, <3>1, OneLess
    <3>4. g[s \ {p}] = h[s \ {p}] /\ f[p] = k[p]
      BY <2>1, <3>1, <3>3
    <3>5. QED
      BY <3>2, <3>4
  <2>3. QED
    BY <1>2, <2>1, <2>2
<1>5. N \in SUBSET Nat
  OBVIOUS
<1> HIDE DEF N
<1>6. Cardinality(U) \in N
  BY <1>1, <1>3, <1>4, <1>5, NumberInduction, FS_CardinalityType
<1>7. QED
  BY <1>1, <1>6, FS_Subset DEF N

\* What the steps need of the sum of the sessions' counters.
LEMMA BytesSame ==
  ASSUME NEW S, IsFiniteSet(S), NEW f, NEW k, \A x \in S : f[x] = k[x]
  PROVE  Bytes(f, S) = Bytes(k, S)
<1>1. PICK g : Sums(g, f, S) /\ Bytes(f, S) = g[S]
  BY BytesAreSums
<1>2. PICK h : Sums(h, k, S) /\ Bytes(k, S) = h[S]
  BY BytesAreSums
<1>3. g[S] = h[S]
  BY <1>1, <1>2, SumsAgree
<1>4. QED
  BY <1>1, <1>2, <1>3

LEMMA BytesWithout ==
  ASSUME NEW S, IsFiniteSet(S), NEW f, \A x \in S : f[x] \in Nat
  PROVE  /\ Bytes(f, S) \in Nat
         /\ \A x \in S : /\ Bytes(f, S \ {x}) \in Nat
                       /\ Bytes(f, S) = f[x] + Bytes(f, S \ {x})
<1>1. PICK g : Sums(g, f, S) /\ Bytes(f, S) = g[S]
  BY BytesAreSums
<1>2. SumsOfAny(g, f, S)
  BY <1>1, SumsBeginAnywhere
<1>3. ASSUME NEW x \in S
      PROVE  Bytes(f, S \ {x}) = g[S \ {x}] /\ g[S \ {x}] \in Nat
  <2>1. IsFiniteSet(S \ {x})
    BY FS_RemoveElement
  <2>2. PICK h : Sums(h, f, S \ {x}) /\ Bytes(f, S \ {x}) = h[S \ {x}]
    BY <2>1, BytesAreSums
  <2>3. g[S \ {x}] = h[S \ {x}]
    BY <1>1, <2>2, SumsAgree
  <2>4. SumsOfAny(g, f, S \ {x})
    BY <1>1, SumsBeginAnywhere
  <2>5. QED
    BY <2>2, <2>3, <2>4 DEF SumsOfAny
<1>4. QED
  BY <1>1, <1>2, <1>3 DEF SumsOfAny

\* Sessions outside the store that hold no bytes do not count.
LEMMA BytesOfStore ==
  ASSUME NEW S, IsFiniteSet(S), NEW R, IsFiniteSet(R), NEW f,
         \A x \in S \cup R : f[x] \in Nat, \A x \in R \ S : f[x] = 0
  PROVE  Bytes(f, S \cup R) = Bytes(f, S)
<1> DEFINE Beyond(W) == W \ S
           N == {n \in Nat : \A W \in SUBSET (S \cup R) :
                   S \subseteq W /\ Cardinality(Beyond(W)) = n => Bytes(f, W) = Bytes(f, S)}
<1>1. IsFiniteSet(S \cup R)
  BY FS_Union
<1>2. \A W \in SUBSET (S \cup R) : IsFiniteSet(W) /\ IsFiniteSet(Beyond(W))
  BY <1>1, FS_Subset
<1>3. 0 \in N
  <2>1. \A W \in SUBSET (S \cup R) : S \subseteq W /\ Cardinality(Beyond(W)) = 0 => W = S
    BY <1>2, FS_EmptySet
  <2>2. QED
    BY <2>1
<1>4. ASSUME NEW n \in N PROVE n + 1 \in N
  <2>1. n \in Nat
    OBVIOUS
  <2>2. ASSUME NEW W \in SUBSET (S \cup R), S \subseteq W, Cardinality(Beyond(W)) = n + 1
        PROVE  Bytes(f, W) = Bytes(f, S)
    <3>1. Beyond(W) # {}
      BY <2>1, <2>2, FS_EmptySet
    <3>2. PICK x \in W : x \notin S
      BY <3>1
    <3>3. Beyond(W \ {x}) = Beyond(W) \ {x} /\ x \in Beyond(W)
      BY <3>2
    <3>4. Cardinality(Beyond(W \ {x})) = n
      <4> DEFINE B == Beyond(W)
      <4>1. IsFiniteSet(B) /\ Cardinality(B) = n + 1 /\ x \in B
        BY <1>2, <2>2, <3>3
      <4> HIDE DEF B
      <4>2. Cardinality(B \ {x}) = Cardinality(B) - 1
        BY <4>1, FS_RemoveElement
      <4>3. Beyond(W \ {x}) = B \ {x}
        BY <3>3 DEF B
      <4> HIDE DEF Beyond
      <4>4. Cardinality(Beyond(W \ {x})) = (n + 1) - 1
        BY <4>1, <4>2, <4>3
      <4>5. QED
        BY <2>1, <4>4
    <3>5. W \ {x} \in SUBSET (S \cup R) /\ S \subseteq W \ {x}
      BY <2>2, <3>2
    <3>6. Bytes(f, W \ {x}) = Bytes(f, S)
      BY <3>4, <3>5
    <3>7. f[x] = 0 /\ \A y \in W : f[y] \in Nat
      BY <3>2
    <3>8. Bytes(f, W) = 0 + Bytes(f, W \ {x}) /\ Bytes(f, W \ {x}) \in Nat
      BY <1>2, <3>2, <3>7, BytesWithout
    <3>9. QED
      BY <3>6, <3>8
  <2>3. QED
    BY <2>1, <2>2
<1>5. N \in SUBSET Nat
  OBVIOUS
<1> DEFINE All == S \cup R
<1>6. All \in SUBSET (S \cup R) /\ S \subseteq All /\ Cardinality(Beyond(All)) \in Nat
  BY <1>2, FS_CardinalityType
<1> HIDE DEF N, All
<1>7. Cardinality(Beyond(All)) \in N
  BY <1>3, <1>4, <1>5, <1>6, NumberInduction
<1>8. Bytes(f, All) = Bytes(f, S)
  BY <1>6, <1>7 DEF N
<1>9. QED
  BY <1>8 DEF All

\* One session's bytes change.
LEMMA BytesSet ==
  ASSUME NEW S \in SUBSET Sessions, IsFiniteSet(S), NEW f \in [Sessions -> Nat],
         NEW k \in [Sessions -> Nat], NEW s \in S,
         \A x \in S : x # s => k[x] = f[x]
  PROVE  Bytes(k, S) = Bytes(f, S) - f[s] + k[s]
<1>1. /\ \A x \in S : f[x] \in Nat
      /\ \A x \in S : k[x] \in Nat
  OBVIOUS
<1>2. /\ Bytes(f, S \ {s}) \in Nat
      /\ Bytes(f, S) = f[s] + Bytes(f, S \ {s})
  BY <1>1, BytesWithout
<1>3. Bytes(k, S) = k[s] + Bytes(k, S \ {s})
  BY <1>1, BytesWithout
<1>4. Bytes(k, S \ {s}) = Bytes(f, S \ {s})
  <2>1. IsFiniteSet(S \ {s}) /\ \A x \in S \ {s} : k[x] = f[x]
    BY FS_RemoveElement
  <2>2. QED
    BY <2>1, BytesSame
<1>5. f[s] \in Nat /\ k[s] \in Nat
  BY <1>1
<1>6. QED
  BY <1>2, <1>3, <1>4, <1>5

\* The same by EXCEPT; and one session is removed, and one is added.
LEMMA BytesChange ==
  ASSUME NEW S \in SUBSET Sessions, IsFiniteSet(S), NEW f \in [Sessions -> Nat],
         NEW s \in Sessions, NEW n \in Nat
  PROVE  /\ Bytes(f, S) \in Nat
         /\ s \in S => /\ Bytes(f, S) >= f[s]
                       /\ Bytes(f, S \ {s}) = Bytes(f, S) - f[s]
                       /\ Bytes([f EXCEPT ![s] = n], S) = Bytes(f, S) - f[s] + n
         /\ s \notin S => /\ Bytes([f EXCEPT ![s] = n], S) = Bytes(f, S)
                          /\ Bytes(f, S \cup {s}) = Bytes(f, S) + f[s]
<1> DEFINE k == [f EXCEPT ![s] = n]
<1>1. /\ k \in [Sessions -> Nat] /\ k[s] = n
      /\ \A x \in Sessions : x # s => k[x] = f[x]
      /\ f[s] \in Nat
  OBVIOUS
<1> HIDE DEF k
<1>2. Bytes(f, S) \in Nat
  BY BytesWithout
<1>3. CASE s \in S
  <2>1. /\ Bytes(f, S \ {s}) \in Nat
        /\ Bytes(f, S) = f[s] + Bytes(f, S \ {s})
    BY <1>3, BytesWithout
  <2>2. \A x \in S : x # s => k[x] = f[x]
    BY <1>1
  <2>3. Bytes(k, S) = Bytes(f, S) - f[s] + k[s]
    BY <1>1, <1>3, <2>2, BytesSet
  <2>4. /\ Bytes(f, S) >= f[s]
        /\ Bytes(f, S \ {s}) = Bytes(f, S) - f[s]
    BY <1>1, <2>1
  <2>5. QED
    BY <1>1, <1>2, <1>3, <2>3, <2>4 DEF k
<1>4. CASE s \notin S
  <2>1. Bytes(k, S) = Bytes(f, S)
    BY <1>1, <1>4, BytesSame
  <2> DEFINE All == S \cup {s}
  <2>2. /\ IsFiniteSet(All) /\ s \in All /\ All \ {s} = S
        /\ \A x \in All : f[x] \in Nat
    BY <1>4, FS_AddElement
  <2> HIDE DEF All
  <2>3. Bytes(f, All) = f[s] + Bytes(f, S)
    BY <2>2, BytesWithout
  <2>4. Bytes(f, All) = Bytes(f, S) + f[s]
    BY <1>1, <1>2, <2>3
  <2>5. QED
    BY <1>2, <1>4, <2>1, <2>4 DEF k, All
<1>5. QED
  BY <1>3, <1>4

-----------------------------------------------------------------------------
(* The process-wide counter.                                               *)

\* A connection refers to one session more, or to no other than before.
LEMMA NextReferenced ==
  TypeOK /\ ConnInv /\ IsFiniteSet(Referenced) /\ [Next]_vars => IsFiniteSet(Referenced')
<1> SUFFICES ASSUME TypeOK, ConnInv, IsFiniteSet(Referenced), [Next]_vars
             PROVE  IsFiniteSet(Referenced')
  OBVIOUS
<1>1. ASSUME NEW c \in Connections, NEW s \in Sessions, ref' = [ref EXCEPT ![c] = s]
      PROVE  IsFiniteSet(Referenced')
  <2>1. Referenced' \in SUBSET (Referenced \cup {s})
    BY <1>1 DEF Referenced, TypeOK
  <2>2. QED
    BY <2>1, FS_AddElement, FS_Subset
<1>2. ASSUME NEW c \in Connections, ref' = [ref EXCEPT ![c] = NoSession]
      PROVE  IsFiniteSet(Referenced')
  <2>1. Referenced' \in SUBSET Referenced
    BY <1>2 DEF Referenced, TypeOK
  <2>2. QED
    BY <2>1, FS_Subset
<1>3. CASE ref' = ref
  BY <1>3 DEF Referenced
<1>4. ASSUME NEW c \in Connections, Open(c) PROVE IsFiniteSet(Referenced')
  BY <1>1, <1>4 DEF Open, OpenNew, OpenEvicting, NewSession, Resume
<1>5. ASSUME NEW c \in Connections, WorkerReleases(c) \/ HandlerReleases(c)
      PROVE  IsFiniteSet(Referenced')
  BY <1>2, <1>3, <1>5 DEF WorkerReleases, HandlerReleases
<1>6. ASSUME NEW c \in Connections,
             \/ AppendAudio(c) \/ StartWorker(c) \/ WorkerEnds(c)
             \/ HandlerCancels(c) \/ HandlerStops(c) \/ HandlerLeaves(c)
      PROVE  IsFiniteSet(Referenced')
  <2>1. ref' = ref
    BY <1>6 DEF AppendAudio, StartWorker, ReserveAudio, ReserveRaises,
       AppendTimeline, AppendRaises, RollBackAudio, WorkerEnds, HandlerCancels,
       HandlerStops, HandlerLeaves
  <2>2. QED
    BY <1>3, <2>1
<1>7. ASSUME (\E s \in Sessions : Prune(s) \/ CloseTimeline(s)) \/ Close \/ UNCHANGED vars
      PROVE  IsFiniteSet(Referenced')
  <2>1. ref' = ref
    BY <1>7 DEF Prune, Close, CloseTimeline, connVars, vars
  <2>2. QED
    BY <1>3, <2>1
<1>8. QED
  BY <1>4, <1>5, <1>6, <1>7 DEF Next, Finish

\* The counter of the store is the sum over the sessions it keeps.
Even == total = Bytes(audio_bytes, sessions)

\* A release, of a session that is kept or has no bytes.
LEMMA ReleaseKeepsEven ==
  ASSUME TypeOK, IsFiniteSet(sessions), Even, NEW s \in Sessions,
         s \notin sessions => audio_bytes[s] = 0,
         NEW finished \in BOOLEAN, ReleaseSession(s, finished)
  PROVE  Even'
<1>1. /\ audio_bytes \in [Sessions -> Nat] /\ sessions \in SUBSET Sessions
      /\ sessions' = sessions /\ audio_bytes[s] \in Nat
  BY DEF TypeOK, ReleaseSession
<1>2. CASE UNCHANGED <<total, audio_bytes>>
  BY <1>1, <1>2 DEF Even
<1>3. CASE /\ total' = total - audio_bytes[s]
           /\ audio_bytes' = [audio_bytes EXCEPT ![s] = 0]
  <2>1. CASE s \in sessions
    <3>1. /\ Bytes(audio_bytes', sessions) = Bytes(audio_bytes, sessions) - audio_bytes[s] + 0
          /\ Bytes(audio_bytes, sessions) \in Nat
      <4>1. /\ audio_bytes' \in [Sessions -> Nat] /\ audio_bytes'[s] = 0
            /\ \A x \in sessions : x # s => audio_bytes'[x] = audio_bytes[x]
            /\ \A x \in sessions : audio_bytes[x] \in Nat
        BY <1>1, <1>3
      <4>2. Bytes(audio_bytes, sessions) \in Nat
        BY <4>1, BytesWithout
      <4>3. Bytes(audio_bytes', sessions)
            = Bytes(audio_bytes, sessions) - audio_bytes[s] + audio_bytes'[s]
        BY <1>1, <2>1, <4>1, BytesSet
      <4>4. QED
        BY <4>1, <4>2, <4>3
    <3>2. QED
      BY <1>1, <1>3, <3>1 DEF Even
  <2>2. CASE s \notin sessions
    <3>1. /\ Bytes(audio_bytes', sessions) = Bytes(audio_bytes, sessions)
          /\ Bytes(audio_bytes, sessions) \in Nat
      BY <1>1, <1>3, <2>2, BytesChange
    <3>2. audio_bytes[s] = 0
      BY <2>2
    <3>3. QED
      BY <1>1, <1>3, <3>1, <3>2 DEF Even
  <2>3. QED
    BY <2>1, <2>2
<1>4. QED
  BY <1>2, <1>3 DEF ReleaseSession

\* A new session starts without bytes.
LEMMA NewKeepsBytes ==
  ASSUME NEW S \in SUBSET Sessions, IsFiniteSet(S), NEW f \in [Sessions -> Nat],
         NEW s \in Sessions \ S
  PROVE  Bytes([f EXCEPT ![s] = 0], S \cup {s}) = Bytes(f, S)
<1> DEFINE k == [f EXCEPT ![s] = 0]
<1>1. /\ k \in [Sessions -> Nat] /\ k[s] = 0
      /\ \A x \in S : k[x] = f[x]
  OBVIOUS
<1> HIDE DEF k
<1>2. Bytes(k, S) = Bytes(f, S) /\ Bytes(f, S) \in Nat
  <2>1. Bytes(k, S) = Bytes(f, S)
    BY <1>1, BytesSame
  <2>2. \A x \in S : f[x] \in Nat
    OBVIOUS
  <2>3. QED
    BY <2>1, <2>2, BytesWithout
<1>3. Bytes(k, S \cup {s}) = Bytes(k, S) + k[s]
  BY <1>1, BytesChange
<1>4. QED
  BY <1>1, <1>2, <1>3 DEF k

\* Every step that leaves no bytes behind outside the store keeps the sum.
LEMMA NextEven ==
  ASSUME TypeOK, ConnInv, IsFiniteSet(sessions), Even, Stranded = {}, Stranded' = {},
         ~closed', [Next]_vars
  PROVE  Even'
<1>1. /\ audio_bytes \in [Sessions -> Nat] /\ sessions \in SUBSET Sessions
      /\ total = Bytes(audio_bytes, sessions) /\ total \in Nat
  <2>1. audio_bytes \in [Sessions -> Nat] /\ sessions \in SUBSET Sessions
    BY DEF TypeOK
  <2>2. \A x \in sessions : audio_bytes[x] \in Nat
    BY <2>1
  <2>3. QED
    BY <2>1, <2>2, BytesWithout DEF Even
<1>2. ASSUME NEW c \in Connections, ref[c] # NoSession, ref[c] \notin sessions
      PROVE  audio_bytes[ref[c]] = 0
  <2>1. ref[c] \in Referenced \ sessions /\ ref[c] \in Sessions
    BY <1>2 DEF Referenced, TypeOK
  <2>2. QED
    BY <1>1, <2>1 DEF Stranded
<1>3. CASE UNCHANGED <<sessions, total, audio_bytes>>
  BY <1>3 DEF Even
<1>4. ASSUME NEW c \in Connections, NEW s \in Sessions, OpenNew(c, s)
      PROVE  Even'
  <2>1. /\ s \in Sessions \ sessions
        /\ sessions' = sessions \cup {s} /\ total' = total
        /\ audio_bytes' = [audio_bytes EXCEPT ![s] = 0]
    BY <1>4 DEF OpenNew, NewSession, Fresh
  <2>2. Bytes([audio_bytes EXCEPT ![s] = 0], sessions \cup {s}) = Bytes(audio_bytes, sessions)
    BY <1>1, <2>1, NewKeepsBytes
  <2>3. QED
    BY <1>1, <2>1, <2>2 DEF Even
<1>5. ASSUME NEW c \in Connections, NEW s \in Sessions, NEW e \in Sessions,
             OpenEvicting(c, s, e)
      PROVE  Even'
  <2> DEFINE rest == sessions \ {e}
  <2>1. /\ s \in Sessions \ sessions /\ e \in sessions
        /\ sessions' = rest \cup {s} /\ total' = total - audio_bytes[e]
        /\ audio_bytes' = [audio_bytes EXCEPT ![s] = 0]
    BY <1>5 DEF OpenEvicting, NewSession, Fresh, Oldest, Inactive
  <2>2. Bytes(audio_bytes, rest) = total - audio_bytes[e]
    BY <1>1, <2>1, BytesChange
  <2>3. rest \in SUBSET Sessions /\ IsFiniteSet(rest) /\ s \in Sessions \ rest
    BY <1>1, <2>1, FS_RemoveElement
  <2> HIDE DEF rest
  <2>4. Bytes([audio_bytes EXCEPT ![s] = 0], rest \cup {s}) = Bytes(audio_bytes, rest)
    BY <1>1, <2>3, NewKeepsBytes
  <2>5. QED
    BY <2>1, <2>2, <2>4 DEF Even
<1>6. ASSUME NEW c \in Connections, NEW n \in Sizes, ReserveAudio(c, n)
      PROVE  Even'
  <2>1. /\ sessions' = sessions /\ total' = total + n /\ ref' = ref
        /\ audio_bytes' = [audio_bytes EXCEPT ![ref[c]] = @ + n]
        /\ n \in Nat \ {0} /\ ref[c] # NoSession
    BY <1>6, StoreAssumption DEF ReserveAudio, ConnInv
  <2>2. ref[c] \in Sessions /\ audio_bytes[ref[c]] \in Nat
    BY <1>1, <2>1 DEF TypeOK
  <2>3. audio_bytes'[ref[c]] > 0
    BY <1>1, <2>1, <2>2
  <2>4. ref[c] \in sessions
    <3>1. ref[c] \in Referenced'
      BY <2>1 DEF Referenced
    <3>2. QED
      BY <2>1, <2>3, <3>1 DEF Stranded
  <2> DEFINE s == ref[c]
             m == audio_bytes[ref[c]] + n
  <2>5. s \in sessions /\ m \in Nat /\ audio_bytes' = [audio_bytes EXCEPT ![s] = m]
    BY <2>1, <2>2, <2>4
  <2>6. m = audio_bytes[s] + n /\ audio_bytes[s] \in Nat
    BY <2>2
  <2> HIDE DEF s, m
  <2>7. Bytes([audio_bytes EXCEPT ![s] = m], sessions) = total - audio_bytes[s] + m
    <3> DEFINE k == [audio_bytes EXCEPT ![s] = m]
    <3>1. /\ k \in [Sessions -> Nat] /\ k[s] = m
          /\ \A x \in sessions : x # s => k[x] = audio_bytes[x]
      BY <1>1, <2>5
    <3> HIDE DEF k
    <3>2. Bytes(k, sessions) = Bytes(audio_bytes, sessions) - audio_bytes[s] + k[s]
      BY <1>1, <2>5, <3>1, BytesSet
    <3>3. QED
      BY <1>1, <3>1, <3>2 DEF k
  <2>8. total - audio_bytes[s] + m = total + n
    BY <1>1, <2>1, <2>6
  <2>9. QED
    BY <2>1, <2>5, <2>7, <2>8 DEF Even
<1>7. ASSUME NEW c \in Connections, RollBackAudio(c)
      PROVE  Even'
  <2>1. sessions' = sessions /\ ref[c] # NoSession /\ pending[c] \in Nat
    BY <1>7 DEF RollBackAudio, ConnInv, TypeOK
  <2>2. ref[c] \in Sessions /\ audio_bytes[ref[c]] \in Nat
    BY <1>1, <2>1 DEF TypeOK
  <2>3. CASE audio_bytes[ref[c]] >= pending[c]
    <3> DEFINE s == ref[c]
               m == audio_bytes[ref[c]] - pending[c]
    <3>1. /\ m \in Nat /\ audio_bytes' = [audio_bytes EXCEPT ![s] = m]
          /\ total' = AtLeastZero(total - pending[c]) /\ s \in Sessions
      BY <1>7, <2>1, <2>2, <2>3 DEF RollBackAudio
    <3>2. m = audio_bytes[s] - pending[c] /\ audio_bytes[s] \in Nat
      BY <2>2
    <3>3. s \notin sessions => audio_bytes[s] = 0
      BY <1>2, <2>1
    <3> HIDE DEF s, m
    <3>4. CASE s \in sessions
      <4>1. /\ Bytes([audio_bytes EXCEPT ![s] = m], sessions) = total - audio_bytes[s] + m
            /\ total >= audio_bytes[s]
        <5> DEFINE k == [audio_bytes EXCEPT ![s] = m]
        <5>1. /\ k \in [Sessions -> Nat] /\ k[s] = m
              /\ \A x \in sessions : x # s => k[x] = audio_bytes[x]
              /\ \A x \in sessions : audio_bytes[x] \in Nat
          BY <1>1, <3>1
        <5> HIDE DEF k
        <5>2. Bytes(k, sessions) = Bytes(audio_bytes, sessions) - audio_bytes[s] + k[s]
          BY <1>1, <3>4, <5>1, BytesSet
        <5>3. /\ Bytes(audio_bytes, sessions \ {s}) \in Nat
              /\ Bytes(audio_bytes, sessions)
                 = audio_bytes[s] + Bytes(audio_bytes, sessions \ {s})
          BY <3>4, <5>1, BytesWithout
        <5>4. QED
          BY <1>1, <3>4, <5>1, <5>2, <5>3 DEF k
      <4>2. total - audio_bytes[s] + m = AtLeastZero(total - pending[c])
        BY <1>1, <2>1, <3>1, <3>2, <4>1 DEF AtLeastZero
      <4>3. QED
        BY <2>1, <3>1, <4>1, <4>2 DEF Even
    <3>5. CASE s \notin sessions
      <4>1. Bytes([audio_bytes EXCEPT ![s] = m], sessions) = total
        <5>1. \A x \in sessions : [audio_bytes EXCEPT ![s] = m][x] = audio_bytes[x]
          BY <1>1, <3>5
        <5>2. QED
          BY <1>1, <5>1, BytesSame
      <4>2. AtLeastZero(total - pending[c]) = total
        BY <1>1, <2>1, <3>1, <3>2, <3>3, <3>5 DEF AtLeastZero
      <4>3. QED
        BY <2>1, <3>1, <4>1, <4>2 DEF Even
    <3>6. QED
      BY <3>4, <3>5
  <2>4. CASE ~(audio_bytes[ref[c]] >= pending[c])
    BY <1>3, <1>7, <2>4 DEF RollBackAudio
  <2>5. QED
    BY <2>3, <2>4
<1>8. ASSUME NEW c \in Connections, WorkerReleases(c) \/ HandlerReleases(c)
      PROVE  Even'
  <2>1. ReleaseSession(ref[c], done[c]) /\ ref[c] # NoSession
    BY <1>8 DEF WorkerReleases, HandlerReleases, ConnInv
  <2>2. ref[c] \in Sessions /\ done[c] \in BOOLEAN
    BY <2>1 DEF TypeOK
  <2>3. QED
    BY <1>2, <2>1, <2>2, ReleaseKeepsEven
<1>9. ASSUME NEW s \in Sessions, Prune(s)
      PROVE  Even'
  <2>1. /\ s \in sessions /\ sessions' = sessions \ {s}
        /\ total' = AtLeastZero(total - audio_bytes[s])
        /\ audio_bytes' = [audio_bytes EXCEPT ![s] = 0]
    BY <1>9 DEF Prune, Oldest, Inactive
  <2>2. /\ Bytes(audio_bytes, sessions \ {s}) = total - audio_bytes[s]
        /\ total >= audio_bytes[s] /\ audio_bytes[s] \in Nat
    BY <1>1, <2>1, BytesChange
  <2>3. Bytes([audio_bytes EXCEPT ![s] = 0], sessions \ {s}) = Bytes(audio_bytes, sessions \ {s})
    <3>1. IsFiniteSet(sessions \ {s})
      BY FS_RemoveElement
    <3>2. \A x \in sessions \ {s} : [audio_bytes EXCEPT ![s] = 0][x] = audio_bytes[x]
      BY <1>1
    <3>3. QED
      BY <3>1, <3>2, BytesSame
  <2>4. AtLeastZero(total - audio_bytes[s]) = total - audio_bytes[s]
    BY <1>1, <2>2 DEF AtLeastZero
  <2>5. QED
    BY <2>1, <2>2, <2>3, <2>4 DEF Even
<1>10. \/ UNCHANGED <<sessions, total, audio_bytes>>
       \/ \E c \in Connections, s \in Sessions : OpenNew(c, s)
       \/ \E c \in Connections, s, e \in Sessions : OpenEvicting(c, s, e)
       \/ \E c \in Connections, n \in Sizes : ReserveAudio(c, n)
       \/ \E c \in Connections : RollBackAudio(c)
       \/ \E c \in Connections : WorkerReleases(c) \/ HandlerReleases(c)
       \/ \E s \in Sessions : Prune(s)
  BY DEF Next, vars, storeVars, connVars, Open, AppendAudio, Finish, Resume,
     StartWorker, ReserveRaises, AppendTimeline, AppendRaises, WorkerEnds,
     HandlerCancels, HandlerStops, HandlerLeaves, Close, CloseTimeline
<1>11. QED
  BY <1>3, <1>4, <1>5, <1>6, <1>7, <1>8, <1>9, <1>10

\* Over states with no bytes stranded outside the store the property's sum and
\* the sum over the store are one number.
LEMMA SumOfStore ==
  ASSUME NEW S \in SUBSET Sessions, IsFiniteSet(S), NEW R \in SUBSET Sessions,
         IsFiniteSet(R), NEW f \in [Sessions -> Nat],
         {x \in R \ S : f[x] > 0} = {}
  PROVE  Bytes(f, S \cup R) = Bytes(f, S)
<1>1. \A x \in S \cup R : f[x] \in Nat
  OBVIOUS
<1>2. \A x \in R \ S : f[x] = 0
  OBVIOUS
<1>3. QED
  BY <1>1, <1>2, BytesOfStore

\* append_audio reserves and rolls back, release, prune_expired and the eviction
\* of open give back: as long as the store is open and no bytes are left behind
\* in a session it has dropped, none of their steps makes the process-wide
\* counter differ from the sum of the sessions' counters.  It holds for any
\* number of connections, patient or not.
THEOREM CounterIsKept == Spec => CounterKept
<1> DEFINE Inv == /\ TypeOK /\ ConnInv
                  /\ IsFiniteSet(sessions) /\ SessionsBounded
                  /\ IsFiniteSet(Referenced)
           Keeps == ~closed' /\ Counted /\ Stranded = {} /\ Stranded' = {} => Counted'
<1>1. Init => Inv
  <2>1. Init => sessions = {} /\ Referenced = {}
    BY DEF Init, Referenced
  <2>2. QED
    BY <2>1, InitTyped, FS_EmptySet, StoreAssumption DEF SessionsBounded
<1>2. Inv /\ [Next]_vars => Inv'
  BY NextTyped, NextBounded, NextReferenced
<1>3. ASSUME Inv, Inv', [Next]_vars, ~closed', Counted, Stranded = {}, Stranded' = {}
      PROVE  Counted'
  <2>1. /\ sessions \in SUBSET Sessions /\ Referenced \in SUBSET Sessions
        /\ audio_bytes \in [Sessions -> Nat]
    BY <1>3 DEF TypeOK, Referenced
  <2>2. /\ sessions' \in SUBSET Sessions /\ Referenced' \in SUBSET Sessions
        /\ audio_bytes' \in [Sessions -> Nat]
    BY <1>3 DEF TypeOK, Referenced
  <2>3. Bytes(audio_bytes, sessions \cup Referenced) = Bytes(audio_bytes, sessions)
    BY <1>3, <2>1, SumOfStore DEF Stranded
  <2>4. Even'
    <3>1. Even
      BY <1>3, <2>3 DEF Counted, Even
    <3>2. QED
      BY <1>3, <3>1, NextEven
  <2>5. Bytes(audio_bytes', sessions' \cup Referenced') = Bytes(audio_bytes', sessions')
    <3>1. {x \in Referenced' \ sessions' : audio_bytes'[x] > 0} = {}
      BY <1>3 DEF Stranded
    <3>2. IsFiniteSet(sessions') /\ IsFiniteSet(Referenced')
      BY <1>3
    <3> HIDE DEF Inv
    <3>3. QED
      BY <2>2, <3>1, <3>2, SumOfStore
  <2>6. QED
    BY <2>4, <2>5 DEF Counted, Even
<1>4. Inv /\ Inv' /\ [Next]_vars => Keeps
  BY <1>3
<1>5. Keeps => [~closed' /\ Counted /\ Stranded = {} /\ Stranded' = {} => Counted']_vars
  OBVIOUS
<1> HIDE DEF Inv, Keeps
<1>6. QED
  BY <1>1, <1>2, <1>4, <1>5, PTL DEF Spec, CounterKept

=============================================================================
