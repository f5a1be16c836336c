------------------------- MODULE BackendPoolProofs -------------------------
(***************************************************************************)
(* Proofs about BackendPool for every set of workers, configurations and   *)
(* slot numbers and every pool size.  The argument is ownership: IInv says *)
(* which thread may touch which backend, one case per action shows that no *)
(* step of the pool or of a thread breaks it, and the safety properties    *)
(* follow from it.                                                         *)
(***************************************************************************)
EXTENDS BackendPool, FiniteSetTheorems, TLAPS

LEMMA InitIInv == Init => IInv
  BY PoolAssumption DEF Init, IInv, TypeOK, ExclusiveLease, NoOrphanSlot,
     OwnedSlots, EvictedBackends, PooledBackends, Holds, Building, PC, Idle

\* Every step of the pool or of a worker keeps the ownership invariant.
LEMMA NextIInv == IInv /\ [Next]_vars => IInv'
<1> SUFFICES ASSUME IInv, [Next]_vars PROVE IInv'
  OBVIOUS
<1> USE PoolAssumption DEF IInv, TypeOK, ExclusiveLease, NoOrphanSlot,
     OwnedSlots, EvictedBackends, PooledBackends, Holds, Building, PC, Idle,
     Goto, Exit, poolVars
<1>1. ASSUME NEW w \in Workers, NEW c \in Configs, Begin(w, c) PROVE IInv'
  BY <1>1 DEF Begin
<1>2. ASSUME NEW w \in Workers, Cancel(w) PROVE IInv'
  BY <1>2 DEF Cancel
<1>3. ASSUME NEW w \in Workers, AcquireRaisesClosed(w) PROVE IInv'
  BY <1>3 DEF AcquireRaisesClosed
<1>4. ASSUME NEW w \in Workers, AcquireRaisesCancelled(w) PROVE IInv'
  BY <1>4 DEF AcquireRaisesCancelled
<1>5. ASSUME NEW w \in Workers, AcquireRaisesCapacity(w) PROVE IInv'
  BY <1>5 DEF AcquireRaisesCapacity, NeedsSlot, Admissible
<1>6. ASSUME NEW w \in Workers, NEW e \in Slots, AcquireIdle(w, e) PROVE IInv'
  <2> USE <1>6 DEF AcquireIdle, Admissible, IdleMatching, Matching, Forget
  <2>1. TypeOK'
    OBVIOUS
  <2>2. ExclusiveLease'
    OBVIOUS
  <2>3. NoOrphanSlot'
    OBVIOUS
  <2>4. OwnedSlots'
    OBVIOUS
  <2>5. EvictedBackends'
    OBVIOUS
  <2>6. PooledBackends'
    OBVIOUS
  <2>7. QED
    BY <2>1, <2>2, <2>3, <2>4, <2>5, <2>6
<1>7. ASSUME NEW w \in Workers, NEW s \in Slots, AcquireCreates(w, s) PROVE IInv'
  BY <1>7 DEF AcquireCreates, NeedsSlot, Admissible, Fresh
<1>8. ASSUME NEW w \in Workers, NEW e \in Slots, NEW s \in Slots,
             AcquireEvicts(w, e, s)
      PROVE IInv'
  BY <1>8 DEF AcquireEvicts, NeedsSlot, Admissible, Fresh, LeastRecentlyUsed,
              Forget
<1>9. ASSUME NEW w \in Workers, CloseEvicted(w) PROVE IInv'
  BY <1>9 DEF CloseEvicted
<1>10. ASSUME NEW w \in Workers, FactoryReturns(w) PROVE IInv'
  BY <1>10 DEF FactoryReturns
<1>11. ASSUME NEW w \in Workers, FactoryRaises(w) PROVE IInv'
  BY <1>11 DEF FactoryRaises
<1>12. ASSUME NEW w \in Workers, Publish(w) PROVE IInv'
  BY <1>12 DEF Publish
<1>13. ASSUME NEW w \in Workers, PublishLate(w) PROVE IInv'
  BY <1>13 DEF PublishLate
<1>14. ASSUME NEW w \in Workers, CloseLate(w) PROVE IInv'
  BY <1>14 DEF CloseLate
<1>15. ASSUME NEW w \in Workers, Release(w) PROVE IInv'
  BY <1>15 DEF Release
<1>16. ASSUME NEW w \in Workers, Detach(w) PROVE IInv'
  <2> USE <1>16 DEF Detach
  <2>1. TypeOK'
    <3>1. loading' \subseteq busy' /\ busy' \subseteq entries'
      OBVIOUS
    <3>2. /\ pc' \in [Workers -> PC]
          /\ slot' \in [Workers -> Slots \cup {NoSlot}]
          /\ victim' \in [Workers -> Slots \cup {NoSlot}]
          /\ cancelled' \in [Workers -> BOOLEAN]
      <4>1. CASE slot[w] \in entries
        <5>1. pc' = [pc EXCEPT ![w] = "detached"]
          BY <4>1
        <5>2. UNCHANGED <<slot, victim, cancelled>>
          BY <4>1
        <5>3. QED
          BY <5>1, <5>2
      <4>2. CASE slot[w] \notin entries
        <5>1. Exit(w)
          BY <4>2
        <5>2. QED
          BY <5>1
      <4>3. QED
        BY <4>1, <4>2
    <3>3. QED
      BY <3>1, <3>2
  <2>2. ExclusiveLease'
    OBVIOUS
  <2>3. NoOrphanSlot'
    OBVIOUS
  <2>4. OwnedSlots'
    <3>1. \A v \in Workers \ {w} : /\ pc'[v] = pc[v] /\ slot'[v] = slot[v]
                                  /\ Holds(v) => slot[v] # slot[w]
      OBVIOUS
    <3>2. Idle' = Idle
      OBVIOUS
    <3>3. QED
      BY <3>1, <3>2
  <2>5. EvictedBackends'
    OBVIOUS
  <2>6. PooledBackends'
    OBVIOUS
  <2>7. QED
    BY <2>1, <2>2, <2>3, <2>4, <2>5, <2>6
<1>17. ASSUME NEW w \in Workers, CloseDetached(w) PROVE IInv'
  BY <1>17 DEF CloseDetached
<1>18. ASSUME Close PROVE IInv'
  BY <1>18 DEF Close
<1>19. ASSUME NEW s \in Slots, CloseShutdown(s) PROVE IInv'
  BY <1>19 DEF CloseShutdown
<1>20. CASE UNCHANGED vars
  BY <1>20 DEF vars
<1>21. QED
  BY <1>1, <1>2, <1>3, <1>4, <1>5, <1>6, <1>7, <1>8, <1>9, <1>10, <1>11,
     <1>12, <1>13, <1>14, <1>15, <1>16, <1>17, <1>18, <1>19, <1>20
     DEF Next, Acquire, Load, EndLease

\* The variables keep their types, and the ownership invariant always holds.
THEOREM PoolInvariant == Spec => [](TypeOK /\ IInv)
<1>1. IInv => TypeOK
  BY DEF IInv
<1>2. QED
  BY <1>1, InitIInv, NextIInv, PTL DEF Spec

\* No two threads ever own the same model instance.
THEOREM LeasesAreExclusive == Spec => []ExclusiveLease
<1>1. IInv => ExclusiveLease
  BY DEF IInv
<1>2. QED
  BY <1>1, PoolInvariant, PTL

\* A busy slot always has a live thread that will free it.
THEOREM SlotsHaveOwners == Spec => []NoOrphanSlot
<1>1. IInv => NoOrphanSlot
  BY DEF IInv
<1>2. QED
  BY <1>1, PoolInvariant, PTL

\* No eviction, shutdown or foreign cleanup closes a model that is leased.
THEOREM LeasedBackendsStayOpen == Spec => []LeasedBackendOpen
<1>1. IInv => LeasedBackendOpen
  BY DEF IInv, OwnedSlots, LeasedBackendOpen
<1>2. QED
  BY <1>1, PoolInvariant, PTL

-----------------------------------------------------------------------------
\* The bounds: a slot enters the pool only under the two cardinality guards.
BoundInv == IsFiniteSet(entries) /\ PoolBounded

\* Adding one element to a finite set raises its size by at most one.
LEMMA AddOne ==
  ASSUME NEW S, NEW x, IsFiniteSet(S)
  PROVE  /\ IsFiniteSet(S \cup {x})
         /\ Cardinality(S) \in Nat
         /\ Cardinality(S \cup {x}) <= Cardinality(S) + 1
<1>1. Cardinality(S) \in Nat
  BY FS_CardinalityType
<1>2. /\ IsFiniteSet(S \cup {x})
      /\ Cardinality(S \cup {x}) = IF x \in S THEN Cardinality(S)
                                             ELSE Cardinality(S) + 1
  BY FS_AddElement
<1>3. QED
  BY <1>1, <1>2

\* Taking elements away keeps a set finite and does not raise its size.
LEMMA Fewer ==
  ASSUME NEW S, NEW T \in SUBSET S, IsFiniteSet(S)
  PROVE  /\ IsFiniteSet(T)
         /\ Cardinality(T) \in Nat /\ Cardinality(S) \in Nat
         /\ Cardinality(T) <= Cardinality(S)
  BY FS_Subset, FS_CardinalityType

\* Removing entries never breaks the bounds.
LEMMA ShrinkKeepsBounds ==
  ASSUME BoundInv, entries' \subseteq entries
  PROVE  BoundInv'
<1>1. IsFiniteSet(entries') /\ Cardinality(entries') <= max_entries
  BY Fewer, FS_CardinalityType, PoolAssumption DEF BoundInv, PoolBounded
<1>2. ASSUME NEW c \in Configs
      PROVE  Cardinality(Matching(c)') <= max_entries_per_key
  <2>1. Matching(c)' \subseteq Matching(c) /\ Matching(c) \subseteq entries
    BY DEF Matching
  <2>2. IsFiniteSet(Matching(c))
    BY <2>1, Fewer DEF BoundInv
  <2>3. Cardinality(Matching(c)) <= max_entries_per_key
    BY DEF BoundInv, PoolBounded
  <2>4. QED
    BY <2>1, <2>2, <2>3, Fewer, PoolAssumption
<1>3. QED
  BY <1>1, <1>2 DEF BoundInv, PoolBounded

\* A slot added for a key with room, after making room in the pool, respects
\* both bounds.
LEMMA GrowKeepsBounds ==
  ASSUME BoundInv, NEW w \in Workers, NEW s \in Slots, NEW R \in SUBSET entries,
         want[w] \in Configs, s[1] = want[w],
         Cardinality(R) < max_entries,
         Cardinality(Matching(want[w])) < max_entries_per_key,
         entries' = R \cup {s}
  PROVE  BoundInv'
<1>1. IsFiniteSet(R)
  BY Fewer DEF BoundInv
<1>2. IsFiniteSet(entries') /\ Cardinality(entries') <= max_entries
  <2>1. IsFiniteSet(R \cup {s}) /\ Cardinality(R) \in Nat
        /\ Cardinality(R \cup {s}) <= Cardinality(R) + 1
        /\ Cardinality(R \cup {s}) \in Nat
    BY <1>1, AddOne, FS_CardinalityType
  <2>2. QED
    BY <2>1, PoolAssumption
<1>3. ASSUME NEW c \in Configs
      PROVE  Cardinality(Matching(c)') <= max_entries_per_key
  <2> DEFINE M == {e \in R : e[1] = c}
  <2>1. IsFiniteSet(Matching(c)) /\ M \subseteq Matching(c)
    BY Fewer DEF BoundInv, Matching
  <2>2. /\ IsFiniteSet(M)
        /\ Cardinality(M) \in Nat /\ Cardinality(Matching(c)) \in Nat
        /\ Cardinality(M) <= Cardinality(Matching(c))
    BY <2>1, Fewer
  <2>3. Cardinality(Matching(c)) <= max_entries_per_key
    BY DEF BoundInv, PoolBounded
  <2>4. CASE c = want[w]
    <3>1. Matching(c)' = M \cup {s}
      BY <2>4 DEF Matching
    <3>2. /\ Cardinality(M \cup {s}) <= Cardinality(M) + 1
          /\ Cardinality(M \cup {s}) \in Nat
      BY <2>2, AddOne, FS_CardinalityType
    <3>3. QED
      BY <2>2, <2>4, <3>1, <3>2, PoolAssumption
  <2>5. CASE c # want[w]
    <3>1. Matching(c)' = M
      BY <2>5 DEF Matching
    <3>2. QED
      BY <2>2, <2>3, <3>1, PoolAssumption
  <2>6. QED
    BY <2>4, <2>5
<1>4. QED
  BY <1>2, <1>3 DEF BoundInv, PoolBounded

LEMMA InitBound == Init => BoundInv
<1> SUFFICES ASSUME Init PROVE BoundInv
  OBVIOUS
<1>1. entries = {} /\ \A c \in Configs : Matching(c) = {}
  BY DEF Init, Matching
<1>2. QED
  BY <1>1, FS_EmptySet, PoolAssumption DEF BoundInv, PoolBounded

LEMMA NextBound == IInv /\ BoundInv /\ [Next]_vars => BoundInv'
<1> SUFFICES ASSUME IInv, BoundInv, [Next]_vars PROVE BoundInv'
  OBVIOUS
<1>1. ASSUME NEW w \in Workers, NEW s \in Slots, AcquireCreates(w, s)
      PROVE  BoundInv'
  <2>1. want[w] \in Configs
    BY DEF IInv, TypeOK
  <2>2. QED
    BY <1>1, <2>1, GrowKeepsBounds DEF AcquireCreates, NeedsSlot
<1>2. ASSUME NEW w \in Workers, NEW e \in Slots, NEW s \in Slots,
             AcquireEvicts(w, e, s)
      PROVE  BoundInv'
  <2>1. want[w] \in Configs /\ e \in entries
    BY <1>2 DEF IInv, TypeOK, AcquireEvicts, LeastRecentlyUsed, Idle
  <2>2. Cardinality(entries \ {e}) < max_entries
    <3>1. Cardinality(entries \ {e}) = Cardinality(entries) - 1
      BY <2>1, FS_RemoveElement DEF BoundInv
    <3>2. Cardinality(entries) \in Nat /\ Cardinality(entries) <= max_entries
      BY FS_CardinalityType DEF BoundInv, PoolBounded
    <3>3. QED
      BY <3>1, <3>2, PoolAssumption
  <2>3. entries' = (entries \ {e}) \cup {s}
    BY <1>2 DEF AcquireEvicts
  <2>4. QED
    BY <1>2, <2>1, <2>2, <2>3, GrowKeepsBounds DEF AcquireEvicts, NeedsSlot
<1>3. CASE entries' \subseteq entries
  BY <1>3, ShrinkKeepsBounds
<1>4. QED
  BY <1>1, <1>2, <1>3 DEF Next, vars, poolVars, Begin, Cancel, Acquire, Load,
     EndLease, AcquireRaisesClosed, AcquireRaisesCancelled,
     AcquireRaisesCapacity, AcquireIdle, CloseEvicted, FactoryReturns,
     FactoryRaises, Publish, PublishLate, CloseLate, Release, Detach,
     CloseDetached, Close, CloseShutdown

\* The pool never exceeds its configured size, in total or for one key.
THEOREM PoolStaysBounded == Spec => []PoolBounded
<1>1. BoundInv => PoolBounded
  BY DEF BoundInv
<1>2. QED
  BY <1>1, InitBound, NextBound, PoolInvariant, PTL DEF Spec

-----------------------------------------------------------------------------
\* No acquire succeeds once the pool is closed, not even a late load.
THEOREM ClosedPoolLeasesNothing == Spec => NoLeaseAfterClose
<1> DEFINE Step == closed => \A w \in Workers :
                               pc'[w] = "leased" => pc[w] = "leased"
<1>1. ASSUME IInv, [Next]_vars PROVE Step
  <2>1. pc \in [Workers -> PC]
    BY <1>1 DEF IInv, TypeOK
  <2>2. ASSUME NEW w \in Workers, NEW c \in Configs, Begin(w, c) PROVE Step
    BY <2>1, <2>2 DEF Begin, Goto
  <2>3. ASSUME NEW w \in Workers, Cancel(w) PROVE Step
    BY <2>1, <2>3 DEF Cancel
  <2>4. ASSUME NEW w \in Workers, Acquire(w) PROVE Step
    BY <2>1, <2>4
       DEF Acquire, AcquireRaisesClosed, AcquireRaisesCancelled,
           AcquireRaisesCapacity, AcquireIdle, AcquireCreates, AcquireEvicts,
           NeedsSlot, Admissible, Goto, Exit
  <2>5. ASSUME NEW w \in Workers, Load(w) PROVE Step
    BY <2>1, <2>5
       DEF Load, CloseEvicted, FactoryReturns, FactoryRaises, Publish,
           PublishLate, CloseLate, Goto, Exit
  <2>6. ASSUME NEW w \in Workers, EndLease(w) PROVE Step
    BY <2>1, <2>6 DEF EndLease, Release, Detach, CloseDetached, Goto, Exit
  <2>7. CASE Close
    BY <2>7 DEF Close
  <2>8. ASSUME NEW s \in Slots, CloseShutdown(s) PROVE Step
    BY <2>8 DEF CloseShutdown
  <2>9. CASE UNCHANGED vars
    BY <2>9 DEF vars
  <2>10. QED
    BY <1>1, <2>2, <2>3, <2>4, <2>5, <2>6, <2>7, <2>8, <2>9 DEF Next
<1>2. [Step]_vars <=> (Step \/ UNCHANGED vars)
  OBVIOUS
<1>3. QED
  BY <1>1, PoolInvariant, PTL DEF Spec, NoLeaseAfterClose
-----------------------------------------------------------------------------
\* A thread that leaves without disposing of its backend leaks it: the cases
\* that matter are the failed load, the late load, the eviction and shutdown.
LEMMA NextNoLeak == IInv /\ NoLeakedBackend /\ [Next]_vars => NoLeakedBackend'
<1> SUFFICES ASSUME IInv, NoLeakedBackend, [Next]_vars, NEW b \in open'
             PROVE  Kept(b)'
  BY DEF NoLeakedBackend
<1> USE DEF IInv, TypeOK, OwnedSlots, PooledBackends, NoLeakedBackend, Kept, Holds,
     Building, PC, Idle, Goto, Exit, poolVars
<1>1. ASSUME NEW w \in Workers, NEW c \in Configs, Begin(w, c) 
      PROVE Kept(b)'
  BY <1>1 DEF Begin
<1>2. ASSUME NEW w \in Workers, Cancel(w) 
      PROVE Kept(b)'
  BY <1>2 DEF Cancel
<1>3. ASSUME NEW w \in Workers, AcquireRaisesClosed(w) 
      PROVE Kept(b)'
  BY <1>3 DEF AcquireRaisesClosed
<1>4. ASSUME NEW w \in Workers, AcquireRaisesCancelled(w) 
      PROVE Kept(b)'
  BY <1>4 DEF AcquireRaisesCancelled
<1>5. ASSUME NEW w \in Workers, AcquireRaisesCapacity(w) 
      PROVE Kept(b)'
  BY <1>5 DEF AcquireRaisesCapacity, NeedsSlot, Admissible
<1>6. ASSUME NEW w \in Workers, NEW e \in Slots, AcquireIdle(w, e) 
      PROVE Kept(b)'
  BY <1>6 DEF AcquireIdle, Admissible, IdleMatching, Matching
<1>7. ASSUME NEW w \in Workers, NEW s \in Slots, AcquireCreates(w, s) 
      PROVE Kept(b)'
  BY <1>7 DEF AcquireCreates, NeedsSlot, Admissible, Fresh
<1>8. ASSUME NEW w \in Workers, NEW e \in Slots, NEW s \in Slots, AcquireEvicts(w, e, s) 
      PROVE Kept(b)'
  BY <1>8 DEF AcquireEvicts, NeedsSlot, Admissible, Fresh, LeastRecentlyUsed
<1>9. ASSUME NEW w \in Workers, CloseEvicted(w) 
      PROVE Kept(b)'
  BY <1>9 DEF CloseEvicted
<1>10. ASSUME NEW w \in Workers, FactoryReturns(w) 
      PROVE Kept(b)'
  BY <1>10 DEF FactoryReturns
<1>11. ASSUME NEW w \in Workers, FactoryRaises(w) 
      PROVE Kept(b)'
  BY <1>11 DEF FactoryRaises
<1>12. ASSUME NEW w \in Workers, Publish(w) 
      PROVE Kept(b)'
  BY <1>12 DEF Publish
<1>13. ASSUME NEW w \in Workers, PublishLate(w) 
      PROVE Kept(b)'
  BY <1>13 DEF PublishLate
<1>14. ASSUME NEW w \in Workers, CloseLate(w) 
      PROVE Kept(b)'
  BY <1>14 DEF CloseLate
<1>15. ASSUME NEW w \in Workers, Release(w) 
      PROVE Kept(b)'
  BY <1>15 DEF Release
<1>16. ASSUME NEW w \in Workers, Detach(w) 
      PROVE Kept(b)'
  BY <1>16 DEF Detach
<1>17. ASSUME NEW w \in Workers, CloseDetached(w) 
      PROVE Kept(b)'
  BY <1>17 DEF CloseDetached
<1>18. ASSUME Close 
      PROVE Kept(b)'
  BY <1>18 DEF Close
<1>19. ASSUME NEW s \in Slots, CloseShutdown(s) 
      PROVE Kept(b)'
  BY <1>19 DEF CloseShutdown
<1>20. CASE UNCHANGED vars
  BY <1>20 DEF vars
<1>21. QED
  BY <1>1, <1>2, <1>3, <1>4, <1>5, <1>6, <1>7, <1>8, <1>9, <1>10, <1>11, <1>12,
     <1>13, <1>14, <1>15, <1>16, <1>17, <1>18, <1>19, <1>20
     DEF Next, Acquire, Load, EndLease

\* No model instance is ever lost: each open one is pooled, owned by a thread
\* that disposes of it, in shutdown's hands, or abandoned by shutdown.
THEOREM NothingLeaks == Spec => []NoLeakedBackend
<1>1. Init => NoLeakedBackend
  BY DEF Init, NoLeakedBackend, Kept
<1>2. QED
  BY <1>1, NextNoLeak, PoolInvariant, PTL DEF Spec
=============================================================================
