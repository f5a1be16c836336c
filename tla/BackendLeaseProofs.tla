------------------------- MODULE BackendLeaseProofs -------------------------
(***************************************************************************)
(* What holds of a lease for every number of sessions, instances and       *)
(* slots.  TypeOK, InUse and HookFlags are inductive by themselves and     *)
(* carry NoLostCancel.  The rest of IInv, whenever the cancels come: no    *)
(* hook acts on an instance somebody else may use, unless it was started   *)
(* in the one window named by late; an instance has one holder, and is     *)
(* closed once, even then.                                                 *)
(*                                                                         *)
(* Each part has a lemma that every step preserves it, with one step of    *)
(* the proof for each action.                                              *)
(***************************************************************************)
EXTENDS BackendLease, TLAPS

\* Raising a flag of a session leaves the flags a function to BOOLEAN.
LEMMA SetType ==
  ASSUME NEW flag \in [Sessions -> BOOLEAN], NEW s \in Sessions
  PROVE  Set(flag, s) \in [Sessions -> BOOLEAN]
BY DEF Set

\* cancel_worker leaves the fields of the hook well typed.
LEMMA StartsHookType ==
  ASSUME TypeOK, NEW s \in Sessions, StartsHook(s)
  PROVE  HookType'
<1>1. CASE UNCHANGED <<backend_cancel_started, hook, hook_on,
                       backend_cancel_done>>
  BY <1>1 DEF TypeOK, HookType
<1>2. CASE /\ backend_cancel_started' = Set(backend_cancel_started, s)
           /\ hook' = [hook EXCEPT ![s] = "running"]
           /\ hook_on' = [hook_on EXCEPT ![s] = backend_in_use[s]]
           /\ UNCHANGED backend_cancel_done
  BY <1>2, SetType DEF TypeOK, HookType
<1>3. CASE /\ backend_cancel_started' = Set(backend_cancel_started, s)
           /\ backend_cancel_done' = Set(backend_cancel_done, s)
           /\ UNCHANGED <<hook, hook_on>>
  BY <1>3, SetType DEF TypeOK, HookType
<1> QED
  BY <1>1, <1>2, <1>3 DEF StartsHook

\* Every step leaves the variables well typed.
LEMMA TypeStep == TypeOK /\ InUse /\ HookFlags /\ [Next]_vars => TypeOK'
<1> SUFFICES ASSUME TypeOK, InUse, HookFlags, [Next]_vars PROVE TypeOK'
  OBVIOUS
<1> USE DEF InUse, HookFlags, TypeOK, PC, Goto, Set, poolVars, cancelVars,
            cleanupVars, HookType
<1>1. ASSUME NEW s \in Sessions, NEW b \in Backends, AcquireIdle(s, b)
      PROVE  TypeOK'
  BY <1>1 DEF AcquireIdle
<1>2. ASSUME NEW s \in Sessions, NEW b \in Backends, Create(s, b)
      PROVE  TypeOK'
  BY <1>2 DEF Create, Fresh
<1>3. ASSUME NEW s \in Sessions, AcquireRaises(s)
      PROVE  TypeOK'
  BY <1>3 DEF AcquireRaises
<1>4. ASSUME NEW s \in Sessions, TakeSlot(s)
      PROVE  TypeOK'
  BY <1>4 DEF TakeSlot
<1>5. ASSUME NEW s \in Sessions, WarmupPasses(s)
      PROVE  TypeOK'
  BY <1>5 DEF WarmupPasses
<1>6. ASSUME NEW s \in Sessions, WarmupFails(s)
      PROVE  TypeOK'
  BY <1>6 DEF WarmupFails
<1>7. ASSUME NEW s \in Sessions, FailedLoadCloses(s)
      PROVE  TypeOK'
  BY <1>7 DEF FailedLoadCloses
<1>8. ASSUME NEW s \in Sessions, UseBackend(s)
      PROVE  TypeOK'
  BY <1>8 DEF UseBackend
<1>9. ASSUME NEW s \in Sessions, CheckCancelled(s)
      PROVE  TypeOK'
  <2>1. StartsHook(s) \/ UNCHANGED <<backend_cancel_started, hook, hook_on,
                                      backend_cancel_done>>
    BY <1>9 DEF CheckCancelled
  <2>2. HookType'
    <3>1. CASE StartsHook(s)
      BY <3>1, StartsHookType
    <3>2. CASE ~StartsHook(s)
      BY <2>1, <3>2 DEF HookType
    <3> QED
      BY <3>1, <3>2
  <2> QED
    BY <1>9, <2>2 DEF CheckCancelled, HookType
<1>10. ASSUME NEW s \in Sessions, Finally(s)
      PROVE  TypeOK'
  BY <1>10 DEF Finally
<1>11. ASSUME NEW s \in Sessions, HookWaited(s)
      PROVE  TypeOK'
  BY <1>11 DEF HookWaited
<1>12. ASSUME NEW s \in Sessions, ReleaseBackend(s)
      PROVE  TypeOK'
  BY <1>12 DEF ReleaseBackend, HandOver
<1>13. ASSUME NEW s \in Sessions, DiscardBackend(s)
      PROVE  TypeOK'
  BY <1>13 DEF DiscardBackend, HandOver
<1>14. ASSUME NEW s \in Sessions, DetachBackend(s)
      PROVE  TypeOK'
  <2>1. <<backend[s], <<s, "cleanup">>>> \in
          Backends \X (Sessions \X {"worker", "hook", "cleanup"})
    BY <1>14 DEF DetachBackend, HandOver
  <2>2. closing' \subseteq
          Backends \X (Sessions \X {"worker", "hook", "cleanup"})
    BY <1>14, <2>1 DEF DetachBackend
  <2>3. backend_cleanup_started' \in [Sessions -> BOOLEAN]
    <3>1. \/ backend_cleanup_started' = Set(backend_cleanup_started, s)
          \/ backend_cleanup_started' = backend_cleanup_started
      BY <1>14 DEF DetachBackend
    <3>2. backend_cleanup_started \in [Sessions -> BOOLEAN]
      OBVIOUS
    <3> HIDE DEF Set, TypeOK, InUse, HookFlags
    <3>3. Set(backend_cleanup_started, s) \in [Sessions -> BOOLEAN]
      BY <3>2, SetType
    <3> QED
      BY <3>1, <3>2, <3>3
  <2> QED
    BY <1>14, <2>2, <2>3 DEF DetachBackend, HandOver
<1>15. ASSUME NEW s \in Sessions, CancelSets(s)
      PROVE  TypeOK'
  BY <1>15 DEF CancelSets
<1>16. ASSUME NEW s \in Sessions, CancelLocks(s)
      PROVE  TypeOK'
  <2>1. StartsHook(s) \/ UNCHANGED <<backend_cancel_started, hook, hook_on,
                                      backend_cancel_done>>
    BY <1>16 DEF CancelLocks
  <2>2. HookType'
    <3>1. CASE StartsHook(s)
      BY <3>1, StartsHookType
    <3>2. CASE ~StartsHook(s)
      BY <2>1, <3>2 DEF HookType
    <3> QED
      BY <3>1, <3>2
  <2> QED
    BY <1>16, <2>2 DEF CancelLocks, HookType
<1>17. ASSUME NEW s \in Sessions, HookReturns(s)
      PROVE  TypeOK'
  <2>1. <<hook_on[s], <<s, "hook">>>> \in
          Backends \X (Sessions \X {"worker", "hook", "cleanup"})
    BY <1>17 DEF HookReturns
  <2>2. closing' \subseteq
          Backends \X (Sessions \X {"worker", "hook", "cleanup"})
    BY <1>17, <2>1 DEF HookReturns
  <2>3. backend_cleanup_started' \in [Sessions -> BOOLEAN]
    <3>1. \/ backend_cleanup_started' = Set(backend_cleanup_started, s)
          \/ backend_cleanup_started' = backend_cleanup_started
      BY <1>17 DEF HookReturns
    <3>2. backend_cleanup_started \in [Sessions -> BOOLEAN]
      OBVIOUS
    <3> HIDE DEF Set, TypeOK, InUse, HookFlags
    <3>3. Set(backend_cleanup_started, s) \in [Sessions -> BOOLEAN]
      BY <3>2, SetType
    <3> QED
      BY <3>1, <3>2, <3>3
  <2> QED
    BY <1>17, <2>2, <2>3 DEF HookReturns
<1>18. ASSUME NEW s \in Sessions, HookSignals(s)
      PROVE  TypeOK'
  BY <1>18 DEF HookSignals
<1>19. ASSUME NEW s \in Sessions, NEW b \in Backends, CloseReturns(s, b)
      PROVE  TypeOK'
  BY <1>19 DEF CloseReturns
<1>20. CASE UNCHANGED vars
  BY <1>20 DEF vars
<1> QED
  BY <1>1, <1>2, <1>3, <1>4, <1>5, <1>6, <1>7, <1>8, <1>9, <1>10, <1>11,
     <1>12, <1>13, <1>14, <1>15, <1>16, <1>17, <1>18, <1>19, <1>20
  DEF Next, Worker, Handler, Cleanup

\* The worker's local variable and backend_in_use follow its phase.
LEMMA InUseStep ==
  TypeOK /\ InUse /\ TypeOK' /\ [Next]_vars => InUse'
<1> SUFFICES ASSUME TypeOK, InUse, TypeOK', [Next]_vars PROVE InUse'
  OBVIOUS
<1> USE LeaseAssumption DEF InUse, Holding, TypeOK, HookType, PC, Goto, Set,
            poolVars, cancelVars, cleanupVars
<1>1. ASSUME NEW s \in Sessions, NEW b \in Backends, AcquireIdle(s, b)
      PROVE  InUse'
  BY <1>1 DEF AcquireIdle
<1>2. ASSUME NEW s \in Sessions, NEW b \in Backends, Create(s, b)
      PROVE  InUse'
  BY <1>2 DEF Create, Fresh
<1>3. ASSUME NEW s \in Sessions, AcquireRaises(s)
      PROVE  InUse'
  BY <1>3 DEF AcquireRaises
<1>4. ASSUME NEW s \in Sessions, TakeSlot(s)
      PROVE  InUse'
  BY <1>4 DEF TakeSlot
<1>5. ASSUME NEW s \in Sessions, WarmupPasses(s)
      PROVE  InUse'
  BY <1>5 DEF WarmupPasses
<1>6. ASSUME NEW s \in Sessions, WarmupFails(s)
      PROVE  InUse'
  BY <1>6 DEF WarmupFails
<1>7. ASSUME NEW s \in Sessions, FailedLoadCloses(s)
      PROVE  InUse'
  BY <1>7 DEF FailedLoadCloses
<1>8. ASSUME NEW s \in Sessions, UseBackend(s)
      PROVE  InUse'
  BY <1>8 DEF UseBackend
<1>9. ASSUME NEW s \in Sessions, CheckCancelled(s)
      PROVE  InUse'
  BY <1>9 DEF CheckCancelled, StartsHook
<1>10. ASSUME NEW s \in Sessions, Finally(s)
      PROVE  InUse'
  BY <1>10 DEF Finally
<1>11. ASSUME NEW s \in Sessions, HookWaited(s)
      PROVE  InUse'
  BY <1>11 DEF HookWaited
<1>12. ASSUME NEW s \in Sessions, ReleaseBackend(s)
      PROVE  InUse'
  BY <1>12 DEF ReleaseBackend, HandOver
<1>13. ASSUME NEW s \in Sessions, DiscardBackend(s)
      PROVE  InUse'
  BY <1>13 DEF DiscardBackend, HandOver
<1>14. ASSUME NEW s \in Sessions, DetachBackend(s)
      PROVE  InUse'
  BY <1>14 DEF DetachBackend, HandOver
<1>15. ASSUME NEW s \in Sessions, CancelSets(s)
      PROVE  InUse'
  BY <1>15 DEF CancelSets
<1>16. ASSUME NEW s \in Sessions, CancelLocks(s)
      PROVE  InUse'
  BY <1>16 DEF CancelLocks, StartsHook
<1>17. ASSUME NEW s \in Sessions, HookReturns(s)
      PROVE  InUse'
  BY <1>17 DEF HookReturns
<1>18. ASSUME NEW s \in Sessions, HookSignals(s)
      PROVE  InUse'
  BY <1>18 DEF HookSignals
<1>19. ASSUME NEW s \in Sessions, NEW b \in Backends, CloseReturns(s, b)
      PROVE  InUse'
  BY <1>19 DEF CloseReturns
<1>20. CASE UNCHANGED vars
  BY <1>20 DEF vars
<1> QED
  BY <1>1, <1>2, <1>3, <1>4, <1>5, <1>6, <1>7, <1>8, <1>9, <1>10, <1>11,
     <1>12, <1>13, <1>14, <1>15, <1>16, <1>17, <1>18, <1>19, <1>20
  DEF Next, Worker, Handler, Cleanup

\* The hook's flags follow its thread, on the worker's own instance.
LEMMA HookFlagsStep ==
  TypeOK /\ InUse /\ HookFlags /\ TypeOK' /\ [Next]_vars => HookFlags'
<1> SUFFICES ASSUME TypeOK, InUse, HookFlags, TypeOK', [Next]_vars
    PROVE  HookFlags'
  OBVIOUS
<1> USE LeaseAssumption DEF HookFlags, InUse, Holding, TypeOK, HookType, PC,
            Goto, Set, poolVars, cancelVars, cleanupVars
<1>1. ASSUME NEW s \in Sessions, NEW b \in Backends, AcquireIdle(s, b)
      PROVE  HookFlags'
  BY <1>1 DEF AcquireIdle
<1>2. ASSUME NEW s \in Sessions, NEW b \in Backends, Create(s, b)
      PROVE  HookFlags'
  BY <1>2 DEF Create, Fresh
<1>3. ASSUME NEW s \in Sessions, AcquireRaises(s)
      PROVE  HookFlags'
  BY <1>3 DEF AcquireRaises
<1>4. ASSUME NEW s \in Sessions, TakeSlot(s)
      PROVE  HookFlags'
  BY <1>4 DEF TakeSlot
<1>5. ASSUME NEW s \in Sessions, WarmupPasses(s)
      PROVE  HookFlags'
  BY <1>5 DEF WarmupPasses
<1>6. ASSUME NEW s \in Sessions, WarmupFails(s)
      PROVE  HookFlags'
  BY <1>6 DEF WarmupFails
<1>7. ASSUME NEW s \in Sessions, FailedLoadCloses(s)
      PROVE  HookFlags'
  BY <1>7 DEF FailedLoadCloses
<1>8. ASSUME NEW s \in Sessions, UseBackend(s)
      PROVE  HookFlags'
  BY <1>8 DEF UseBackend
<1>9. ASSUME NEW s \in Sessions, CheckCancelled(s)
      PROVE  HookFlags'
  BY <1>9 DEF CheckCancelled, StartsHook
<1>10. ASSUME NEW s \in Sessions, Finally(s)
      PROVE  HookFlags'
  BY <1>10 DEF Finally
<1>11. ASSUME NEW s \in Sessions, HookWaited(s)
      PROVE  HookFlags'
  BY <1>11 DEF HookWaited
<1>12. ASSUME NEW s \in Sessions, ReleaseBackend(s)
      PROVE  HookFlags'
  BY <1>12 DEF ReleaseBackend, HandOver
<1>13. ASSUME NEW s \in Sessions, DiscardBackend(s)
      PROVE  HookFlags'
  BY <1>13 DEF DiscardBackend, HandOver
<1>14. ASSUME NEW s \in Sessions, DetachBackend(s)
      PROVE  HookFlags'
  BY <1>14 DEF DetachBackend, HandOver
<1>15. ASSUME NEW s \in Sessions, CancelSets(s)
      PROVE  HookFlags'
  BY <1>15 DEF CancelSets
<1>16. ASSUME NEW s \in Sessions, CancelLocks(s)
      PROVE  HookFlags'
  BY <1>16 DEF CancelLocks, StartsHook
<1>17. ASSUME NEW s \in Sessions, HookReturns(s)
      PROVE  HookFlags'
  BY <1>17 DEF HookReturns
<1>18. ASSUME NEW s \in Sessions, HookSignals(s)
      PROVE  HookFlags'
  BY <1>18 DEF HookSignals
<1>19. ASSUME NEW s \in Sessions, NEW b \in Backends, CloseReturns(s, b)
      PROVE  HookFlags'
  BY <1>19 DEF CloseReturns
<1>20. CASE UNCHANGED vars
  BY <1>20 DEF vars
<1> QED
  BY <1>1, <1>2, <1>3, <1>4, <1>5, <1>6, <1>7, <1>8, <1>9, <1>10, <1>11,
     <1>12, <1>13, <1>14, <1>15, <1>16, <1>17, <1>18, <1>19, <1>20
  DEF Next, Worker, Handler, Cleanup

\* Whoever is second, the handler under the lock or the worker after
\* acquire, starts the hook.
LEMMA NoLostCancelStep ==
  TypeOK /\ InUse /\ NoLostCancel /\ TypeOK' /\ [Next]_vars => NoLostCancel'
<1> SUFFICES ASSUME TypeOK, InUse, NoLostCancel, TypeOK', [Next]_vars
    PROVE  NoLostCancel'
  OBVIOUS
<1> USE LeaseAssumption DEF NoLostCancel, InUse, TypeOK, HookType, PC, Goto,
            Set, poolVars, cancelVars, cleanupVars
<1>1. ASSUME NEW s \in Sessions, NEW b \in Backends, AcquireIdle(s, b)
      PROVE  NoLostCancel'
  BY <1>1 DEF AcquireIdle
<1>2. ASSUME NEW s \in Sessions, NEW b \in Backends, Create(s, b)
      PROVE  NoLostCancel'
  BY <1>2 DEF Create, Fresh
<1>3. ASSUME NEW s \in Sessions, AcquireRaises(s)
      PROVE  NoLostCancel'
  BY <1>3 DEF AcquireRaises
<1>4. ASSUME NEW s \in Sessions, TakeSlot(s)
      PROVE  NoLostCancel'
  BY <1>4 DEF TakeSlot
<1>5. ASSUME NEW s \in Sessions, WarmupPasses(s)
      PROVE  NoLostCancel'
  BY <1>5 DEF WarmupPasses
<1>6. ASSUME NEW s \in Sessions, WarmupFails(s)
      PROVE  NoLostCancel'
  BY <1>6 DEF WarmupFails
<1>7. ASSUME NEW s \in Sessions, FailedLoadCloses(s)
      PROVE  NoLostCancel'
  BY <1>7 DEF FailedLoadCloses
<1>8. ASSUME NEW s \in Sessions, UseBackend(s)
      PROVE  NoLostCancel'
  BY <1>8 DEF UseBackend
<1>9. ASSUME NEW s \in Sessions, CheckCancelled(s)
      PROVE  NoLostCancel'
  BY <1>9 DEF CheckCancelled, StartsHook
<1>10. ASSUME NEW s \in Sessions, Finally(s)
      PROVE  NoLostCancel'
  BY <1>10 DEF Finally
<1>11. ASSUME NEW s \in Sessions, HookWaited(s)
      PROVE  NoLostCancel'
  BY <1>11 DEF HookWaited
<1>12. ASSUME NEW s \in Sessions, ReleaseBackend(s)
      PROVE  NoLostCancel'
  BY <1>12 DEF ReleaseBackend, HandOver
<1>13. ASSUME NEW s \in Sessions, DiscardBackend(s)
      PROVE  NoLostCancel'
  BY <1>13 DEF DiscardBackend, HandOver
<1>14. ASSUME NEW s \in Sessions, DetachBackend(s)
      PROVE  NoLostCancel'
  BY <1>14 DEF DetachBackend, HandOver
<1>15. ASSUME NEW s \in Sessions, CancelSets(s)
      PROVE  NoLostCancel'
  BY <1>15 DEF CancelSets
<1>16. ASSUME NEW s \in Sessions, CancelLocks(s)
      PROVE  NoLostCancel'
  BY <1>16 DEF CancelLocks, StartsHook
<1>17. ASSUME NEW s \in Sessions, HookReturns(s)
      PROVE  NoLostCancel'
  BY <1>17 DEF HookReturns
<1>18. ASSUME NEW s \in Sessions, HookSignals(s)
      PROVE  NoLostCancel'
  BY <1>18 DEF HookSignals
<1>19. ASSUME NEW s \in Sessions, NEW b \in Backends, CloseReturns(s, b)
      PROVE  NoLostCancel'
  BY <1>19 DEF CloseReturns
<1>20. CASE UNCHANGED vars
  BY <1>20 DEF vars
<1> QED
  BY <1>1, <1>2, <1>3, <1>4, <1>5, <1>6, <1>7, <1>8, <1>9, <1>10, <1>11,
     <1>12, <1>13, <1>14, <1>15, <1>16, <1>17, <1>18, <1>19, <1>20
  DEF Next, Worker, Handler, Cleanup

\* acquire, release and detach keep one holder for an instance.
LEMMA OneHolderStep ==
  IInv /\ TypeOK' /\ [Next]_vars => OneHolder'
<1> SUFFICES ASSUME IInv, TypeOK', [Next]_vars PROVE OneHolder'
  OBVIOUS
<1> USE LeaseAssumption DEF IInv, OneHolder, Holding, Usable, InUse,
            HookFlags, HookOnOwnBackend, OnForeignBackend, Quarantined, ClosedOnce, TypeOK,
            HookType, PC, Goto, Set, poolVars, cancelVars, cleanupVars
<1>1. ASSUME NEW s \in Sessions, NEW b \in Backends, AcquireIdle(s, b)
      PROVE  OneHolder'
  BY <1>1 DEF AcquireIdle
<1>2. ASSUME NEW s \in Sessions, NEW b \in Backends, Create(s, b)
      PROVE  OneHolder'
  BY <1>2 DEF Create, Fresh
<1>3. ASSUME NEW s \in Sessions, AcquireRaises(s)
      PROVE  OneHolder'
  BY <1>3 DEF AcquireRaises
<1>4. ASSUME NEW s \in Sessions, TakeSlot(s)
      PROVE  OneHolder'
  BY <1>4 DEF TakeSlot
<1>5. ASSUME NEW s \in Sessions, WarmupPasses(s)
      PROVE  OneHolder'
  BY <1>5 DEF WarmupPasses
<1>6. ASSUME NEW s \in Sessions, WarmupFails(s)
      PROVE  OneHolder'
  BY <1>6 DEF WarmupFails
<1>7. ASSUME NEW s \in Sessions, FailedLoadCloses(s)
      PROVE  OneHolder'
  <2> DEFINE mine == <<backend[s], <<s, "worker">>>>
  <2>1. mine \in closing /\ mine[1] = backend[s]
    BY <1>7 DEF FailedLoadCloses
  <2>2. \A t \in Sessions \ {s} : <<backend[t], <<t, "worker">>>> # mine
    OBVIOUS
  <2> HIDE DEF mine
  <2> QED
    BY <1>7, <2>1, <2>2 DEF FailedLoadCloses, mine
<1>8. ASSUME NEW s \in Sessions, UseBackend(s)
      PROVE  OneHolder'
  BY <1>8 DEF UseBackend
<1>9. ASSUME NEW s \in Sessions, CheckCancelled(s)
      PROVE  OneHolder'
  BY <1>9 DEF CheckCancelled, StartsHook
<1>10. ASSUME NEW s \in Sessions, Finally(s)
      PROVE  OneHolder'
  BY <1>10 DEF Finally
<1>11. ASSUME NEW s \in Sessions, HookWaited(s)
      PROVE  OneHolder'
  BY <1>11 DEF HookWaited
<1>12. ASSUME NEW s \in Sessions, ReleaseBackend(s)
      PROVE  OneHolder'
  BY <1>12 DEF ReleaseBackend, HandOver
<1>13. ASSUME NEW s \in Sessions, DiscardBackend(s)
      PROVE  OneHolder'
  BY <1>13 DEF DiscardBackend, HandOver
<1>14. ASSUME NEW s \in Sessions, DetachBackend(s)
      PROVE  OneHolder'
  BY <1>14 DEF DetachBackend, HandOver
<1>15. ASSUME NEW s \in Sessions, CancelSets(s)
      PROVE  OneHolder'
  BY <1>15 DEF CancelSets
<1>16. ASSUME NEW s \in Sessions, CancelLocks(s)
      PROVE  OneHolder'
  BY <1>16 DEF CancelLocks, StartsHook
<1>17. ASSUME NEW s \in Sessions, HookReturns(s)
      PROVE  OneHolder'
  BY <1>17 DEF HookReturns
<1>18. ASSUME NEW s \in Sessions, HookSignals(s)
      PROVE  OneHolder'
  BY <1>18 DEF HookSignals
<1>19. ASSUME NEW s \in Sessions, NEW b \in Backends, CloseReturns(s, b)
      PROVE  OneHolder'
  BY <1>19 DEF CloseReturns
<1>20. CASE UNCHANGED vars
  BY <1>20 DEF vars
<1> QED
  BY <1>1, <1>2, <1>3, <1>4, <1>5, <1>6, <1>7, <1>8, <1>9, <1>10, <1>11,
     <1>12, <1>13, <1>14, <1>15, <1>16, <1>17, <1>18, <1>19, <1>20
  DEF Next, Worker, Handler, Cleanup

\* The finally block waits for a hook that has started.
LEMMA WaitedForHookStep ==
  IInv /\ TypeOK' /\ [Next]_vars => WaitedForHook'
<1> SUFFICES ASSUME IInv, TypeOK', [Next]_vars
    PROVE  WaitedForHook'
  OBVIOUS
<1> USE LeaseAssumption DEF IInv, WaitedForHook, HookFlags, TypeOK,
            HookType, PC, Goto, Set, poolVars, cancelVars, cleanupVars
<1>1. ASSUME NEW s \in Sessions, NEW b \in Backends, AcquireIdle(s, b)
      PROVE  WaitedForHook'
  BY <1>1 DEF AcquireIdle
<1>2. ASSUME NEW s \in Sessions, NEW b \in Backends, Create(s, b)
      PROVE  WaitedForHook'
  BY <1>2 DEF Create, Fresh
<1>3. ASSUME NEW s \in Sessions, AcquireRaises(s)
      PROVE  WaitedForHook'
  BY <1>3 DEF AcquireRaises
<1>4. ASSUME NEW s \in Sessions, TakeSlot(s)
      PROVE  WaitedForHook'
  BY <1>4 DEF TakeSlot
<1>5. ASSUME NEW s \in Sessions, WarmupPasses(s)
      PROVE  WaitedForHook'
  BY <1>5 DEF WarmupPasses
<1>6. ASSUME NEW s \in Sessions, WarmupFails(s)
      PROVE  WaitedForHook'
  BY <1>6 DEF WarmupFails
<1>7. ASSUME NEW s \in Sessions, FailedLoadCloses(s)
      PROVE  WaitedForHook'
  BY <1>7 DEF FailedLoadCloses
<1>8. ASSUME NEW s \in Sessions, UseBackend(s)
      PROVE  WaitedForHook'
  BY <1>8 DEF UseBackend
<1>9. ASSUME NEW s \in Sessions, CheckCancelled(s)
      PROVE  WaitedForHook'
  BY <1>9 DEF CheckCancelled, StartsHook
<1>10. ASSUME NEW s \in Sessions, Finally(s)
      PROVE  WaitedForHook'
  BY <1>10 DEF Finally
<1>11. ASSUME NEW s \in Sessions, HookWaited(s)
      PROVE  WaitedForHook'
  BY <1>11 DEF HookWaited
<1>12. ASSUME NEW s \in Sessions, ReleaseBackend(s)
      PROVE  WaitedForHook'
  BY <1>12 DEF ReleaseBackend, HandOver
<1>13. ASSUME NEW s \in Sessions, DiscardBackend(s)
      PROVE  WaitedForHook'
  BY <1>13 DEF DiscardBackend, HandOver
<1>14. ASSUME NEW s \in Sessions, DetachBackend(s)
      PROVE  WaitedForHook'
  BY <1>14 DEF DetachBackend, HandOver
<1>15. ASSUME NEW s \in Sessions, CancelSets(s)
      PROVE  WaitedForHook'
  BY <1>15 DEF CancelSets
<1>16. ASSUME NEW s \in Sessions, CancelLocks(s)
      PROVE  WaitedForHook'
  BY <1>16 DEF CancelLocks, StartsHook
<1>17. ASSUME NEW s \in Sessions, HookReturns(s)
      PROVE  WaitedForHook'
  BY <1>17 DEF HookReturns
<1>18. ASSUME NEW s \in Sessions, HookSignals(s)
      PROVE  WaitedForHook'
  BY <1>18 DEF HookSignals
<1>19. ASSUME NEW s \in Sessions, NEW b \in Backends, CloseReturns(s, b)
      PROVE  WaitedForHook'
  BY <1>19 DEF CloseReturns
<1>20. CASE UNCHANGED vars
  BY <1>20 DEF vars
<1> QED
  BY <1>1, <1>2, <1>3, <1>4, <1>5, <1>6, <1>7, <1>8, <1>9, <1>10, <1>11,
     <1>12, <1>13, <1>14, <1>15, <1>16, <1>17, <1>18, <1>19, <1>20
  DEF Next, Worker, Handler, Cleanup

\* No step hands out the instance a hook is running on.
LEMMA HookOnOwnBackendStep ==
  IInv /\ TypeOK' /\ [Next]_vars => HookOnOwnBackend'
<1> SUFFICES ASSUME IInv, TypeOK', [Next]_vars
    PROVE  HookOnOwnBackend'
  OBVIOUS
<1> USE LeaseAssumption DEF IInv, HookOnOwnBackend, OnForeignBackend, HookFlags,
            WaitedForHook, InUse, OneHolder, Holding, TypeOK,
            HookType, PC, Goto, Set, poolVars, cancelVars, cleanupVars
<1>1. ASSUME NEW s \in Sessions, NEW b \in Backends, AcquireIdle(s, b)
      PROVE  HookOnOwnBackend'
  BY <1>1 DEF AcquireIdle
<1>2. ASSUME NEW s \in Sessions, NEW b \in Backends, Create(s, b)
      PROVE  HookOnOwnBackend'
  BY <1>2 DEF Create, Fresh
<1>3. ASSUME NEW s \in Sessions, AcquireRaises(s)
      PROVE  HookOnOwnBackend'
  BY <1>3 DEF AcquireRaises
<1>4. ASSUME NEW s \in Sessions, TakeSlot(s)
      PROVE  HookOnOwnBackend'
  BY <1>4 DEF TakeSlot
<1>5. ASSUME NEW s \in Sessions, WarmupPasses(s)
      PROVE  HookOnOwnBackend'
  BY <1>5 DEF WarmupPasses
<1>6. ASSUME NEW s \in Sessions, WarmupFails(s)
      PROVE  HookOnOwnBackend'
  BY <1>6 DEF WarmupFails
<1>7. ASSUME NEW s \in Sessions, FailedLoadCloses(s)
      PROVE  HookOnOwnBackend'
  BY <1>7 DEF FailedLoadCloses
<1>8. ASSUME NEW s \in Sessions, UseBackend(s)
      PROVE  HookOnOwnBackend'
  BY <1>8 DEF UseBackend
<1>9. ASSUME NEW s \in Sessions, CheckCancelled(s)
      PROVE  HookOnOwnBackend'
  BY <1>9 DEF CheckCancelled, StartsHook
<1>10. ASSUME NEW s \in Sessions, Finally(s)
      PROVE  HookOnOwnBackend'
  BY <1>10 DEF Finally
<1>11. ASSUME NEW s \in Sessions, HookWaited(s)
      PROVE  HookOnOwnBackend'
  BY <1>11 DEF HookWaited
<1>12. ASSUME NEW s \in Sessions, ReleaseBackend(s)
      PROVE  HookOnOwnBackend'
  BY <1>12 DEF ReleaseBackend, HandOver
<1>13. ASSUME NEW s \in Sessions, DiscardBackend(s)
      PROVE  HookOnOwnBackend'
  BY <1>13 DEF DiscardBackend, HandOver
<1>14. ASSUME NEW s \in Sessions, DetachBackend(s)
      PROVE  HookOnOwnBackend'
  BY <1>14 DEF DetachBackend, HandOver
<1>15. ASSUME NEW s \in Sessions, CancelSets(s)
      PROVE  HookOnOwnBackend'
  BY <1>15 DEF CancelSets
<1>16. ASSUME NEW s \in Sessions, CancelLocks(s)
      PROVE  HookOnOwnBackend'
  BY <1>16 DEF CancelLocks, StartsHook
<1>17. ASSUME NEW s \in Sessions, HookReturns(s)
      PROVE  HookOnOwnBackend'
  BY <1>17 DEF HookReturns
<1>18. ASSUME NEW s \in Sessions, HookSignals(s)
      PROVE  HookOnOwnBackend'
  BY <1>18 DEF HookSignals
<1>19. ASSUME NEW s \in Sessions, NEW b \in Backends, CloseReturns(s, b)
      PROVE  HookOnOwnBackend'
  BY <1>19 DEF CloseReturns
<1>20. CASE UNCHANGED vars
  BY <1>20 DEF vars
<1> QED
  BY <1>1, <1>2, <1>3, <1>4, <1>5, <1>6, <1>7, <1>8, <1>9, <1>10, <1>11,
     <1>12, <1>13, <1>14, <1>15, <1>16, <1>17, <1>18, <1>19, <1>20
  DEF Next, Worker, Handler, Cleanup

\* A quarantined instance is left alone until its hook returns.
LEMMA QuarantinedStep ==
  IInv /\ TypeOK' /\ [Next]_vars => Quarantined'
<1> SUFFICES ASSUME IInv, TypeOK', [Next]_vars
    PROVE  Quarantined'
  OBVIOUS
<1> USE LeaseAssumption DEF IInv, Quarantined, HookOnOwnBackend, OnForeignBackend, HookFlags,
            InUse, OneHolder, WaitedForHook, Usable, Holding, ClosedOnce,
            TypeOK, HookType, PC, Goto, Set, poolVars, cancelVars,
            cleanupVars
<1>1. ASSUME NEW s \in Sessions, NEW b \in Backends, AcquireIdle(s, b)
      PROVE  Quarantined'
  BY <1>1 DEF AcquireIdle
<1>2. ASSUME NEW s \in Sessions, NEW b \in Backends, Create(s, b)
      PROVE  Quarantined'
  BY <1>2 DEF Create, Fresh
<1>3. ASSUME NEW s \in Sessions, AcquireRaises(s)
      PROVE  Quarantined'
  BY <1>3 DEF AcquireRaises
<1>4. ASSUME NEW s \in Sessions, TakeSlot(s)
      PROVE  Quarantined'
  BY <1>4 DEF TakeSlot
<1>5. ASSUME NEW s \in Sessions, WarmupPasses(s)
      PROVE  Quarantined'
  BY <1>5 DEF WarmupPasses
<1>6. ASSUME NEW s \in Sessions, WarmupFails(s)
      PROVE  Quarantined'
  BY <1>6 DEF WarmupFails
<1>7. ASSUME NEW s \in Sessions, FailedLoadCloses(s)
      PROVE  Quarantined'
  <2> DEFINE mine == <<backend[s], <<s, "worker">>>>
  <2>1. mine \in closing /\ mine[1] = backend[s]
    BY <1>7 DEF FailedLoadCloses
  <2> QED
    BY <1>7, <2>1 DEF FailedLoadCloses
<1>8. ASSUME NEW s \in Sessions, UseBackend(s)
      PROVE  Quarantined'
  BY <1>8 DEF UseBackend
<1>9. ASSUME NEW s \in Sessions, CheckCancelled(s)
      PROVE  Quarantined'
  <2>1. /\ UNCHANGED <<closing, closed, backend, backend_cancel_finished,
                       backend_cleanup_requested, late>>
        /\ pc[s] = "leased"
        /\ \A t \in Sessions : pc[t] = "gone" => pc'[t] = "gone"
    BY <1>9 DEF CheckCancelled
  <2>2. \A t \in Sessions : hook'[t] = "running" =>
          \/ hook[t] = "running" /\ hook_on'[t] = hook_on[t]
          \/ /\ t = s /\ Holding(s) /\ hook_on'[s] = backend[s]
             /\ backend[s] # NoBackend /\ ~backend_cancel_started[s]
    BY <1>9 DEF CheckCancelled, StartsHook
  <2>3. \A t \in Sessions : hook[t] \in {"returning", "over"} =>
          hook'[t] = hook[t]
    BY <1>9 DEF CheckCancelled, StartsHook
  <2>4. ASSUME NEW t \in Sessions, NEW u \in Sessions \ {t}, hook'[t] = "running",
               hook'[u] = "running", {t, u} \cap late' = {}
        PROVE  hook_on'[t] # hook_on'[u]
    <3>1. t \notin late /\ u \notin late
      BY <2>1, <2>4
    <3>2. \A v \in {t, u} : hook[v] = "running" =>
            \A w \in Sessions \ {v} : Holding(w) => backend[w] # hook_on[v]
      BY <3>1
    <3>3. hook[t] = "running" /\ hook[u] = "running" => hook_on[t] # hook_on[u]
      BY <3>1
    <3> QED
      BY <2>2, <2>4, <3>2, <3>3
  <2> QED
    BY <2>1, <2>2, <2>3, <2>4
<1>10. ASSUME NEW s \in Sessions, Finally(s)
      PROVE  Quarantined'
  BY <1>10 DEF Finally
<1>11. ASSUME NEW s \in Sessions, HookWaited(s)
      PROVE  Quarantined'
  BY <1>11 DEF HookWaited
<1>12. ASSUME NEW s \in Sessions, ReleaseBackend(s)
      PROVE  Quarantined'
  BY <1>12 DEF ReleaseBackend, HandOver
<1>13. ASSUME NEW s \in Sessions, DiscardBackend(s)
      PROVE  Quarantined'
  BY <1>13 DEF DiscardBackend, HandOver
<1>14. ASSUME NEW s \in Sessions, DetachBackend(s)
      PROVE  Quarantined'
  BY <1>14 DEF DetachBackend, HandOver
<1>15. ASSUME NEW s \in Sessions, CancelSets(s)
      PROVE  Quarantined'
  BY <1>15 DEF CancelSets
<1>16. ASSUME NEW s \in Sessions, CancelLocks(s)
      PROVE  Quarantined'
  <2>1. /\ UNCHANGED <<pc, closing, closed, backend, backend_cancel_finished,
                       backend_cleanup_requested>>
        /\ late \subseteq late'
        /\ s \in late' => s \in late \/ pc[s] = "handing"
        /\ \A t \in Sessions \ {s} : t \in late' => t \in late
    BY <1>16 DEF CancelLocks
  <2>2. \A t \in Sessions : hook'[t] = "running" =>
          \/ hook[t] = "running" /\ hook_on'[t] = hook_on[t]
          \/ /\ t = s /\ Holding(s) /\ hook_on'[s] = backend[s]
             /\ backend[s] # NoBackend /\ ~backend_cancel_started[s]
    BY <1>16 DEF CancelLocks, StartsHook
  <2>3. \A t \in Sessions : hook[t] \in {"returning", "over"} =>
          hook'[t] = hook[t]
    BY <1>16 DEF CancelLocks, StartsHook
  <2>4. ASSUME NEW t \in Sessions, NEW u \in Sessions \ {t}, hook'[t] = "running",
               hook'[u] = "running", {t, u} \cap late' = {}
        PROVE  hook_on'[t] # hook_on'[u]
    <3>1. t \notin late /\ u \notin late
      BY <2>1, <2>4
    <3>2. \A v \in {t, u} : hook[v] = "running" =>
            \A w \in Sessions \ {v} : Holding(w) => backend[w] # hook_on[v]
      BY <3>1
    <3>3. hook[t] = "running" /\ hook[u] = "running" => hook_on[t] # hook_on[u]
      BY <3>1
    <3> QED
      BY <2>2, <2>4, <3>2, <3>3
  <2> QED
    BY <2>1, <2>2, <2>3, <2>4
<1>17. ASSUME NEW s \in Sessions, HookReturns(s)
      PROVE  Quarantined'
  BY <1>17 DEF HookReturns
<1>18. ASSUME NEW s \in Sessions, HookSignals(s)
      PROVE  Quarantined'
  BY <1>18 DEF HookSignals
<1>19. ASSUME NEW s \in Sessions, NEW b \in Backends, CloseReturns(s, b)
      PROVE  Quarantined'
  BY <1>19 DEF CloseReturns
<1>20. CASE UNCHANGED vars
  BY <1>20 DEF vars
<1> QED
  BY <1>1, <1>2, <1>3, <1>4, <1>5, <1>6, <1>7, <1>8, <1>9, <1>10, <1>11,
     <1>12, <1>13, <1>14, <1>15, <1>16, <1>17, <1>18, <1>19, <1>20
  DEF Next, Worker, Handler, Cleanup

\* No step starts a second close() of an instance.
LEMMA ClosedOnceStep ==
  IInv /\ TypeOK' /\ [Next]_vars => ClosedOnce'
<1> SUFFICES ASSUME IInv, TypeOK', [Next]_vars PROVE ClosedOnce'
  OBVIOUS
<1> USE LeaseAssumption DEF IInv, ClosedOnce, OneHolder, Quarantined, InUse,
            Usable, Holding, HookFlags, TypeOK, HookType, PC, Goto, Set,
            poolVars, cancelVars, cleanupVars
<1>1. ASSUME NEW s \in Sessions, NEW b \in Backends, AcquireIdle(s, b)
      PROVE  ClosedOnce'
  BY <1>1 DEF AcquireIdle
<1>2. ASSUME NEW s \in Sessions, NEW b \in Backends, Create(s, b)
      PROVE  ClosedOnce'
  BY <1>2 DEF Create, Fresh
<1>3. ASSUME NEW s \in Sessions, AcquireRaises(s)
      PROVE  ClosedOnce'
  BY <1>3 DEF AcquireRaises
<1>4. ASSUME NEW s \in Sessions, TakeSlot(s)
      PROVE  ClosedOnce'
  BY <1>4 DEF TakeSlot
<1>5. ASSUME NEW s \in Sessions, WarmupPasses(s)
      PROVE  ClosedOnce'
  BY <1>5 DEF WarmupPasses
<1>6. ASSUME NEW s \in Sessions, WarmupFails(s)
      PROVE  ClosedOnce'
  <2> DEFINE mine == <<backend[s], <<s, "worker">>>>
  <2>1. Usable(backend[s]) /\ mine[1] = backend[s]
    BY <1>6 DEF WarmupFails
  <2>2. \A p \in closing' : p \in closing \/ p = mine
    BY <1>6 DEF WarmupFails
  <2>3. closed' = closed
    BY <1>6 DEF WarmupFails
  <2> HIDE DEF mine
  <2> QED
    BY <2>1, <2>2, <2>3
<1>7. ASSUME NEW s \in Sessions, FailedLoadCloses(s)
      PROVE  ClosedOnce'
  <2> DEFINE mine == <<backend[s], <<s, "worker">>>>
  <2>1. mine \in closing /\ mine[1] = backend[s]
    BY <1>7 DEF FailedLoadCloses
  <2>2. closing' = closing \ {mine} /\ closed' = closed \cup {mine[1]}
    BY <1>7, <2>1 DEF FailedLoadCloses
  <2> QED
    BY <2>1, <2>2
<1>8. ASSUME NEW s \in Sessions, UseBackend(s)
      PROVE  ClosedOnce'
  BY <1>8 DEF UseBackend
<1>9. ASSUME NEW s \in Sessions, CheckCancelled(s)
      PROVE  ClosedOnce'
  BY <1>9 DEF CheckCancelled
<1>10. ASSUME NEW s \in Sessions, Finally(s)
      PROVE  ClosedOnce'
  BY <1>10 DEF Finally
<1>11. ASSUME NEW s \in Sessions, HookWaited(s)
      PROVE  ClosedOnce'
  BY <1>11 DEF HookWaited
<1>12. ASSUME NEW s \in Sessions, ReleaseBackend(s)
      PROVE  ClosedOnce'
  BY <1>12 DEF ReleaseBackend, HandOver
<1>13. ASSUME NEW s \in Sessions, DiscardBackend(s)
      PROVE  ClosedOnce'
  <2> DEFINE mine == <<backend[s], <<s, "cleanup">>>>
  <2>1. Usable(backend[s]) /\ mine[1] = backend[s]
    BY <1>13 DEF DiscardBackend, HandOver
  <2>2. \A p \in closing' : p \in closing \/ p = mine
    BY <1>13 DEF DiscardBackend, HandOver
  <2>3. closed' = closed
    BY <1>13 DEF DiscardBackend
  <2> HIDE DEF mine
  <2> QED
    BY <2>1, <2>2, <2>3
<1>14. ASSUME NEW s \in Sessions, DetachBackend(s)
      PROVE  ClosedOnce'
  <2> DEFINE mine == <<backend[s], <<s, "cleanup">>>>
  <2>1. Usable(backend[s]) /\ mine[1] = backend[s]
    BY <1>14 DEF DetachBackend, HandOver
  <2>2. \A p \in closing' : p \in closing \/ p = mine
    BY <1>14 DEF DetachBackend, HandOver
  <2>3. closed' = closed
    BY <1>14 DEF DetachBackend
  <2> HIDE DEF mine
  <2> QED
    BY <2>1, <2>2, <2>3
<1>15. ASSUME NEW s \in Sessions, CancelSets(s)
      PROVE  ClosedOnce'
  BY <1>15 DEF CancelSets
<1>16. ASSUME NEW s \in Sessions, CancelLocks(s)
      PROVE  ClosedOnce'
  BY <1>16 DEF CancelLocks
<1>17. ASSUME NEW s \in Sessions, HookReturns(s)
      PROVE  ClosedOnce'
  <2> DEFINE mine == <<hook_on[s], <<s, "hook">>>>
  <2>1. mine[1] = hook_on[s]
    OBVIOUS
  <2>2. closed' = closed
    BY <1>17 DEF HookReturns
  <2>3. CASE backend_cleanup_requested[s]
    <3>1. Usable(hook_on[s])
      BY <1>17, <2>3 DEF HookReturns
    <3>2. \A p \in closing' : p \in closing \/ p = mine
      BY <1>17 DEF HookReturns
    <3> HIDE DEF mine
    <3> QED
      BY <3>1, <3>2, <2>1, <2>2
  <2>4. CASE ~backend_cleanup_requested[s]
    BY <1>17, <2>2, <2>4 DEF HookReturns
  <2> QED
    BY <2>3, <2>4
<1>18. ASSUME NEW s \in Sessions, HookSignals(s)
      PROVE  ClosedOnce'
  BY <1>18 DEF HookSignals
<1>19. ASSUME NEW s \in Sessions, NEW b \in Backends, CloseReturns(s, b)
      PROVE  ClosedOnce'
  BY <1>19 DEF CloseReturns
<1>20. CASE UNCHANGED vars
  BY <1>20 DEF vars
<1> QED
  BY <1>1, <1>2, <1>3, <1>4, <1>5, <1>6, <1>7, <1>8, <1>9, <1>10, <1>11,
     <1>12, <1>13, <1>14, <1>15, <1>16, <1>17, <1>18, <1>19, <1>20
  DEF Next, Worker, Handler, Cleanup

-----------------------------------------------------------------------------
(* The theorems *)

\* At the start nothing is leased, pooled, closing or cancelled.
LEMMA InitIInv == Init => IInv /\ NoLostCancel
BY LeaseAssumption
DEF Init, IInv, NoLostCancel, TypeOK, HookType, PC, InUse, OneHolder, Usable,
    HookFlags, WaitedForHook, HookOnOwnBackend, OnForeignBackend, Quarantined, ClosedOnce,
    Holding

\* Every step preserves the inductive invariant.
LEMMA NextIInv == IInv /\ [Next]_vars => IInv'
<1> SUFFICES ASSUME IInv, [Next]_vars PROVE IInv'
  OBVIOUS
<1>1. TypeOK /\ InUse /\ HookFlags
  BY DEF IInv
<1>2. TypeOK' /\ InUse' /\ HookFlags'
  BY <1>1, TypeStep, InUseStep, HookFlagsStep
<1>3. OneHolder' /\ WaitedForHook' /\ HookOnOwnBackend'
  BY <1>2, OneHolderStep, WaitedForHookStep, HookOnOwnBackendStep
<1>4. Quarantined' /\ ClosedOnce'
  BY <1>2, QuarantinedStep, ClosedOnceStep
<1> QED
  BY <1>2, <1>3, <1>4 DEF IInv

\* The variables are well typed, whenever the cancellations come.
THEOREM LeaseTypeCorrect == Spec => [](TypeOK /\ InUse /\ HookFlags)
<1>1. Init => TypeOK /\ InUse /\ HookFlags
  BY InitIInv DEF IInv
<1>2. TypeOK /\ InUse /\ HookFlags /\ [Next]_vars
        => (TypeOK /\ InUse /\ HookFlags)'
  BY TypeStep, InUseStep, HookFlagsStep
<1> QED
  BY <1>1, <1>2, PTL DEF Spec

\* cancel_worker's event and the lease meet under the lock: once the event is
\* set and the handler is past the lock, a running session has its hook
\* started, whichever of the two came first and whenever the cancel comes.
THEOREM CancelIsNotLost == Spec => []NoLostCancel
<1>1. Init => NoLostCancel
  BY InitIInv
<1>2. TypeOK /\ InUse /\ HookFlags /\ (TypeOK /\ InUse /\ HookFlags)'
        /\ NoLostCancel /\ [Next]_vars => NoLostCancel'
  BY NoLostCancelStep
<1> QED
  BY <1>1, <1>2, LeaseTypeCorrect, PTL DEF Spec

\* The inductive invariant holds of every behaviour, with late cancels too.
THEOREM LeaseInvariant == Spec => []IInv
<1>1. Init => IInv
  BY InitIInv
<1>2. IInv /\ [Next]_vars => IInv'
  BY NextIInv
<1> QED
  BY <1>1, <1>2, PTL DEF Spec

\* The finally block of the worker keeps a backend from the pool and from other
\* sessions while its hook runs, whatever the timeouts and the other sessions
\* do; the one way around it is a hook that starts after the block has looked
\* for one and before it hands the backend over.
THEOREM HookStaysOnItsBackend == Spec => []HookOnOwnBackend
<1>1. IInv => HookOnOwnBackend
  BY DEF IInv
<1> QED
  BY <1>1, LeaseInvariant, PTL

\* The pool and its sessions share no instance, and none of theirs is being
\* closed: release, discard and the quarantine each give up the instance once,
\* whenever the cancels come.
THEOREM LeasesAreExclusive == Spec => []OneHolder
<1>1. IInv => OneHolder
  BY DEF IInv
<1> QED
  BY <1>1, LeaseInvariant, PTL

\* The worker, the hook's thread and the cleanup thread between them close an
\* instance once: backend_cleanup_requested and backend_cleanup_started, read
\* and written under the state lock, decide which of them it is.
THEOREM InstancesAreClosedOnce == Spec => []ClosedOnce
<1>1. IInv => ClosedOnce
  BY DEF IInv
<1> QED
  BY <1>1, LeaseInvariant, PTL

=============================================================================
