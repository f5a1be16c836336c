-------------------- MODULE DeploymentTransactionProofs --------------------
(***************************************************************************)
(* Crash safety of the deployment transaction, for any number of operators,*)
(* releases, transactions and faults.                                      *)
(*                                                                         *)
(* IInv (DeploymentTransaction) is inductive: LeaveType and EndPhaseType   *)
(* carry the types and LeaveStep and EndPhaseStep carry the rest through   *)
(* the two ways a step of a command ends, so that most actions only show   *)
(* that they leave the host alone.                                         *)
(*                                                                         *)
(* Earned is inductive on top of IInv: EarnedStep says that what is probed *)
(* and reported stays so, and LeaveEarned and EndPhaseEarned carry it      *)
(* through the same two ways.                                              *)
(***************************************************************************)
EXTENDS DeploymentTransaction, TLAPS

\* The types of what belongs to a command.
CommandType ==
  /\ lock \in Operators \cup {Nobody}
  /\ pc \in [Operators -> Locked \cup {"idle", "persist", "finalize"}]
  /\ kind \in [Operators ->
                 Operations \cup {"none", "recovery", "profile", "state"}]
  /\ work \in [Operators -> 0 .. MaxTransactions]
  /\ phase \in [Operators -> {"trial", "return", "fallback"}]
  /\ evidence \in [Operators -> Evidence]
  /\ raised \in [Operators -> BOOLEAN]
  /\ verdict \in [Operators ->
                    [passed : BOOLEAN, safe : Releases \cup {NoRelease}]]

\* The release a phase starts from is part of its evidence.
LEMMA FromType ==
  ASSUME NEW e \in Evidence, NEW r \in Releases
  PROVE  [e EXCEPT !.from = r] \in Evidence
  BY DEF Evidence

\* A command that ends keeps the types.
LEMMA LeaveType ==
  ASSUME TypeOK, NEW p \in Operators, Leave(p)
  PROVE  CommandType'
  BY DeploymentAssumption DEF TypeOK, CommandType, Leave, Evidence, NoEvidence,
         NoVerdict

\* What a phase adds to the evidence.
LEMMA RecordedFields ==
  ASSUME NEW p, evidence[p] \in Evidence, NEW passed \in BOOLEAN,
         phase[p] \in {"trial", "return", "fallback"}
  PROVE  /\ Recorded(p, passed) \in Evidence
         /\ Recorded(p, passed).trialPassed =
              IF phase[p] = "trial" THEN passed ELSE evidence[p].trialPassed
         /\ Recorded(p, passed).backPassed =
              IF phase[p] = "return" THEN passed ELSE evidence[p].backPassed
<1> DEFINE e == evidence[p]
           r == Recorded(p, passed)
<1>1. CASE phase[p] = "trial"
  <2>1. r \in Evidence /\ r.trialPassed = passed /\ r.backPassed = e.backPassed
    BY <1>1 DEF Recorded, Evidence
  <2> QED
    BY <1>1, <2>1
<1>2. CASE phase[p] = "return"
  <2>1. r \in Evidence /\ r.backPassed = passed /\ r.trialPassed = e.trialPassed
    BY <1>2 DEF Recorded, Evidence
  <2> QED
    BY <1>2, <2>1
<1>3. CASE phase[p] = "fallback"
  BY <1>3 DEF Recorded
<1> QED
  BY <1>1, <1>2, <1>3

\* What the end of a phase does if the command goes on: the five ways on, and
\* what each keeps of the evidence.
LEMMA EndPhaseOutcome ==
  ASSUME TypeOK, NEW p \in Operators, NEW passed \in BOOLEAN,
         NEW restarted \in BOOLEAN, NEW interrupted \in BOOLEAN,
         EndPhase(p, passed, restarted, interrupted), ~Leave(p)
  PROVE  /\ UNCHANGED <<lock, kind, work, verdict>>
         /\ pc' \in [Operators -> Locked \cup {"idle", "persist", "finalize"}]
         /\ phase' \in [Operators -> {"trial", "return", "fallback"}]
         /\ evidence' \in [Operators -> Evidence]
         /\ raised' \in [Operators -> BOOLEAN]
         /\ \A q \in Operators \ {p} : /\ pc'[q] = pc[q] /\ phase'[q] = phase[q]
                                         /\ evidence'[q] = evidence[q]
         /\ \/ /\ phase[p] = "trial" /\ kind[p] = "activation" /\ passed
               /\ pc'[p] = "report" /\ phase'[p] = "trial"
               /\ evidence'[p].trialPassed
               /\ evidence'[p].backPassed = evidence[p].backPassed
            \/ /\ phase[p] = "trial"
               /\ pc'[p] = "switch" /\ phase'[p] = "return"
               /\ evidence'[p].backPassed = evidence[p].backPassed
            \/ /\ phase[p] = "return"
               /\ ~(passed /\ restarted /\ link = Safe(txn[work[p]]))
               /\ pc'[p] \in {"switch", "restart"} /\ phase'[p] = "fallback"
               /\ evidence'[p].backPassed = passed
            \/ /\ phase[p] = "return"
               /\ pc'[p] = "report" /\ phase'[p] = "return"
               /\ evidence'[p].backPassed = passed
            \/ /\ phase[p] = "fallback"
               /\ pc'[p] = "report" /\ phase'[p] = "fallback"
               /\ evidence'[p].backPassed = evidence[p].backPassed
<1> DEFINE e == evidence[p]
           r == Recorded(p, passed)
           n == NextPhase(p, passed, restarted)
           safe == Safe(txn[work[p]])
<1>1. e \in Evidence
  BY DEF TypeOK
<1>2. /\ r \in Evidence
      /\ phase[p] = "trial" =>
           r.trialPassed = passed /\ r.backPassed = e.backPassed
      /\ phase[p] = "return" => r.backPassed = passed
      /\ phase[p] = "fallback" => r.backPassed = e.backPassed
  BY <1>1, RecordedFields DEF TypeOK
<1>3. /\ phase[p] = "trial" =>
            n = IF kind[p] = "activation" /\ passed THEN "done" ELSE "return"
      /\ phase[p] = "return" =>
            \/ n = "done"
            \/ n = "fallback" /\ ~(passed /\ restarted /\ link = safe)
      /\ phase[p] = "fallback" => n = "done"
  BY DEF NextPhase
<1>4. /\ UNCHANGED <<lock, kind, work, verdict>>
      /\ evidence' = [evidence EXCEPT ![p] = r]
      /\ raised' = [raised EXCEPT ![p] = raised[p] \/ interrupted]
      /\ pc' = [pc EXCEPT ![p] =
           IF n = "done" THEN "report"
           ELSE IF n = "fallback" /\ link = safe THEN "restart"
                   ELSE "switch"]
      /\ phase' = [phase EXCEPT ![p] = IF n = "done" THEN phase[p] ELSE n]
  BY DEF EndPhase
<1> HIDE DEF r, e, n, safe
<1>5. /\ evidence' \in [Operators -> Evidence] /\ evidence'[p] = r
      /\ raised' \in [Operators -> BOOLEAN]
      /\ pc'[p] = IF n = "done" THEN "report"
                  ELSE IF n = "fallback" /\ link = safe THEN "restart"
                   ELSE "switch"
      /\ phase'[p] = IF n = "done" THEN phase[p] ELSE n
      /\ \A q \in Operators \ {p} : /\ pc'[q] = pc[q] /\ phase'[q] = phase[q]
                                     /\ evidence'[q] = evidence[q]
  BY <1>2, <1>4 DEF TypeOK
<1>6. /\ pc' \in [Operators -> Locked \cup {"idle", "persist", "finalize"}]
      /\ phase' \in [Operators -> {"trial", "return", "fallback"}]
  BY <1>3, <1>4 DEF TypeOK, Locked
<1>7. CASE phase[p] = "trial"
  BY <1>2, <1>3, <1>4, <1>5, <1>6, <1>7 DEF e
<1>8. CASE phase[p] = "return"
  BY <1>2, <1>3, <1>4, <1>5, <1>6, <1>8 DEF e, safe
<1>9. CASE phase[p] = "fallback"
  BY <1>2, <1>3, <1>4, <1>5, <1>6, <1>9 DEF e
<1>10. QED
  BY <1>7, <1>8, <1>9 DEF TypeOK

\* A command whose phase ends keeps the types.
LEMMA EndPhaseType ==
  ASSUME TypeOK, NEW p \in Operators, NEW passed \in BOOLEAN,
         NEW restarted \in BOOLEAN, NEW interrupted \in BOOLEAN,
         EndPhase(p, passed, restarted, interrupted)
  PROVE  CommandType'
<1>1. CASE Leave(p)
  BY <1>1, LeaveType
<1>2. CASE ~Leave(p)
  BY <1>2, EndPhaseOutcome DEF TypeOK, CommandType
<1>3. QED
  BY <1>1, <1>2

\* Every step keeps the types.
LEMMA TypeStep == IInv /\ [Next]_vars => TypeOK'
<1> SUFFICES ASSUME IInv, [Next]_vars PROVE TypeOK'
  OBVIOUS
<1> USE DeploymentAssumption DEF IInv
<1>1. ASSUME NEW p \in Operators, NEW o \in Operations, NEW r \in Releases,
            Begin(p, o, r)
     PROVE TypeOK'
  BY <1>1 DEF Begin, TypeOK, Transaction, Ids, hostVars, ghostVars, Locked
<1>2. ASSUME NEW p \in Operators, WriteMarker(p) PROVE TypeOK'
  BY <1>2 DEF WriteMarker, Goto, TypeOK, ghostVars, Locked
<1>3. ASSUME NEW p \in Operators, SyncMarker(p) PROVE TypeOK'
  BY <1>3 DEF SyncMarker, Goto, TypeOK, ghostVars, Locked
<1>4. ASSUME NEW p \in Operators, MarkerFails(p) PROVE TypeOK'
  <2>1. CommandType'
    BY <1>4, LeaveType, EndPhaseType DEF MarkerFails, Fault
  <2>2. QED
    BY <1>4, <2>1 DEF CommandType, MarkerFails, Fault, hostVars, ghostVars,
           TypeOK
<1>5. ASSUME NEW p \in Operators, Switch(p) PROVE TypeOK'
  <2>1. evidence' \in [Operators -> Evidence]
    <3>1. evidence' = [evidence EXCEPT ![p] = [@ EXCEPT !.from = link]]
      BY <1>5 DEF Switch
    <3>2. QED
      BY <3>1, FromType DEF TypeOK
  <2>2. Target(p) \in Releases
    BY <1>5 DEF Switch, Numbered, Exercising, TypeOK, Transaction, Ids, Target,
           Safe, Trial
  <2>3. QED
    BY <1>5, <2>1, <2>2 DEF Switch, TypeOK, ghostVars, Locked
<1>6. ASSUME NEW p \in Operators, Flush(p) PROVE TypeOK'
  BY <1>6 DEF Flush, Goto, TypeOK, ghostVars, Locked
<1>7. ASSUME NEW p \in Operators, ActivateFails(p) PROVE TypeOK'
  <2>1. CommandType'
    BY <1>7, LeaveType, EndPhaseType DEF ActivateFails, Fault
  <2>2. QED
    BY <1>7, <2>1 DEF CommandType, ActivateFails, Fault, hostVars, ghostVars,
           TypeOK
<1>8. ASSUME NEW p \in Operators, Restart(p) PROVE TypeOK'
  <2>1. CommandType'
    BY <1>8, LeaveType, EndPhaseType DEF Restart, Goto, CommandType, TypeOK,
           Locked
  <2>2. QED
    BY <1>8, <2>1 DEF CommandType, Restart, Goto, ghostVars, TypeOK
<1>9. ASSUME NEW p \in Operators, RestartFails(p) PROVE TypeOK'
  <2>1. CommandType'
    BY <1>9, LeaveType, EndPhaseType DEF RestartFails, Fault
  <2>2. QED
    BY <1>9, <2>1 DEF CommandType, RestartFails, Fault, ghostVars, TypeOK
<1>10. ASSUME NEW p \in Operators, ProbePasses(p) PROVE TypeOK'
  <2>1. CommandType'
    BY <1>10, LeaveType, EndPhaseType DEF ProbePasses
  <2>2. work[p] \in Ids /\ Target(p) \in Releases
    BY <1>10 DEF ProbePasses, Numbered, Exercising, TypeOK, Transaction, Ids,
           Target, Safe, Trial
  <2>3. probes' \subseteq Ids \X Releases
    BY <1>10, <2>2 DEF ProbePasses, TypeOK
  <2>4. QED
    BY <1>10, <2>1, <2>3 DEF CommandType, ProbePasses, hostVars, TypeOK
<1>11. ASSUME NEW p \in Operators, ProbeFails(p) PROVE TypeOK'
  <2>1. CommandType'
    BY <1>11, LeaveType, EndPhaseType DEF ProbeFails, Fault
  <2>2. QED
    BY <1>11, <2>1 DEF CommandType, ProbeFails, Fault, hostVars, ghostVars,
           TypeOK
<1>12. ASSUME NEW p \in Operators, Interrupt(p) PROVE TypeOK'
  <2>1. CommandType'
    BY <1>12, LeaveType, EndPhaseType DEF Interrupt, Fault
  <2>2. QED
    BY <1>12, <2>1 DEF CommandType, Interrupt, Fault, ghostVars, TypeOK
<1>13. ASSUME NEW p \in Operators, BootCheckFails(p) PROVE TypeOK'
  <2>1. CommandType'
    BY <1>13 DEF BootCheckFails, CommandType, TypeOK, Locked
  <2>2. QED
    BY <1>13, <2>1 DEF CommandType, BootCheckFails, Fault, hostVars, ghostVars,
           TypeOK
<1>14. ASSUME NEW p \in Operators, NEW b \in BOOLEAN, Report(p, b) PROVE TypeOK'
  BY <1>14 DEF Report, Passed, SafelyActive, Fault, TypeOK, hostVars, ghostVars
<1>15. ASSUME NEW p \in Operators, Persist(p) PROVE TypeOK'
  <2>1. /\ work[p] \in Ids
        /\ kind[p] \in Operations \cup {"recovery"}
        /\ verdict[p].passed \in BOOLEAN
        /\ verdict[p].safe \in Releases \cup {NoRelease}
    BY <1>15 DEF Persist, Numbered, OwnMarker, TypeOK, Ids
  <2>2. reports' \subseteq [id : Ids, kind : Operations \cup {"recovery"},
                           passed : BOOLEAN, safe : Releases \cup {NoRelease}]
    BY <1>15, <2>1 DEF Persist, TypeOK
  <2>3. CommandType'
    BY <1>15, LeaveType DEF Persist, Goto, CommandType, TypeOK
  <2>4. QED
    BY <1>15, <2>2, <2>3 DEF CommandType, Persist, hostVars, TypeOK
<1>16. ASSUME NEW p \in Operators, PersistFails(p) PROVE TypeOK'
  <2>1. CommandType'
    BY <1>16, LeaveType, EndPhaseType DEF PersistFails, Fault
  <2>2. QED
    BY <1>16, <2>1 DEF CommandType, PersistFails, Fault, hostVars, ghostVars,
           TypeOK
<1>17. ASSUME NEW p \in Operators, Finalize(p) PROVE TypeOK'
  BY <1>17 DEF Finalize, Finalizable, Goto, TypeOK, Locked
<1>18. ASSUME NEW p \in Operators, FinalizeRefused(p) PROVE TypeOK'
  <2>1. CommandType'
    BY <1>18, LeaveType, EndPhaseType DEF FinalizeRefused
  <2>2. QED
    BY <1>18, <2>1 DEF CommandType, FinalizeRefused, hostVars, ghostVars, TypeOK
<1>19. ASSUME NEW p \in Operators, SyncRemoval(p) PROVE TypeOK'
  <2>1. CommandType'
    BY <1>19, LeaveType, EndPhaseType DEF SyncRemoval
  <2>2. QED
    BY <1>19, <2>1 DEF CommandType, SyncRemoval, ghostVars, TypeOK
<1>20. ASSUME NEW p \in Operators, SyncRemovalFails(p) PROVE TypeOK'
  <2>1. CommandType'
    BY <1>20, LeaveType, EndPhaseType DEF SyncRemovalFails, Fault
  <2>2. QED
    BY <1>20, <2>1 DEF CommandType, SyncRemovalFails, Fault, hostVars,
           ghostVars, TypeOK
<1>21. ASSUME NEW p \in Operators, BeginRecovery(p) PROVE TypeOK'
  BY <1>21 DEF BeginRecovery, TypeOK, hostVars, ghostVars, Locked
<1>22. ASSUME NEW p \in Operators, NEW c \in {"profile", "state"},
             Inspect(p, c)
      PROVE TypeOK'
  <2>1. evidence' \in [Operators -> Evidence]
    <3>1. evidence' = [evidence EXCEPT ![p] = [@ EXCEPT !.from = link]]
      BY <1>22 DEF Inspect
    <3>2. QED
      BY <3>1, FromType DEF TypeOK
  <2>2. QED
    BY <1>22, <2>1 DEF Inspect, TypeOK, hostVars, ghostVars, Locked
<1>23. ASSUME NEW p \in Operators, Inspected(p) PROVE TypeOK'
  <2>1. CommandType'
    BY <1>23, LeaveType, EndPhaseType DEF Inspected
  <2>2. QED
    BY <1>23, <2>1 DEF CommandType, Inspected, hostVars, ghostVars, TypeOK
<1>24. ASSUME NEW p \in Operators, Kill(p) PROVE TypeOK'
  <2>1. CommandType'
    BY <1>24, LeaveType, EndPhaseType DEF Kill, Fault
  <2>2. QED
    BY <1>24, <2>1 DEF CommandType, Kill, Fault, ghostVars, TypeOK
<1>25. CASE PowerLoss
  BY <1>25 DEF PowerLoss, Fault, Evidence, NoEvidence, NoVerdict, TypeOK,
         ghostVars
<1>26. CASE ServiceDies
  BY <1>26 DEF ServiceDies, Fault, TypeOK, cmdVars, ghostVars
<1>27. CASE UNCHANGED vars
  BY <1>27 DEF vars, TypeOK, hostVars, cmdVars, ghostVars
<1>28. QED
  BY <1>1, <1>2, <1>3, <1>4, <1>5, <1>6, <1>7, <1>8, <1>9, <1>10, <1>11, <1>12,
         <1>13, <1>14, <1>15, <1>16, <1>17, <1>18, <1>19, <1>20, <1>21, <1>22,
         <1>23, <1>24, <1>25, <1>26, <1>27 DEF Next, Step, Failure

\* What a step that leaves the link and the marker alone may do to the service.
HostStands ==
  /\ UNCHANGED <<link, diskLink, marker, diskMarker, started, txn, accepted>>
  /\ service' \in {service, link, NoRelease}

\* A command that ends keeps the invariant if the host stands.
LEMMA LeaveStep ==
  ASSUME IInv, TypeOK', NEW p \in Operators, Leave(p), HostStands
  PROVE  IInv'
<1> USE DEF IInv, HostStands, Leave
<1>1. LockHeld'
  BY DEF TypeOK, LockHeld, Locked
<1>2. Numbered'
  BY DEF TypeOK, Numbered, Exercising
<1>3. Settled' /\ Recoverable'
  BY DEF TypeOK, Settled, Recoverable
<1>4. OwnMarker'
  BY DEF TypeOK, OwnMarker, Exercising, NoEvidence
<1>5. Exercised'
  BY DEF TypeOK, Exercised, Exercising, Live, Target
<1>6. ReportStands'
  BY DEF TypeOK, ReportStands, Live
<1>7. QED
  BY <1>1, <1>2, <1>3, <1>4, <1>5, <1>6

\* The end of a phase keeps the invariant if the host stands, and if a return
\* phase is said to have passed only with its release live.
LEMMA EndPhaseStep ==
  ASSUME IInv, TypeOK', NEW p \in Operators, NEW passed \in BOOLEAN,
         NEW restarted \in BOOLEAN, NEW interrupted \in BOOLEAN,
         EndPhase(p, passed, restarted, interrupted), HostStands,
         pc[p] \in {"switch", "flush", "restart", "probe"},
         passed => pc[p] = "probe" /\ restarted
  PROVE  IInv'
<1>1. CASE Leave(p)
  BY <1>1, LeaveStep
<1>2. CASE ~Leave(p)
  <2> USE DEF IInv, HostStands
  <2>1. /\ UNCHANGED <<lock, kind, work, verdict>>
        /\ \A q \in Operators \ {p} : /\ pc'[q] = pc[q] /\ phase'[q] = phase[q]
                                      /\ evidence'[q] = evidence[q]
        /\ \/ /\ phase[p] = "trial" /\ kind[p] = "activation" /\ passed
              /\ pc'[p] = "report" /\ phase'[p] = "trial"
              /\ evidence'[p].trialPassed
              /\ evidence'[p].backPassed = evidence[p].backPassed
           \/ /\ phase[p] = "trial"
              /\ pc'[p] = "switch" /\ phase'[p] = "return"
              /\ evidence'[p].backPassed = evidence[p].backPassed
           \/ /\ phase[p] = "return"
              /\ ~(passed /\ restarted /\ link = Safe(txn[work[p]]))
              /\ pc'[p] \in {"switch", "restart"} /\ phase'[p] = "fallback"
              /\ evidence'[p].backPassed = passed
           \/ /\ phase[p] = "return"
              /\ pc'[p] = "report" /\ phase'[p] = "return"
              /\ evidence'[p].backPassed = passed
           \/ /\ phase[p] = "fallback"
              /\ pc'[p] = "report" /\ phase'[p] = "fallback"
              /\ evidence'[p].backPassed = evidence[p].backPassed
    BY <1>2, EndPhaseOutcome
  <2>2. /\ lock = p /\ \A q \in Operators \ {p} : pc[q] \notin Locked
        /\ marker = work[p] /\ ~evidence[p].backPassed
        /\ passed => phase[p] # "fallback" /\ Live(Target(p))
    BY DEF LockHeld, Locked, OwnMarker, Exercised, Exercising
  <2>3. LockHeld'
    BY <2>1, <2>2 DEF TypeOK, LockHeld, Locked
  <2>4. Numbered'
    BY <2>1, <2>2 DEF TypeOK, Numbered, Exercising
  <2>5. Settled' /\ Recoverable'
    BY DEF TypeOK, Settled, Recoverable
  <2>6. OwnMarker'
    BY <2>1, <2>2 DEF TypeOK, OwnMarker, Exercising
  <2>7. Exercised'
    <3>1. ASSUME NEW q \in Operators \ {p} PROVE pc'[q] \notin Exercising
      BY <2>1, <2>2 DEF Exercising, Locked
    <3>2. phase[p] = "return" /\ passed => ~(phase'[p] = "fallback")
      BY <2>1, <2>2 DEF Live, Target
    <3>3. QED
      BY <2>1, <2>2, <3>1, <3>2 DEF Exercised, Live, Target, TypeOK
  <2>8. ReportStands'
    BY <2>1, <2>2 DEF TypeOK, ReportStands, Live
  <2>9. QED
    BY <2>3, <2>4, <2>5, <2>6, <2>7, <2>8
<1>3. QED
  BY <1>1, <1>2

\* Every step keeps the invariant.
LEMMA NextIInv == IInv /\ [Next]_vars => IInv'
<1> SUFFICES ASSUME IInv, [Next]_vars PROVE IInv'
  OBVIOUS
<1> USE DeploymentAssumption DEF IInv
<1>0. TypeOK'
  BY TypeStep
<1>1. ASSUME NEW p \in Operators, NEW o \in Operations, NEW r \in Releases,
            Begin(p, o, r)
     PROVE IInv'
  <2>1. LockHeld'
    BY <1>1 DEF Begin, TypeOK, LockHeld, Locked
  <2>2. Numbered'
    BY <1>1 DEF Begin, TypeOK, Numbered, hostVars
  <2>3. Settled'
    BY <1>1 DEF Begin, TypeOK, Settled, hostVars, ghostVars
  <2>4. Recoverable'
    BY <1>1 DEF Begin, TypeOK, Numbered, Recoverable, hostVars
  <2>5. OwnMarker'
    BY <1>1 DEF Begin, TypeOK, Settled, OwnMarker, Exercising, Ids, hostVars,
           ghostVars, Safe
  <2>6. Exercised'
    <3>1. \A q \in Operators : pc'[q] \notin Exercising
      BY <1>1 DEF Begin, TypeOK, LockHeld, Exercising
    <3>2. QED
      BY <3>1 DEF Exercised, Exercising
  <2>7. ReportStands'
    BY <1>1 DEF Begin, TypeOK, Numbered, ReportStands, hostVars
  <2>8. QED
    BY <1>0, <2>1, <2>2, <2>3, <2>4, <2>5, <2>6, <2>7
<1>2. ASSUME NEW p \in Operators, WriteMarker(p) PROVE IInv'
  <2>1. LockHeld'
    BY <1>2 DEF WriteMarker, Goto, TypeOK, LockHeld, Locked
  <2>2. Numbered'
    BY <1>2 DEF WriteMarker, Goto, TypeOK, Numbered
  <2>3. Settled'
    BY <1>2 DEF WriteMarker, Goto, TypeOK, Settled, OwnMarker, ghostVars
  <2>4. Recoverable'
    BY <1>2 DEF WriteMarker, Goto, TypeOK, Settled, Recoverable, OwnMarker,
           Safe, Pair
  <2>5. OwnMarker'
    BY <1>2 DEF WriteMarker, Goto, TypeOK, LockHeld, OwnMarker, Exercising
  <2>6. Exercised'
    BY <1>2 DEF WriteMarker, Goto, TypeOK, LockHeld, Exercised, Exercising
  <2>7. ReportStands'
    <3>1. \A q \in Operators \ {p} : work[q] # work[p]
      BY <1>2 DEF WriteMarker, Numbered, OwnMarker
    <3>2. pc'[p] = "sync" /\ \A q \in Operators \ {p} : pc'[q] = pc[q]
      BY <1>2 DEF WriteMarker, Goto, TypeOK
    <3>3. QED
      BY <1>2, <3>1, <3>2 DEF WriteMarker, Goto, ReportStands
  <2>8. QED
    BY <1>0, <2>1, <2>2, <2>3, <2>4, <2>5, <2>6, <2>7
<1>3. ASSUME NEW p \in Operators, SyncMarker(p) PROVE IInv'
  <2>1. LockHeld'
    BY <1>3 DEF SyncMarker, Goto, TypeOK, LockHeld, Locked
  <2>2. Numbered'
    BY <1>3 DEF SyncMarker, Goto, TypeOK, Numbered
  <2>3. Settled'
    BY <1>3 DEF SyncMarker, Goto, TypeOK, Numbered, Settled, OwnMarker
  <2>4. Recoverable'
    BY <1>3 DEF SyncMarker, Goto, TypeOK, Recoverable
  <2>5. OwnMarker'
    BY <1>3 DEF SyncMarker, Goto, TypeOK, LockHeld, OwnMarker
  <2>6. Exercised'
    BY <1>3 DEF SyncMarker, Goto, TypeOK, LockHeld, OwnMarker, Exercised
  <2>7. ReportStands'
    BY <1>3 DEF SyncMarker, Goto, TypeOK, Numbered, OwnMarker, ReportStands
  <2>8. QED
    BY <1>0, <2>1, <2>2, <2>3, <2>4, <2>5, <2>6, <2>7
<1>4. ASSUME NEW p \in Operators, MarkerFails(p) PROVE IInv'
  BY <1>0, <1>4, LeaveStep DEF MarkerFails, Fault, HostStands, hostVars,
         ghostVars
<1>5. ASSUME NEW p \in Operators, Switch(p) PROVE IInv'
  <2>1. LockHeld'
    BY <1>5 DEF Switch, TypeOK, LockHeld, Locked
  <2>2. Numbered'
    BY <1>5 DEF Switch, TypeOK, Numbered, Exercising
  <2>3. Settled'
    BY <1>5 DEF Switch, TypeOK, Numbered, Settled, OwnMarker, Exercising,
           ghostVars, Target
  <2>4. Recoverable'
    BY <1>5 DEF Switch, TypeOK, Numbered, Settled, Recoverable, OwnMarker,
           Exercising, Target, Safe, Trial, Pair
  <2>5. OwnMarker'
    BY <1>5 DEF Switch, TypeOK, LockHeld, OwnMarker, Exercising
  <2>6. Exercised'
    BY <1>5 DEF Switch, TypeOK, LockHeld, Exercised, Exercising, Target
  <2>7. ReportStands'
    BY <1>5 DEF Switch, TypeOK, Numbered, OwnMarker, ReportStands, Live,
           Exercising, Target, Transaction
  <2>8. QED
    BY <1>0, <2>1, <2>2, <2>3, <2>4, <2>5, <2>6, <2>7
<1>6. ASSUME NEW p \in Operators, Flush(p) PROVE IInv'
  <2>1. LockHeld'
    BY <1>6 DEF Flush, Goto, TypeOK, LockHeld, Locked
  <2>2. Numbered'
    BY <1>6 DEF Flush, Goto, TypeOK, Numbered, Exercising
  <2>3. Settled'
    BY <1>6 DEF Flush, Goto, TypeOK, Settled, ghostVars
  <2>4. Recoverable'
    BY <1>6 DEF Flush, Goto, TypeOK, Recoverable
  <2>5. OwnMarker'
    BY <1>6 DEF Flush, Goto, TypeOK, LockHeld, OwnMarker, Exercising
  <2>6. Exercised'
    BY <1>6 DEF Flush, Goto, TypeOK, LockHeld, Exercised, Exercising, Target
  <2>7. ReportStands'
    BY <1>6 DEF Flush, Goto, TypeOK, ReportStands, Live
  <2>8. QED
    BY <1>0, <2>1, <2>2, <2>3, <2>4, <2>5, <2>6, <2>7
<1>7. ASSUME NEW p \in Operators, ActivateFails(p) PROVE IInv'
  BY <1>0, <1>7, EndPhaseStep, LeaveStep DEF ActivateFails, Fault, HostStands,
         hostVars, ghostVars
<1>8. ASSUME NEW p \in Operators, Restart(p) PROVE IInv'
  <2>1. CASE phase[p] = "fallback"
    BY <1>0, <1>8, <2>1, EndPhaseStep DEF Restart, HostStands, ghostVars
  <2>2. CASE phase[p] # "fallback"
    <3>1. LockHeld'
      BY <1>8, <2>2 DEF Restart, Goto, TypeOK, LockHeld, Locked
    <3>2. Numbered'
      BY <1>8, <2>2 DEF Restart, Goto, TypeOK, Numbered, Exercising
    <3>3. Settled'
      BY <1>8, <2>2 DEF Restart, Goto, TypeOK, Settled, ghostVars
    <3>4. Recoverable'
      BY <1>8, <2>2 DEF Restart, Goto, TypeOK, Recoverable
    <3>5. OwnMarker'
      BY <1>8, <2>2 DEF Restart, Goto, TypeOK, LockHeld, OwnMarker, Exercising
    <3>6. Exercised'
      BY <1>8, <2>2 DEF Restart, Goto, TypeOK, Exercised, Live, Exercising,
             Target
    <3>7. ReportStands'
      BY <1>8, <2>2 DEF Restart, Goto, TypeOK, ReportStands, Live
    <3>8. QED
      BY <1>0, <3>1, <3>2, <3>3, <3>4, <3>5, <3>6, <3>7
  <2>3. QED
    BY <2>1, <2>2
<1>9. ASSUME NEW p \in Operators, RestartFails(p) PROVE IInv'
  BY <1>0, <1>9, EndPhaseStep DEF RestartFails, Fault, HostStands, ghostVars
<1>10. ASSUME NEW p \in Operators, ProbePasses(p) PROVE IInv'
  BY <1>0, <1>10, EndPhaseStep DEF ProbePasses, HostStands, hostVars
<1>11. ASSUME NEW p \in Operators, ProbeFails(p) PROVE IInv'
  BY <1>0, <1>11, EndPhaseStep DEF ProbeFails, Fault, HostStands, hostVars,
         ghostVars
<1>12. ASSUME NEW p \in Operators, Interrupt(p) PROVE IInv'
  BY <1>0, <1>12, EndPhaseStep, LeaveStep DEF Interrupt, Fault, HostStands,
         ghostVars
<1>13. ASSUME NEW p \in Operators, BootCheckFails(p) PROVE IInv'
  <2>1. LockHeld'
    BY <1>13 DEF BootCheckFails, Fault, TypeOK, LockHeld, Locked
  <2>2. Numbered'
    BY <1>13 DEF BootCheckFails, Fault, TypeOK, Numbered, Exercising, hostVars
  <2>3. Settled'
    BY <1>13 DEF BootCheckFails, Fault, TypeOK, Numbered, Settled, OwnMarker,
           Exercising, hostVars
  <2>4. Recoverable'
    BY <1>13 DEF BootCheckFails, Fault, TypeOK, Recoverable, hostVars
  <2>5. OwnMarker'
    BY <1>13 DEF BootCheckFails, Fault, TypeOK, LockHeld, OwnMarker, Exercising,
           hostVars
  <2>6. Exercised'
    BY <1>13 DEF BootCheckFails, Fault, TypeOK, LockHeld, Exercised
  <2>7. ReportStands'
    BY <1>13 DEF BootCheckFails, Fault, TypeOK, Numbered, OwnMarker,
           ReportStands, Exercising, hostVars
  <2>8. QED
    BY <1>0, <2>1, <2>2, <2>3, <2>4, <2>5, <2>6, <2>7
<1>14. ASSUME NEW p \in Operators, NEW b \in BOOLEAN, Report(p, b) PROVE IInv'
  <2>1. LockHeld'
    BY <1>14 DEF Report, Passed, SafelyActive, Fault, TypeOK, LockHeld, Locked
  <2>2. Numbered'
    BY <1>14 DEF Report, Passed, SafelyActive, Fault, TypeOK, Numbered,
           Exercising, hostVars
  <2>3. Settled'
    BY <1>14 DEF Report, Passed, SafelyActive, Fault, TypeOK, Settled, hostVars,
           ghostVars
  <2>4. Recoverable'
    BY <1>14 DEF Report, Passed, SafelyActive, Fault, TypeOK, Recoverable,
           hostVars
  <2>5. OwnMarker'
    BY <1>14 DEF Report, Passed, SafelyActive, Fault, TypeOK, LockHeld,
           OwnMarker, Exercising
  <2>6. Exercised'
    BY <1>14 DEF Report, Passed, SafelyActive, Fault, TypeOK, LockHeld,
           Exercised, Exercising
  <2>7. ReportStands'
    <3> DEFINE t == txn[work[p]]
               r == verdict'[p].safe
    <3>1. /\ work[p] \in Ids /\ marker = work[p]
          /\ t \in Transaction
      BY <1>14 DEF Report, Numbered, OwnMarker, Exercising, TypeOK, Ids
    <3>2. r # NoRelease => /\ r = link
                           /\ phase[p] = "trial" \/ evidence[p].backPassed
      BY <1>14, <3>1 DEF Report, SafelyActive, Passed, TypeOK
    <3>3. r # NoRelease => Live(r)
      BY <1>14, <3>2 DEF Report, Exercised, Live
    <3>4. r # NoRelease => r \in Pair(t)
      BY <1>14, <3>1 DEF Report, SafelyActive, Passed, Safe, Pair, TypeOK
    <3>5. \A q \in Operators \ {p} : pc'[q] = pc[q] /\ verdict'[q] = verdict[q]
      BY <1>14 DEF Report, TypeOK
    <3>6. QED
      BY <1>14, <3>3, <3>4, <3>5 DEF Report, hostVars, ReportStands, Live
  <2>8. QED
    BY <1>0, <2>1, <2>2, <2>3, <2>4, <2>5, <2>6, <2>7
<1>15. ASSUME NEW p \in Operators, Persist(p) PROVE IInv'
  <2>1. LockHeld'
    BY <1>15 DEF Persist, Leave, Goto, TypeOK, LockHeld, Locked
  <2>2. Numbered'
    BY <1>15 DEF Persist, Leave, Goto, TypeOK, Numbered, Exercising, Locked,
           hostVars
  <2>3. Settled'
    BY <1>15 DEF Persist, Leave, Goto, TypeOK, Settled, hostVars
  <2>4. Recoverable'
    BY <1>15 DEF Persist, Leave, Goto, TypeOK, Recoverable, hostVars
  <2>5. OwnMarker'
    BY <1>15 DEF Persist, Leave, Goto, TypeOK, OwnMarker, Exercising, hostVars,
           NoEvidence
  <2>6. Exercised'
    BY <1>15 DEF Persist, Leave, Goto, TypeOK, Exercised, Live, Exercising,
           hostVars, Target
  <2>7. ReportStands'
    BY <1>15 DEF Persist, Leave, Goto, TypeOK, LockHeld, ReportStands, Live,
           hostVars
  <2>8. QED
    BY <1>0, <2>1, <2>2, <2>3, <2>4, <2>5, <2>6, <2>7
<1>16. ASSUME NEW p \in Operators, PersistFails(p) PROVE IInv'
  BY <1>0, <1>16, LeaveStep DEF PersistFails, Fault, HostStands, hostVars,
         ghostVars
<1>17. ASSUME NEW p \in Operators, Finalize(p) PROVE IInv'
  <2>1. LockHeld'
    BY <1>17 DEF Finalize, Finalizable, Goto, TypeOK, LockHeld, Locked
  <2>2. Numbered'
    BY <1>17 DEF Finalize, Finalizable, Goto, TypeOK, Numbered, Exercising
  <2>3. Settled'
    BY <1>17 DEF Finalize, Finalizable, Goto, TypeOK, Settled, ReportStands,
           Live
  <2>4. Recoverable'
    BY <1>17 DEF Finalize, Finalizable, Goto, TypeOK, Recoverable
  <2>5. OwnMarker'
    BY <1>17 DEF Finalize, Finalizable, Goto, TypeOK, LockHeld, OwnMarker,
           Exercising
  <2>6. Exercised'
    BY <1>17 DEF Finalize, Finalizable, Goto, TypeOK, LockHeld, Exercised,
           Exercising
  <2>7. ReportStands'
    BY <1>17 DEF Finalize, Finalizable, Goto, TypeOK, Numbered, ReportStands
  <2>8. QED
    BY <1>0, <2>1, <2>2, <2>3, <2>4, <2>5, <2>6, <2>7
<1>18. ASSUME NEW p \in Operators, FinalizeRefused(p) PROVE IInv'
  BY <1>0, <1>18, LeaveStep DEF FinalizeRefused, HostStands, hostVars, ghostVars
<1>19. ASSUME NEW p \in Operators, SyncRemoval(p) PROVE IInv'
  <2>1. LockHeld'
    BY <1>19 DEF SyncRemoval, Leave, TypeOK, LockHeld, Locked
  <2>2. Numbered'
    BY <1>19 DEF SyncRemoval, Leave, TypeOK, Numbered, Exercising
  <2>3. Settled'
    BY <1>19 DEF SyncRemoval, Leave, TypeOK, Settled, ghostVars
  <2>4. Recoverable'
    BY <1>19 DEF SyncRemoval, Leave, TypeOK, Recoverable
  <2>5. OwnMarker'
    BY <1>19 DEF SyncRemoval, Leave, TypeOK, LockHeld, OwnMarker, Exercising,
           NoEvidence
  <2>6. Exercised'
    <3>1. \A q \in Operators : pc'[q] \notin Exercising
      BY <1>19 DEF SyncRemoval, Leave, TypeOK, LockHeld, Exercising
    <3>2. QED
      BY <3>1 DEF Exercised, Exercising
  <2>7. ReportStands'
    BY <1>19 DEF SyncRemoval, Leave, TypeOK, Numbered, OwnMarker, ReportStands
  <2>8. QED
    BY <1>0, <2>1, <2>2, <2>3, <2>4, <2>5, <2>6, <2>7
<1>20. ASSUME NEW p \in Operators, SyncRemovalFails(p) PROVE IInv'
  BY <1>0, <1>20, LeaveStep DEF SyncRemovalFails, Fault, HostStands, hostVars,
         ghostVars
<1>21. ASSUME NEW p \in Operators, BeginRecovery(p) PROVE IInv'
  <2>1. LockHeld'
    BY <1>21 DEF BeginRecovery, TypeOK, LockHeld, Locked
  <2>2. Numbered'
    BY <1>21 DEF BeginRecovery, TypeOK, LockHeld, Numbered, Exercising,
           Operations, hostVars
  <2>3. Settled'
    BY <1>21 DEF BeginRecovery, TypeOK, Settled, hostVars, ghostVars
  <2>4. Recoverable'
    BY <1>21 DEF BeginRecovery, TypeOK, Recoverable, hostVars
  <2>5. OwnMarker'
    BY <1>21 DEF BeginRecovery, TypeOK, OwnMarker, Operations, hostVars
  <2>6. Exercised'
    <3>1. \A q \in Operators \ {p} : pc'[q] \notin Exercising
      BY <1>21 DEF BeginRecovery, TypeOK, LockHeld, Exercising
    <3>2. pc'[p] = "switch" /\ ~evidence'[p].backPassed
      BY <1>21 DEF BeginRecovery, TypeOK, OwnMarker
    <3>3. QED
      BY <3>1, <3>2 DEF Exercised, Exercising
  <2>7. ReportStands'
    BY <1>21 DEF BeginRecovery, TypeOK, ReportStands, Live, hostVars
  <2>8. QED
    BY <1>0, <2>1, <2>2, <2>3, <2>4, <2>5, <2>6, <2>7
<1>22. ASSUME NEW p \in Operators, NEW c \in {"profile", "state"},
             Inspect(p, c)
      PROVE IInv'
  <2>1. LockHeld'
    BY <1>22 DEF Inspect, TypeOK, LockHeld, Locked
  <2>2. Numbered'
    BY <1>22 DEF Inspect, TypeOK, Numbered, Exercising, hostVars
  <2>3. Settled'
    BY <1>22 DEF Inspect, TypeOK, Settled, hostVars, ghostVars
  <2>4. Recoverable'
    BY <1>22 DEF Inspect, TypeOK, Recoverable, hostVars
  <2>5. OwnMarker'
    BY <1>22 DEF Inspect, TypeOK, LockHeld, OwnMarker, Exercising
  <2>6. Exercised'
    BY <1>22 DEF Inspect, TypeOK, LockHeld, Exercised, Exercising
  <2>7. ReportStands'
    BY <1>22 DEF Inspect, TypeOK, ReportStands, Live, hostVars
  <2>8. QED
    BY <1>0, <2>1, <2>2, <2>3, <2>4, <2>5, <2>6, <2>7
<1>23. ASSUME NEW p \in Operators, Inspected(p) PROVE IInv'
  BY <1>0, <1>23, LeaveStep DEF Inspected, HostStands, hostVars, ghostVars
<1>24. ASSUME NEW p \in Operators, Kill(p) PROVE IInv'
  BY <1>0, <1>24, LeaveStep DEF Kill, Fault, HostStands, ghostVars
<1>25. CASE PowerLoss
  <2>1. LockHeld'
    BY <1>25 DEF PowerLoss, Fault, TypeOK, LockHeld, Locked
  <2>2. Numbered'
    BY <1>25 DEF PowerLoss, Fault, TypeOK, Numbered, Exercising
  <2>3. Settled'
    BY <1>25 DEF PowerLoss, Fault, TypeOK, Settled, ghostVars
  <2>4. Recoverable'
    BY <1>25 DEF PowerLoss, Fault, TypeOK, Recoverable, OwnMarker
  <2>5. OwnMarker'
    BY <1>25 DEF PowerLoss, Fault, TypeOK, OwnMarker, Exercising, NoEvidence
  <2>6. Exercised'
    BY <1>25 DEF PowerLoss, Fault, TypeOK, Exercised, Exercising
  <2>7. ReportStands'
    BY <1>25 DEF PowerLoss, Fault, TypeOK, ReportStands
  <2>8. QED
    BY <1>0, <2>1, <2>2, <2>3, <2>4, <2>5, <2>6, <2>7
<1>26. CASE ServiceDies
  <2>1. LockHeld'
    BY <1>26 DEF ServiceDies, Fault, TypeOK, LockHeld, cmdVars
  <2>2. Numbered'
    BY <1>26 DEF ServiceDies, Fault, TypeOK, Numbered, cmdVars
  <2>3. Settled'
    BY <1>26 DEF ServiceDies, Fault, TypeOK, Settled, ghostVars
  <2>4. Recoverable'
    BY <1>26 DEF ServiceDies, Fault, TypeOK, Recoverable
  <2>5. OwnMarker'
    BY <1>26 DEF ServiceDies, Fault, TypeOK, OwnMarker, cmdVars, ghostVars
  <2>6. Exercised'
    BY <1>26 DEF ServiceDies, Fault, TypeOK, Exercised, Live, cmdVars, Target
  <2>7. ReportStands'
    BY <1>26 DEF ServiceDies, Fault, TypeOK, ReportStands, Live, cmdVars
  <2>8. QED
    BY <1>0, <2>1, <2>2, <2>3, <2>4, <2>5, <2>6, <2>7
<1>27. CASE UNCHANGED vars
  <2>1. LockHeld'
    BY <1>27 DEF vars, TypeOK, LockHeld, cmdVars
  <2>2. Numbered'
    BY <1>27 DEF vars, TypeOK, Numbered, hostVars, cmdVars
  <2>3. Settled'
    BY <1>27 DEF vars, TypeOK, Settled, hostVars, ghostVars
  <2>4. Recoverable'
    BY <1>27 DEF vars, TypeOK, Recoverable, hostVars
  <2>5. OwnMarker'
    BY <1>27 DEF vars, TypeOK, OwnMarker, hostVars, cmdVars, ghostVars
  <2>6. Exercised'
    BY <1>27 DEF vars, TypeOK, Exercised, Live, hostVars, cmdVars, Target
  <2>7. ReportStands'
    BY <1>27 DEF vars, TypeOK, ReportStands, Live, hostVars, cmdVars
  <2>8. QED
    BY <1>0, <2>1, <2>2, <2>3, <2>4, <2>5, <2>6, <2>7
<1>28. QED
  BY <1>1, <1>2, <1>3, <1>4, <1>5, <1>6, <1>7, <1>8, <1>9, <1>10, <1>11, <1>12,
         <1>13, <1>14, <1>15, <1>16, <1>17, <1>18, <1>19, <1>20, <1>21, <1>22,
         <1>23, <1>24, <1>25, <1>26, <1>27 DEF Next, Step, Failure

\* The invariant holds on a host where nothing is pending.
LEMMA InitIInv == Init => IInv
BY DeploymentAssumption
   DEF Init, IInv, TypeOK, LockHeld, Numbered, Settled, Recoverable, OwnMarker,
       Exercised, ReportStands, Live, Transaction, Evidence, NoEvidence,
       NoVerdict, Operations, Locked, Exercising, Ids

\* The invariant of every reachable state.
LEMMA Inductive == Spec => []IInv
<1>1. QED
  BY InitIInv, NextIInv, PTL DEF Spec

\* Commands, host and reports keep their types.
THEOREM TypeCorrect == Spec => []TypeOK
<1>1. IInv => TypeOK
  BY DEF IInv
<1>2. QED
  BY <1>1, Inductive, PTL

\* No crash, interrupt, failure or power loss leaves the host, or its disk, on
\* an unaccepted release without a marker.
THEOREM CrashSafety == Spec => []SwitchIsCovered
<1>1. IInv => SwitchIsCovered
  BY DEF IInv, Settled, SwitchIsCovered
<1>2. QED
  BY <1>1, Inductive, PTL

\* deployment-recover never finds an active release that is foreign to the
\* marker it reads.
THEOREM RecoveryNeverRefused == Spec => []Recoverable
<1>1. IInv => Recoverable
  BY DEF IInv
<1>2. QED
  BY <1>1, Inductive, PTL

\* With no marker the service is the accepted release or down.
THEOREM OnlyAcceptedServes == Spec => []ServiceIsAccepted
<1>1. IInv => ServiceIsAccepted
  BY DEF IInv, Settled, ServiceIsAccepted
<1>2. QED
  BY <1>1, Inductive, PTL

\* A probe never measures another release than the one it is stamped with.
THEOREM ProbeMeasuresTarget == Spec => []ProbeIsOfTarget
<1>1. IInv => ProbeIsOfTarget
  BY DEF IInv, Exercised, Live, ProbeIsOfTarget
<1>2. QED
  BY <1>1, Inductive, PTL

-----------------------------------------------------------------------------
(* Evidence and reports *)

\* Nobody but p moves, and what was created, probed or reported stays.
Alone(p) ==
  \A q \in Operators \ {p} :
    /\ pc'[q] = pc[q] /\ kind'[q] = kind[q] /\ work'[q] = work[q]
    /\ evidence'[q] = evidence[q] /\ verdict'[q] = verdict[q]

Kept ==
  /\ \A i \in 1 .. started : txn'[i] = txn[i]
  /\ started' \in Nat /\ started <= started'
  /\ probes \subseteq probes'

\* What a report claims of a transaction stays true.
LEMMA StaysProbed ==
  ASSUME Kept, NEW k, NEW i \in 1 .. started, Probed(k, i)
  PROVE  Probed(k, i)'
BY DEF Kept, Probed, Pair, Safe

\* What a command has earned stays earned while others move.
LEMMA StaysEarned ==
  ASSUME NEW p \in Operators, TypeOK, Numbered, EarnedBy(p), Kept,
         reports \subseteq reports',
         pc'[p] = pc[p], kind'[p] = kind[p], work'[p] = work[p],
         evidence'[p] = evidence[p], verdict'[p] = verdict[p]
  PROVE  EarnedBy(p)'
<1>1. work[p] \in Nat /\ started \in Nat /\ work[p] <= started
  BY DEF TypeOK, Numbered
<1>2. work[p] # 0 => work[p] \in 1 .. started
  BY <1>1
<1>3. pc[p] \in {"persist", "finalize"} => work[p] # 0
  BY DEF Numbered
<1>4. work[p] # 0 /\ Probed(kind[p], work[p]) => Probed(kind[p], work[p])'
  BY <1>2, StaysProbed DEF Probed
<1>5. work[p] # 0 => /\ txn'[work'[p]].operation = txn[work[p]].operation
                     /\ Trial(txn[work[p]])' = Trial(txn[work[p]])
                     /\ Safe(txn[work[p]])' = Safe(txn[work[p]])
  BY <1>2 DEF Trial, Safe, Kept
<1> QED
  BY <1>3, <1>4, <1>5 DEF EarnedBy, Kept

\* A step that persists and finalizes nothing has to show what its own command
\* has earned.
LEMMA EarnedStep ==
  ASSUME IInv, Earned, NEW p \in Operators, EarnedBy(p)', Alone(p), Kept,
         UNCHANGED <<reports, accepted, warrant>>
  PROVE  Earned'
<1>1. \A q \in Operators : EarnedBy(q)'
  BY StaysEarned DEF IInv, Earned, Alone
<1>2. \A r \in reports : r.id \in 1 .. started
  BY DEF IInv, TypeOK, Earned, Ids
<1>3. AcceptedIsEvidenced'
  BY DEF AcceptedIsEvidenced, Earned, Kept
<1>4. PassedReportIsTrue'
  BY <1>2, StaysProbed DEF PassedReportIsTrue, Earned
<1>5. \A r \in reports' : r.id <= started'
  BY <1>2 DEF Kept, IInv, TypeOK
<1> QED
  BY <1>1, <1>3, <1>4, <1>5 DEF Earned

\* A command that ends has nothing to show.
LEMMA LeaveEarned ==
  ASSUME IInv, Earned, NEW p \in Operators, Leave(p), Kept,
         UNCHANGED <<reports, accepted, warrant>>
  PROVE  Earned'
<1>1. Alone(p)
  BY DEF Alone, Leave, IInv, TypeOK
<1>2. EarnedBy(p)'
  BY DEF EarnedBy, Leave, IInv, TypeOK, NoEvidence
<1> QED
  BY <1>1, <1>2, EarnedStep

\* A phase that ends adds evidence only of the probe that has passed.
LEMMA EndPhaseEarned ==
  ASSUME IInv, Earned, NEW p \in Operators, NEW passed \in BOOLEAN,
         NEW restarted \in BOOLEAN, NEW interrupted \in BOOLEAN,
         EndPhase(p, passed, restarted, interrupted),
         pc[p] \in {"switch", "flush", "restart", "probe"}, Kept,
         passed => <<work[p], Target(p)>> \in probes',
         UNCHANGED <<txn, reports, accepted, warrant>>
  PROVE  Earned'
<1>1. CASE Leave(p)
  BY <1>1, LeaveEarned
<1>2. CASE ~Leave(p)
  <2> DEFINE e == Recorded(p, passed)
  <2>1. /\ work[p] # 0
        /\ kind[p] \in Operations => txn[work[p]].operation = kind[p]
        /\ evidence[p].trialPassed => <<work[p], Trial(txn[work[p]])>> \in probes
        /\ evidence[p].backPassed => <<work[p], Safe(txn[work[p]])>> \in probes
    BY DEF IInv, Numbered, Exercising, Earned, EarnedBy
  <2>2. /\ UNCHANGED <<kind, work, verdict>>
        /\ pc'[p] \in {"report", "switch", "restart"}
        /\ \A q \in Operators \ {p} : /\ pc'[q] = pc[q]
                                      /\ evidence'[q] = evidence[q]
    BY <1>2, EndPhaseOutcome DEF IInv
  <2>3. evidence'[p] = e
    BY <1>2 DEF EndPhase, IInv, TypeOK
  <2>4. /\ e.trialPassed =>
             evidence[p].trialPassed \/ (phase[p] = "trial" /\ passed)
        /\ e.backPassed =>
             evidence[p].backPassed \/ (phase[p] = "return" /\ passed)
    <3>1. /\ evidence[p] \in Evidence
          /\ phase[p] \in {"trial", "return", "fallback"}
      BY DEF IInv, TypeOK
    <3> QED
      BY <3>1, RecordedFields
  <2> HIDE DEF e
  <2>5. /\ e.trialPassed => <<work[p], Trial(txn[work[p]])>> \in probes'
        /\ e.backPassed => <<work[p], Safe(txn[work[p]])>> \in probes'
    BY <2>1, <2>4 DEF Target, Kept
  <2>6. EarnedBy(p)'
    BY <2>1, <2>2, <2>3, <2>5 DEF EarnedBy, Trial, Safe
  <2>7. Alone(p)
    BY <2>2 DEF Alone
  <2> QED
    BY <2>6, <2>7, EarnedStep
<1> QED
  BY <1>1, <1>2

\* The verdict of a report says no more than the evidence.
LEMMA VerdictEarned ==
  ASSUME IInv, Earned, NEW p \in Operators, NEW booted \in BOOLEAN,
         Report(p, booted)
  PROVE  Earned'
<1> DEFINE i == work[p]
           t == txn[i]
           passed == booted /\ Passed(p)
           safe == SafelyActive(p, passed)
<1>1. pc[p] = "report"
  BY DEF Report
<1>2. /\ i # 0 /\ i \in Ids
      /\ kind[p] \in Operations \cup {"recovery"}
  BY <1>1 DEF IInv, TypeOK, Numbered, Exercising, OwnMarker, Ids
<1>3. t.operation \in Operations /\ t.previous \in Releases
      /\ t.candidate \in Releases
  BY <1>2 DEF IInv, TypeOK, Transaction
<1>4. /\ kind[p] \in Operations => t.operation = kind[p]
      /\ evidence[p].trialPassed => <<i, Trial(t)>> \in probes
      /\ evidence[p].backPassed => <<i, Safe(t)>> \in probes
  BY <1>2 DEF Earned, EarnedBy
<1>5. /\ verdict'[p] = [passed |-> passed, safe |-> safe] /\ pc'[p] = "persist"
      /\ UNCHANGED <<kind, work, evidence, txn, started, ghostVars>>
  BY DEF Report, IInv, TypeOK, hostVars
<1>6. passed => Probed(kind[p], i)
  <2>1. CASE kind[p] = "activation"
    BY <1>4, <2>1 DEF Passed, Probed, Trial, Operations
  <2>2. CASE kind[p] = "rehearsal"
    BY <1>4, <2>2 DEF Passed, Probed, Trial, Safe, Pair, Operations
  <2>3. CASE kind[p] = "recovery"
    BY <1>4, <2>3 DEF Passed, Probed
  <2> QED
    BY <1>2, <2>1, <2>2, <2>3 DEF Operations
<1>7. safe # NoRelease => <<i, safe>> \in probes
  <2>1. CASE kind[p] = "activation"
    BY <1>4, <2>1 DEF SafelyActive, Passed, Trial, Safe, Operations
  <2>2. CASE kind[p] = "rehearsal"
    BY <1>4, <2>2 DEF SafelyActive, Safe, Operations
  <2>3. CASE kind[p] = "recovery"
    BY <1>4, <2>3 DEF SafelyActive, Passed
  <2> QED
    BY <1>2, <2>1, <2>2, <2>3 DEF Operations
<1> HIDE DEF safe, passed
<1>8. verdict'[p].passed = passed /\ verdict'[p].safe = safe
  BY <1>5
<1>9. Kept
  BY <1>5 DEF Kept, IInv, TypeOK, ghostVars
<1>10. Alone(p)
  BY DEF Alone, Report, IInv, TypeOK
<1>11. EarnedBy(p)'
  <2>1. Probed(kind[p], i) => Probed(kind[p], i)'
    BY <1>5 DEF Probed, Pair, Safe, ghostVars
  <2> QED
    BY <1>2, <1>4, <1>5, <1>6, <1>7, <1>8, <2>1
    DEF EarnedBy, Trial, Safe, ghostVars
<1> QED
  BY <1>5, <1>9, <1>10, <1>11, EarnedStep DEF ghostVars

\* A report that is written is one more that is earned.
LEMMA PersistEarned ==
  ASSUME IInv, Earned, NEW p \in Operators, Persist(p)
  PROVE  Earned'
<1> DEFINE r == [id |-> work[p], kind |-> kind[p],
                 passed |-> verdict[p].passed, safe |-> verdict[p].safe]
<1>1. /\ pc[p] = "persist" /\ reports' = reports \cup {r}
      /\ UNCHANGED <<txn, started, probes, accepted, warrant>>
  BY DEF Persist
<1>2. /\ r.id = work[p] /\ r.kind = kind[p] /\ r.passed = verdict[p].passed
      /\ r.safe = verdict[p].safe
  OBVIOUS
<1> HIDE DEF r
<1>3. work[p] \in 1 .. started /\ started \in Nat
  BY <1>1 DEF IInv, TypeOK, Numbered
<1>4. Kept
  BY <1>1, <1>3 DEF Kept
<1>5. r.passed => Probed(r.kind, r.id)
  BY <1>1, <1>2 DEF Earned, EarnedBy
<1>6. Alone(p)
  BY DEF Alone, Persist, Leave, Goto, IInv, TypeOK
<1>7. \A q \in Operators \ {p} : EarnedBy(q)'
  BY <1>1, <1>4, <1>6, StaysEarned DEF IInv, Earned, Alone
<1>8. EarnedBy(p)'
  <2>1. CASE Leave(p)
    BY <2>1 DEF EarnedBy, Leave, IInv, TypeOK, NoEvidence
  <2>2. CASE ~Leave(p)
    <3>1. /\ pc'[p] = "finalize" /\ verdict[p].safe # NoRelease
          /\ UNCHANGED <<kind, work, verdict, evidence>>
      BY <2>2 DEF Persist, Goto, IInv, TypeOK
    <3>2. Probed(kind[p], work[p]) => Probed(kind[p], work[p])'
      BY <1>1, <3>1 DEF Probed, Pair, Safe
    <3> QED
      BY <1>1, <1>2, <3>1, <3>2 DEF Earned, EarnedBy, Trial, Safe
  <2> QED
    BY <2>1, <2>2
<1>9. PassedReportIsTrue'
  <2>1. \A x \in reports : x.id \in 1 .. started
    BY DEF IInv, TypeOK, Earned, Ids
  <2> QED
    BY <1>1, <1>2, <1>3, <1>4, <1>5, <2>1, StaysProbed
    DEF PassedReportIsTrue, Earned
<1>10. AcceptedIsEvidenced' /\ \A x \in reports' : x.id <= started'
  BY <1>1, <1>2, <1>3 DEF Earned, AcceptedIsEvidenced
<1> QED
  BY <1>7, <1>8, <1>9, <1>10 DEF Earned

\* What is finalized was probed and stands in a report.
LEMMA FinalizeEarned ==
  ASSUME IInv, Earned, NEW p \in Operators, Finalize(p)
  PROVE  Earned'
<1>1. /\ pc[p] = "finalize" /\ pc'[p] = "unlinked" /\ accepted' = verdict[p].safe
      /\ warrant' = work[p]
      /\ UNCHANGED <<txn, started, probes, reports, kind, work, evidence, verdict>>
  BY DEF Finalize, Finalizable, Goto, IInv, TypeOK
<1>2. Kept
  BY <1>1 DEF Kept, IInv, TypeOK
<1>3. Alone(p)
  BY DEF Alone, Finalize, Goto, IInv, TypeOK
<1>4. \A q \in Operators \ {p} : EarnedBy(q)'
  BY <1>1, <1>2, <1>3, StaysEarned DEF IInv, Earned, Alone
<1>5. EarnedBy(p)'
  BY <1>1 DEF Earned, EarnedBy, Trial, Safe
<1>6. AcceptedIsEvidenced'
  BY <1>1 DEF Earned, EarnedBy, AcceptedIsEvidenced
<1>7. PassedReportIsTrue' /\ \A x \in reports' : x.id <= started'
  BY <1>1 DEF Earned, PassedReportIsTrue, Probed, Pair, Safe
<1> QED
  BY <1>4, <1>5, <1>6, <1>7 DEF Earned

-----------------------------------------------------------------------------
\* Every step keeps the evidence behind what is reported and accepted.
LEMMA NextEarned == IInv /\ Earned /\ [Next]_vars => Earned'
<1> SUFFICES ASSUME IInv, Earned, [Next]_vars PROVE Earned'
  OBVIOUS
<1>0. started \in Nat
  BY DEF IInv, TypeOK
<1>1. ASSUME NEW p \in Operators, NEW o \in Operations, NEW r \in Releases,
             Begin(p, o, r)
      PROVE  Earned'
  <2>1. Kept
    BY <1>0, <1>1 DEF Kept, Begin, ghostVars, IInv, TypeOK
  <2>2. Alone(p)
    BY <1>1 DEF Alone, Begin, IInv, TypeOK
  <2>3. EarnedBy(p)'
    <3>1. /\ pc[p] = "idle" /\ pc'[p] = "write" /\ kind'[p] = o
          /\ work'[p] = started + 1 /\ evidence'[p] = evidence[p]
      BY <1>1 DEF Begin, IInv, TypeOK
    <3>2. started + 1 \in Ids
      BY <1>0, <1>1, DeploymentAssumption DEF Begin, Ids
    <3>3. txn'[started + 1].operation = o
      BY <1>1, <3>2 DEF Begin, IInv, TypeOK
    <3> QED
      BY <3>1, <3>3 DEF Earned, EarnedBy
  <2> QED
    BY <1>1, <2>1, <2>2, <2>3, EarnedStep DEF Begin, ghostVars
\* A step that only moves on, with the evidence it has.
<1>2. ASSUME NEW p \in Operators,
             NEW l \in {"sync", "switch", "flush", "restart", "probe"},
             pc[p] # "idle", pc' = [pc EXCEPT ![p] = l],
             \/ evidence' = evidence
             \/ evidence' = [evidence EXCEPT ![p] = [@ EXCEPT !.from = link]],
             UNCHANGED <<kind, work, verdict, txn, started, ghostVars>>
      PROVE  Earned'
  <2>1. Kept
    BY <1>0, <1>2 DEF Kept, ghostVars
  <2>2. Alone(p)
    BY <1>2 DEF Alone, IInv, TypeOK
  <2>3. /\ evidence'[p].trialPassed = evidence[p].trialPassed
        /\ evidence'[p].backPassed = evidence[p].backPassed
    BY <1>2 DEF IInv, TypeOK, Evidence
  <2>4. EarnedBy(p)'
    BY <1>2, <2>3 DEF Earned, EarnedBy, IInv, TypeOK, ghostVars, Trial, Safe
  <2> QED
    BY <1>2, <2>1, <2>2, <2>4, EarnedStep DEF ghostVars
<1>3. ASSUME NEW p \in Operators, WriteMarker(p) PROVE Earned'
  BY <1>2, <1>3 DEF WriteMarker, Goto
<1>4. ASSUME NEW p \in Operators, SyncMarker(p) PROVE Earned'
  BY <1>2, <1>4 DEF SyncMarker, Goto
<1>5. ASSUME NEW p \in Operators, Switch(p) PROVE Earned'
  BY <1>2, <1>5 DEF Switch
<1>6. ASSUME NEW p \in Operators, Flush(p) PROVE Earned'
  BY <1>2, <1>6 DEF Flush, Goto
<1>7. ASSUME NEW p \in Operators, BootCheckFails(p) PROVE Earned'
  BY <1>2, <1>7 DEF BootCheckFails
\* A step that ends its command.
<1>8. ASSUME NEW p \in Operators, Leave(p), UNCHANGED <<started, txn, ghostVars>>
      PROVE  Earned'
  BY <1>0, <1>8, LeaveEarned DEF Kept, ghostVars
<1>9. ASSUME NEW p \in Operators,
             \/ MarkerFails(p) \/ PersistFails(p) \/ FinalizeRefused(p)
             \/ SyncRemoval(p) \/ SyncRemovalFails(p) \/ Inspected(p) \/ Kill(p)
      PROVE  Earned'
  BY <1>8, <1>9 DEF MarkerFails, PersistFails, FinalizeRefused, SyncRemoval,
         SyncRemovalFails, Inspected, Kill
\* A step that ends a phase without a probe that passes.
<1>10. ASSUME NEW p \in Operators, NEW restarted \in BOOLEAN,
              NEW interrupted \in BOOLEAN,
              EndPhase(p, FALSE, restarted, interrupted),
              pc[p] \in {"switch", "flush", "restart", "probe"},
              UNCHANGED <<started, txn, ghostVars>>
       PROVE  Earned'
  <2>1. Kept /\ UNCHANGED <<txn, reports, accepted, warrant>>
    BY <1>0, <1>10 DEF Kept, ghostVars
  <2> QED
    BY <1>10, <2>1, EndPhaseEarned
<1>11. ASSUME NEW p \in Operators, ActivateFails(p) PROVE Earned'
  BY <1>8, <1>10, <1>11 DEF ActivateFails
<1>12. ASSUME NEW p \in Operators, Restart(p) PROVE Earned'
  <2>1. CASE phase[p] = "fallback"
    BY <1>10, <1>12, <2>1 DEF Restart
  <2>2. CASE phase[p] # "fallback"
    BY <1>2, <1>12, <2>2 DEF Restart, Goto
  <2> QED
    BY <2>1, <2>2
<1>13. ASSUME NEW p \in Operators, RestartFails(p) PROVE Earned'
  BY <1>10, <1>13 DEF RestartFails
<1>14. ASSUME NEW p \in Operators, ProbePasses(p) PROVE Earned'
  <2>1. /\ EndPhase(p, TRUE, TRUE, FALSE) /\ pc[p] = "probe"
        /\ probes' = probes \cup {<<work[p], Target(p)>>}
        /\ UNCHANGED <<txn, started, reports, accepted, warrant>>
    BY <1>14 DEF ProbePasses
  <2>2. Kept
    BY <1>0, <2>1 DEF Kept
  <2> QED
    BY <2>1, <2>2, EndPhaseEarned
<1>15. ASSUME NEW p \in Operators, ProbeFails(p) PROVE Earned'
  BY <1>10, <1>15 DEF ProbeFails
<1>16. ASSUME NEW p \in Operators, Interrupt(p) PROVE Earned'
  BY <1>8, <1>10, <1>16 DEF Interrupt
<1>17. ASSUME NEW p \in Operators, NEW booted \in BOOLEAN, Report(p, booted)
       PROVE  Earned'
  BY <1>17, VerdictEarned
<1>18. ASSUME NEW p \in Operators, Persist(p) PROVE Earned'
  BY <1>18, PersistEarned
<1>19. ASSUME NEW p \in Operators, Finalize(p) PROVE Earned'
  BY <1>19, FinalizeEarned
<1>20. ASSUME NEW p \in Operators, BeginRecovery(p) PROVE Earned'
  <2>1. Kept
    BY <1>0, <1>20 DEF Kept, BeginRecovery, ghostVars
  <2>2. Alone(p)
    BY <1>20 DEF Alone, BeginRecovery, IInv, TypeOK
  <2>3. EarnedBy(p)'
    BY <1>20
    DEF BeginRecovery, Earned, EarnedBy, IInv, TypeOK, Operations
  <2> QED
    BY <1>20, <2>1, <2>2, <2>3, EarnedStep DEF BeginRecovery, ghostVars
<1>21. ASSUME NEW p \in Operators, NEW c \in {"profile", "state"}, Inspect(p, c)
       PROVE  Earned'
  <2>1. Kept
    BY <1>0, <1>21 DEF Kept, Inspect, ghostVars
  <2>2. Alone(p)
    BY <1>21 DEF Alone, Inspect, IInv, TypeOK
  <2>3. /\ evidence'[p].trialPassed = evidence[p].trialPassed
        /\ evidence'[p].backPassed = evidence[p].backPassed
    BY <1>21 DEF Inspect, IInv, TypeOK, Evidence
  <2>4. EarnedBy(p)'
    BY <1>21, <2>3 DEF Inspect, Earned, EarnedBy, IInv, TypeOK, Operations
  <2> QED
    BY <1>21, <2>1, <2>2, <2>4, EarnedStep DEF Inspect, ghostVars
<1>22. CASE PowerLoss
  BY <1>22
  DEF PowerLoss, Earned, EarnedBy, NoEvidence, ghostVars, AcceptedIsEvidenced,
      PassedReportIsTrue, Probed
<1>23. CASE UNCHANGED <<started, txn, cmdVars, ghostVars>>
  BY <1>23
  DEF cmdVars, ghostVars, Earned, EarnedBy, AcceptedIsEvidenced,
      PassedReportIsTrue, Probed
<1> QED
  BY <1>1, <1>3, <1>4, <1>5, <1>6, <1>7, <1>9, <1>11, <1>12, <1>13, <1>14,
     <1>15, <1>16, <1>17, <1>18, <1>19, <1>20, <1>21, <1>22, <1>23
  DEF Next, Step, Failure, ServiceDies, vars

\* Nothing is accepted, reported or probed at the start.
LEMMA InitEarned == Init => Earned
BY DEF Init, Earned, EarnedBy, AcceptedIsEvidenced, PassedReportIsTrue, NoEvidence

\* Evidence, verdicts and reports are backed by probes in every state.
LEMMA EvidenceInvariant == Spec => []Earned
<1>1. QED
  BY InitEarned, NextEarned, Inductive, PTL DEF Spec

\* The accepted release was probed within the transaction that accepted it, and
\* a report of that transaction was written before its marker went.
THEOREM AcceptanceIsEvidenced == Spec => []AcceptedIsEvidenced
<1>1. Earned => AcceptedIsEvidenced
  BY DEF Earned
<1>2. QED
  BY <1>1, EvidenceInvariant, PTL

\* A passed report is no stronger than the probes its own transaction made.
THEOREM PassedReportsAreTrue == Spec => []PassedReportIsTrue
<1>1. Earned => PassedReportIsTrue
  BY DEF Earned
<1>2. QED
  BY <1>1, EvidenceInvariant, PTL

=============================================================================
