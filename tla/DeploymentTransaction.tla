----------------------- MODULE DeploymentTransaction -----------------------
(***************************************************************************)
(* turnalign.deployment_rehearsal: switching the production host between   *)
(* releases under a durable transaction marker, with rollback, crash       *)
(* recovery and finalization, as the CLI commands deployment-activate,     *)
(* deployment-rehearsal and deployment-recover run them; and the two       *)
(* commands of production_gate that hold the same lock, host-profile and   *)
(* deployment-state.                                                       *)
(*                                                                         *)
(* Each command is a process of its own.  A crash may come between any two *)
(* of its steps.  The release link and the marker have a visible value and *)
(* a value on disk, which a directory fsync brings together; after a power *)
(* loss the host has either of them.                                       *)
(*                                                                         *)
(* Both operations have the same shape.  The trial release is exercised    *)
(* first and the safe release last: activation tries the candidate and     *)
(* returns to the previous release if that fails, the rehearsal tries the  *)
(* previous release and always returns to the candidate.                   *)
(***************************************************************************)
EXTENDS Integers

CONSTANTS
  Operators,        \* processes that run a deployment command
  Releases,         \* commits with a validated release directory
  MaxTransactions,  \* bound on the operations started
  MaxFaults,        \* bound on failures, interrupts, kills and power losses
  Nobody,           \* the lock is free
  NoRelease         \* the service is down; nothing to finalize

ASSUME DeploymentAssumption ==
  /\ MaxTransactions \in Nat
  /\ MaxFaults \in Nat
  /\ Nobody \notin Operators
  /\ NoRelease \notin Releases

VARIABLES
  link,        \* the release /opt/turnalign/current points to
  diskLink,    \* ... on disk
  marker,      \* transaction of the pending-activation.json file, 0 if none
  diskMarker,  \* ... on disk
  service,     \* the release the service was started from
  lock,        \* who holds the flock
  started,     \* number of transactions created
  txn,         \* the payload of each transaction
  pc, kind, work, phase, evidence, raised, verdict,  \* of each command
  faults,      \* failures so far
  probes,      \* <<transaction, release>> whose full probe has passed
  reports,     \* reports persisted
  accepted,    \* the release of the last finalized transaction
  warrant      \* that transaction, 0 if none

hostVars == <<link, diskLink, marker, diskMarker, service>>
cmdVars == <<pc, kind, work, phase, evidence, raised, verdict>>
ghostVars == <<probes, reports, accepted, warrant>>
vars == <<hostVars, lock, started, txn, cmdVars, faults, ghostVars>>

Ids == 1 .. MaxTransactions
Operations == {"activation", "rehearsal"}
Transaction == [operation : Operations, previous : Releases, candidate : Releases]
Evidence == [from : Releases \cup {NoRelease},
             trialFrom : Releases \cup {NoRelease}, trialPassed : BOOLEAN,
             backPassed : BOOLEAN]
NoEvidence == [from |-> NoRelease, trialFrom |-> NoRelease,
               trialPassed |-> FALSE, backPassed |-> FALSE]
\* Where a command holds the deployment lock.
Locked == {"write", "sync", "switch", "flush", "restart", "probe", "report",
           "unlinked", "inspect"}

TypeOK ==
  /\ link \in Releases /\ diskLink \in Releases
  /\ marker \in 0 .. MaxTransactions /\ diskMarker \in 0 .. MaxTransactions
  /\ service \in Releases \cup {NoRelease}
  /\ lock \in Operators \cup {Nobody}
  /\ started \in 0 .. MaxTransactions
  /\ txn \in [Ids -> Transaction]
  /\ pc \in [Operators -> Locked \cup {"idle", "persist", "finalize"}]
  /\ kind \in [Operators ->
                 Operations \cup {"none", "recovery", "profile", "state"}]
  /\ work \in [Operators -> 0 .. MaxTransactions]
  /\ phase \in [Operators -> {"trial", "return", "fallback"}]
  /\ evidence \in [Operators -> Evidence]
  /\ raised \in [Operators -> BOOLEAN]
  /\ verdict \in [Operators ->
                    [passed : BOOLEAN, safe : Releases \cup {NoRelease}]]
  /\ faults \in 0 .. MaxFaults
  /\ probes \subseteq Ids \X Releases
  /\ reports \subseteq [id : Ids, kind : Operations \cup {"recovery"},
                        passed : BOOLEAN, safe : Releases \cup {NoRelease}]
  /\ accepted \in Releases
  /\ warrant \in 0 .. MaxTransactions

NoVerdict == [passed |-> FALSE, safe |-> NoRelease]

Init ==
  /\ link \in Releases
  /\ diskLink = link /\ service = link /\ accepted = link
  /\ marker = 0 /\ diskMarker = 0 /\ started = 0 /\ warrant = 0
  /\ lock = Nobody
  /\ txn = [i \in Ids |-> [operation |-> "activation", previous |-> link,
                           candidate |-> link]]
  /\ pc = [p \in Operators |-> "idle"]
  /\ kind = [p \in Operators |-> "none"]
  /\ work = [p \in Operators |-> 0]
  /\ phase = [p \in Operators |-> "trial"]
  /\ evidence = [p \in Operators |-> NoEvidence]
  /\ raised = [p \in Operators |-> FALSE]
  /\ verdict = [p \in Operators |-> NoVerdict]
  /\ faults = 0 /\ probes = {} /\ reports = {}

-----------------------------------------------------------------------------
(* Transactions and processes *)

Safe(t) == IF t.operation = "activation" THEN t.previous ELSE t.candidate
Trial(t) == IF t.operation = "activation" THEN t.candidate ELSE t.previous
Pair(t) == {t.previous, t.candidate}

Target(p) == IF phase[p] = "trial" THEN Trial(txn[work[p]])
                                   ELSE Safe(txn[work[p]])

Fault == faults < MaxFaults /\ faults' = faults + 1

\* The process ends: the kernel releases its lock.
Leave(p) ==
  /\ pc' = [pc EXCEPT ![p] = "idle"]
  /\ lock' = IF lock = p THEN Nobody ELSE lock
  /\ kind' = [kind EXCEPT ![p] = "none"]
  /\ work' = [work EXCEPT ![p] = 0]
  /\ phase' = [phase EXCEPT ![p] = "trial"]
  /\ evidence' = [evidence EXCEPT ![p] = NoEvidence]
  /\ raised' = [raised EXCEPT ![p] = FALSE]
  /\ verdict' = [verdict EXCEPT ![p] = NoVerdict]

Goto(p, l) ==
  /\ pc' = [pc EXCEPT ![p] = l]
  /\ UNCHANGED <<kind, work, phase, raised, verdict>>

-----------------------------------------------------------------------------
(* Activation and rehearsal: preflight and marker *)

\* Mutant: the preflight does not compare the active release with the expected.
BeginUnchecked(p, operation, other) ==
  /\ pc[p] = "idle" /\ lock = Nobody
  /\ marker = 0
  /\ started < MaxTransactions
  /\ started' = started + 1
  /\ \E expected \in Releases \ {other} :
       txn' = [txn EXCEPT ![started + 1] = [operation |-> operation,
                 previous |-> other, candidate |-> expected]]
  /\ lock' = p
  /\ pc' = [pc EXCEPT ![p] = "write"]
  /\ kind' = [kind EXCEPT ![p] = operation]
  /\ work' = [work EXCEPT ![p] = started + 1]
  /\ UNCHANGED <<hostVars, phase, evidence, raised, verdict, faults, ghostVars>>

\* The preflight under the lock: activation wants the previous release active,
\* the rehearsal the candidate.  Both refuse a pending transaction.
Begin(p, operation, other) ==
  /\ pc[p] = "idle" /\ lock = Nobody
  /\ marker = 0
  /\ other # link
  /\ started < MaxTransactions
  /\ started' = started + 1
  /\ txn' = [txn EXCEPT ![started + 1] =
               [operation |-> operation,
                previous |-> IF operation = "activation" THEN link ELSE other,
                candidate |-> IF operation = "activation" THEN other ELSE link]]
  /\ lock' = p
  /\ pc' = [pc EXCEPT ![p] = "write"]
  /\ kind' = [kind EXCEPT ![p] = operation]
  /\ work' = [work EXCEPT ![p] = started + 1]
  /\ UNCHANGED <<hostVars, phase, evidence, raised, verdict, faults, ghostVars>>

\* _write_pending_transaction: a synced temporary file replaces the marker ...
WriteMarker(p) ==
  /\ pc[p] = "write" /\ marker = 0
  /\ marker' = work[p]
  /\ Goto(p, "sync")
  /\ UNCHANGED <<link, diskLink, diskMarker, service, lock, started, txn,
                 evidence, faults, ghostVars>>

\* Mutant: the directory of the marker is not synced.
SyncMarkerSkipped(p) ==
  /\ pc[p] = "sync"
  /\ Goto(p, "switch")
  /\ UNCHANGED <<hostVars, lock, started, txn, evidence, faults, ghostVars>>

\* ... and its directory is synced.
SyncMarker(p) ==
  /\ pc[p] = "sync"
  /\ diskMarker' = marker
  /\ Goto(p, "switch")
  /\ UNCHANGED <<link, diskLink, marker, service, lock, started, txn, evidence,
                 faults, ghostVars>>

\* An OSError in either half ends the command.
MarkerFails(p) ==
  /\ pc[p] \in {"write", "sync"}
  /\ Fault
  /\ Leave(p)
  /\ UNCHANGED <<hostVars, started, txn, ghostVars>>

-----------------------------------------------------------------------------
(* _exercise_phase, and the synchronous fallback after it *)

\* The phase a command goes on with when one has ended with this result.  The
\* fallback follows if the return phase has not left its release active and the
\* service restarted; recovery has none.
NextPhase(p, passed, restarted) ==
  CASE phase[p] = "trial" ->
         IF kind[p] = "activation" /\ passed THEN "done" ELSE "return"
    [] phase[p] = "return" /\ kind[p] # "recovery" ->
         IF link = Safe(txn[work[p]]) /\ restarted THEN "done" ELSE "fallback"
    [] OTHER -> "done"

\* What the report of the phase adds to the command's evidence.
Recorded(p, passed) ==
  LET e == evidence[p]
  IN IF phase[p] = "trial"
     THEN [e EXCEPT !.trialPassed = passed, !.trialFrom = e.from]
     ELSE IF phase[p] = "return" THEN [e EXCEPT !.backPassed = passed] ELSE e

\* The phase ends; an exception that is not an ordinary failure goes on
\* through the finally blocks and ends the command after the last of them.
\* The fallback switches the link only if it has to, and restarts.
EndPhase(p, passed, restarted, interrupted) ==
  LET next == NextPhase(p, passed, restarted)
      up == raised[p] \/ interrupted
  IN IF next = "done" /\ up THEN Leave(p)
     ELSE /\ pc' = [pc EXCEPT ![p] =
               IF next = "done" THEN "report"
               ELSE IF next = "fallback" /\ link = Safe(txn[work[p]]) THEN "restart"
               ELSE "switch"]
          /\ phase' = [phase EXCEPT ![p] = IF next = "done" THEN @ ELSE next]
          /\ raised' = [raised EXCEPT ![p] = up]
          /\ evidence' = [evidence EXCEPT ![p] = Recorded(p, passed)]
          /\ UNCHANGED <<lock, kind, work, verdict>>

\* _activate_release: the new symbolic link replaces the old one ...
Switch(p) ==
  /\ pc[p] = "switch"
  /\ link' = Target(p)
  /\ pc' = [pc EXCEPT ![p] = "flush"]
  /\ evidence' = [evidence EXCEPT ![p].from = link]
  /\ UNCHANGED <<diskLink, marker, diskMarker, service, lock, started, txn, kind,
                 work, phase, raised, verdict, faults, ghostVars>>

\* ... and the directory is synced.
Flush(p) ==
  /\ pc[p] = "flush"
  /\ diskLink' = link
  /\ Goto(p, "restart")
  /\ UNCHANGED <<link, marker, diskMarker, service, lock, started, txn, evidence,
                 faults, ghostVars>>

\* An OSError in either half fails the phase; in the fallback nothing catches it.
ActivateFails(p) ==
  /\ pc[p] \in {"switch", "flush"}
  /\ Fault
  /\ IF phase[p] = "fallback" THEN Leave(p) ELSE EndPhase(p, FALSE, FALSE, FALSE)
  /\ UNCHANGED <<hostVars, started, txn, ghostVars>>

\* systemctl restart, then is-active.  The fallback stops here.
Restart(p) ==
  /\ pc[p] = "restart"
  /\ service' = link
  /\ IF phase[p] = "fallback" THEN EndPhase(p, FALSE, TRUE, FALSE)
                              ELSE Goto(p, "probe") /\ UNCHANGED <<lock, evidence>>
  /\ UNCHANGED <<link, diskLink, marker, diskMarker, started, txn, faults,
                 ghostVars>>

\* The restart fails or times out: the old process may still run, the new one
\* may run, or none.  The fallback ignores the result.
RestartFails(p) ==
  /\ pc[p] = "restart"
  /\ Fault
  /\ service' \in {service, link, NoRelease}
  /\ EndPhase(p, FALSE, FALSE, FALSE)
  /\ UNCHANGED <<link, diskLink, marker, diskMarker, started, txn, ghostVars>>

\* Readiness and the WebSocket gate pass.
ProbePasses(p) ==
  /\ pc[p] = "probe"
  /\ service # NoRelease
  /\ probes' = probes \cup {<<work[p], Target(p)>>}
  /\ EndPhase(p, TRUE, TRUE, FALSE)
  /\ UNCHANGED <<hostVars, started, txn, faults, reports, accepted, warrant>>

ProbeFails(p) ==
  /\ pc[p] = "probe"
  /\ IF service = NoRelease THEN UNCHANGED faults ELSE Fault
  /\ EndPhase(p, FALSE, TRUE, FALSE)
  /\ UNCHANGED <<hostVars, started, txn, ghostVars>>

\* KeyboardInterrupt or CancelledError inside a phase or the fallback.  The
\* systemctl job it cuts off goes on.
Interrupt(p) ==
  /\ pc[p] \in {"switch", "flush", "restart", "probe"}
  /\ Fault
  /\ service' \in IF pc[p] = "restart" THEN {service, link, NoRelease} ELSE {service}
  /\ IF phase[p] = "fallback" THEN Leave(p) ELSE EndPhase(p, FALSE, FALSE, TRUE)
  /\ UNCHANGED <<link, diskLink, marker, diskMarker, started, txn, ghostVars>>

-----------------------------------------------------------------------------
(* Report and finalization *)

\* After a passed activation the boot identity is unreadable or has changed:
\* the candidate is rolled back although its probe passed.
BootCheckFails(p) ==
  /\ pc[p] = "report" /\ kind[p] = "activation" /\ phase[p] = "trial"
  /\ Fault
  /\ pc' = [pc EXCEPT ![p] = "switch"]
  /\ phase' = [phase EXCEPT ![p] = "return"]
  /\ UNCHANGED <<hostVars, lock, started, txn, kind, work, evidence, raised,
                 verdict, ghostVars>>

\* Mutant: the release that is active in the end decides a rehearsal.
PassedByReturn(p) ==
  LET t == txn[work[p]]  e == evidence[p]
  IN CASE kind[p] = "activation" -> phase[p] = "trial" /\ e.trialPassed
       [] kind[p] = "rehearsal" -> e.backPassed /\ link = t.candidate
       [] OTHER -> e.backPassed /\ link = Safe(t)

Passed(p) ==
  LET t == txn[work[p]]  e == evidence[p]
  IN CASE kind[p] = "activation" ->
            /\ phase[p] = "trial"
            /\ e.trialPassed /\ e.trialFrom = t.previous
            /\ link = t.candidate
       [] kind[p] = "rehearsal" ->
            /\ e.trialPassed /\ e.trialFrom = t.candidate
            /\ e.backPassed /\ e.from = t.previous
            /\ link = t.candidate
       [] OTHER -> e.backPassed /\ link = Safe(t)

\* Mutant: the safe release is finalized whenever the link points to it.
SafelyActiveByLink(p, passed) ==
  LET t == txn[work[p]]
  IN IF kind[p] = "activation" /\ passed THEN t.candidate
     ELSE IF link = Safe(t) THEN Safe(t) ELSE NoRelease

\* The release the CLI finalizes, if any.
SafelyActive(p, passed) ==
  LET t == txn[work[p]]
  IN CASE kind[p] = "activation" /\ passed -> t.candidate
       [] kind[p] = "activation" /\ ~passed ->
            IF phase[p] # "trial" /\ evidence[p].backPassed /\ link = t.previous
            THEN t.previous ELSE NoRelease
       [] kind[p] = "rehearsal" ->
            IF evidence[p].backPassed /\ link = t.candidate
            THEN t.candidate ELSE NoRelease
       [] OTHER -> IF passed THEN Safe(t) ELSE NoRelease

\* The locked part returns its report and the lock is released.  The last read
\* of the boot identity may fail the report.
Report(p, booted) ==
  /\ pc[p] = "report"
  /\ IF booted THEN UNCHANGED faults ELSE Fault
  /\ LET passed == booted /\ Passed(p)
     IN verdict' = [verdict EXCEPT ![p] =
                      [passed |-> passed, safe |-> SafelyActive(p, passed)]]
  /\ lock' = Nobody
  /\ pc' = [pc EXCEPT ![p] = "persist"]
  /\ UNCHANGED <<hostVars, started, txn, kind, work, phase, evidence, raised,
                 ghostVars>>

\* _emit_gate_report: the report is written, synced and renamed.
Persist(p) ==
  /\ pc[p] = "persist"
  /\ reports' = reports \cup
       {[id |-> work[p], kind |-> kind[p], passed |-> verdict[p].passed,
         safe |-> verdict[p].safe]}
  /\ IF verdict[p].safe = NoRelease
     THEN Leave(p)
     ELSE Goto(p, "finalize") /\ UNCHANGED <<lock, evidence>>
  /\ UNCHANGED <<hostVars, started, txn, faults, probes, accepted, warrant>>

\* Mutant: the marker is removed though the report could not be written.
PersistFailsFinalizes(p) ==
  /\ pc[p] = "persist" /\ verdict[p].safe # NoRelease
  /\ Fault
  /\ Goto(p, "finalize")
  /\ UNCHANGED <<hostVars, lock, started, txn, evidence, ghostVars>>

PersistFails(p) ==
  /\ pc[p] = "persist"
  /\ Fault
  /\ Leave(p)
  /\ UNCHANGED <<hostVars, started, txn, ghostVars>>

\* finalize_deployment_transaction accepts this report's release.
Finalizable(p) ==
  /\ lock = Nobody
  /\ marker # 0 /\ marker = work[p]
  /\ verdict[p].safe \in IF txn[marker].operation = "activation"
                         THEN Pair(txn[marker]) ELSE {txn[marker].candidate}
  /\ link = verdict[p].safe

Finalize(p) ==
  /\ pc[p] = "finalize"
  /\ Finalizable(p)
  /\ lock' = p
  /\ marker' = 0
  /\ accepted' = link /\ warrant' = work[p]
  /\ Goto(p, "unlinked")
  /\ UNCHANGED <<link, diskLink, diskMarker, service, started, txn, evidence,
                 faults, probes, reports>>

\* The lock is taken, or the marker or the link is not the report's any more.
FinalizeRefused(p) ==
  /\ pc[p] = "finalize"
  /\ ~Finalizable(p)
  /\ Leave(p)
  /\ UNCHANGED <<hostVars, started, txn, faults, ghostVars>>

SyncRemoval(p) ==
  /\ pc[p] = "unlinked"
  /\ diskMarker' = marker
  /\ Leave(p)
  /\ UNCHANGED <<link, diskLink, marker, service, started, txn, faults, ghostVars>>

SyncRemovalFails(p) ==
  /\ pc[p] = "unlinked"
  /\ Fault
  /\ Leave(p)
  /\ UNCHANGED <<hostVars, started, txn, ghostVars>>

-----------------------------------------------------------------------------
(* Recovery, host evidence, and the environment *)

\* Mutant: recovery starts only from the release under trial.
BeginRecoveryFromTrial(p) ==
  /\ pc[p] = "idle" /\ lock = Nobody
  /\ marker # 0
  /\ link = Trial(txn[marker])
  /\ lock' = p
  /\ pc' = [pc EXCEPT ![p] = "switch"]
  /\ kind' = [kind EXCEPT ![p] = "recovery"]
  /\ work' = [work EXCEPT ![p] = marker]
  /\ phase' = [phase EXCEPT ![p] = "return"]
  /\ UNCHANGED <<hostVars, started, txn, evidence, raised, verdict, faults,
                 ghostVars>>

\* deployment-recover reads the marker, refuses an unrelated active release and
\* exercises the safe release once.  It has no fallback.
BeginRecovery(p) ==
  /\ pc[p] = "idle" /\ lock = Nobody
  /\ marker # 0
  /\ link \in Pair(txn[marker])
  /\ lock' = p
  /\ pc' = [pc EXCEPT ![p] = "switch"]
  /\ kind' = [kind EXCEPT ![p] = "recovery"]
  /\ work' = [work EXCEPT ![p] = marker]
  /\ phase' = [phase EXCEPT ![p] = "return"]
  /\ UNCHANGED <<hostVars, started, txn, evidence, raised, verdict, faults,
                 ghostVars>>

\* host-profile refuses a pending transaction; deployment-state reports it.
\* Both hold the lock while they read.
Inspect(p, command) ==
  /\ pc[p] = "idle" /\ lock = Nobody
  /\ command = "profile" => marker = 0
  /\ lock' = p
  /\ pc' = [pc EXCEPT ![p] = "inspect"]
  /\ kind' = [kind EXCEPT ![p] = command]
  /\ evidence' = [evidence EXCEPT ![p].from = link]
  /\ UNCHANGED <<hostVars, started, txn, work, phase, raised, verdict, faults,
                 ghostVars>>

Inspected(p) ==
  /\ pc[p] = "inspect"
  /\ Leave(p)
  /\ UNCHANGED <<hostVars, started, txn, faults, ghostVars>>

\* SIGKILL of a command.
Kill(p) ==
  /\ pc[p] # "idle"
  /\ Fault
  /\ service' \in IF pc[p] = "restart" THEN {service, link, NoRelease} ELSE {service}
  /\ Leave(p)
  /\ UNCHANGED <<link, diskLink, marker, diskMarker, started, txn, ghostVars>>

\* Every process ends and directory changes that were not synced may be lost.
\* The unit is enabled: it starts from the link, or fails to.
PowerLoss ==
  /\ Fault
  /\ link' \in {link, diskLink} /\ diskLink' = link'
  /\ marker' \in {marker, diskMarker} /\ diskMarker' = marker'
  /\ service' \in {link', NoRelease}
  /\ lock' = Nobody
  /\ pc' = [p \in Operators |-> "idle"]
  /\ kind' = [p \in Operators |-> "none"]
  /\ work' = [p \in Operators |-> 0]
  /\ phase' = [p \in Operators |-> "trial"]
  /\ evidence' = [p \in Operators |-> NoEvidence]
  /\ raised' = [p \in Operators |-> FALSE]
  /\ verdict' = [p \in Operators |-> NoVerdict]
  /\ UNCHANGED <<started, txn, ghostVars>>

\* The service process dies; Restart=on-failure starts it from the link.
ServiceDies ==
  /\ Fault
  /\ service' \in {link, NoRelease}
  /\ UNCHANGED <<link, diskLink, marker, diskMarker, lock, started, txn, cmdVars,
                 ghostVars>>

Step(p) ==
  \/ WriteMarker(p) \/ SyncMarker(p)
  \/ Switch(p) \/ Flush(p) \/ Restart(p) \/ ProbePasses(p) \/ ProbeFails(p)
  \/ Report(p, TRUE) \/ Persist(p)
  \/ Finalize(p) \/ FinalizeRefused(p) \/ SyncRemoval(p) \/ Inspected(p)

Failure(p) ==
  \/ MarkerFails(p) \/ ActivateFails(p) \/ RestartFails(p) \/ Interrupt(p)
  \/ BootCheckFails(p) \/ Report(p, FALSE) \/ PersistFails(p)
  \/ SyncRemovalFails(p) \/ Kill(p)

Next ==
  \/ \E p \in Operators :
       \/ Step(p) \/ Failure(p) \/ BeginRecovery(p)
       \/ \E operation \in Operations, other \in Releases : Begin(p, operation, other)
       \/ \E command \in {"profile", "state"} : Inspect(p, command)
  \/ PowerLoss
  \/ ServiceDies

Spec == Init /\ [][Next]_vars

\* A command that runs goes on, and the operator reruns deployment-recover as
\* long as a transaction is pending.
FairSpec ==
  /\ Spec
  /\ \A p \in Operators : WF_vars(Step(p))
  /\ \A p \in Operators : SF_vars(BeginRecovery(p))

-----------------------------------------------------------------------------
(* Properties *)

\* Whatever is interrupted, lost or refused, the live release differs from the
\* last finalized one only while a marker says so, on the running host and on
\* its disk: there is no moment at which a crash leaves an unaccepted release
\* that deployment-recover does not know of.
SwitchIsCovered ==
  /\ marker = 0 => link = accepted
  /\ diskMarker = 0 => diskLink = accepted

\* _run_deployment_recovery_locked refuses an active release that is neither of
\* the marker's.  After any crash, whichever of the unsynced directory changes
\* survive, the marker found fits the link found: recovery is never refused.
Recoverable ==
  \A m \in {marker, diskMarker} \ {0}, l \in {link, diskLink} : l \in Pair(txn[m])

\* With no transaction pending the service runs the finalized release or is
\* down.  A restart that times out may leave the old release running; the
\* commands never drop the marker over it.
ServiceIsAccepted == marker = 0 => service \in {accepted, NoRelease}

\* The gate stamps its evidence with the target commit and does not ask the
\* service for its own.  It is right: the service cannot be any other release.
ProbeIsOfTarget ==
  \A p \in Operators : pc[p] = "probe" => service \in {Target(p), NoRelease}

\* The last finalized release has passed its full probe within the transaction
\* that was removed, and a durable report of that transaction names it.
AcceptedIsEvidenced ==
  warrant # 0 => /\ <<warrant, accepted>> \in probes
                 /\ \E r \in reports : r.id = warrant /\ r.safe = accepted

\* What a passed report of this operation claims.
Probed(operation, i) ==
  CASE operation = "activation" -> <<i, txn[i].candidate>> \in probes
    [] operation = "rehearsal" -> \A c \in Pair(txn[i]) : <<i, c>> \in probes
    [] OTHER -> <<i, Safe(txn[i])>> \in probes

\* A report that says passed is no stronger than what happened: the candidate
\* was probed, and for a rehearsal the previous release too.
PassedReportIsTrue ==
  \A r \in reports : r.passed => Probed(r.kind, r.id)

\* With one operator who reruns deployment-recover, every pending transaction
\* is finalized in the end: there is no failure it cannot get out of.
PendingIsResolved == marker # 0 ~> marker = 0

-----------------------------------------------------------------------------
(* The inductive invariant *)

Exercising == {"switch", "flush", "restart", "probe", "report"}

\* Only the holder of the lock is at a locked step.
LockHeld ==
  /\ \A p \in Operators : pc[p] \in Locked => lock = p
  /\ lock # Nobody => pc[lock] \in Locked

\* Every transaction in use has been created; a new one is not yet in use.
Numbered ==
  /\ marker <= started /\ diskMarker <= started
  /\ \A p \in Operators :
       /\ work[p] <= started
       /\ pc[p] \in {"write", "sync", "persist", "finalize"} \cup Exercising =>
            work[p] # 0
       /\ kind[p] \in Operations /\ pc[p] \in {"write", "sync"} \cup Exercising =>
            \A q \in Operators \ {p} : work[q] # work[p]

\* Without a synced marker nothing has moved, and its safe release is the
\* accepted one: recovering such a marker moves nothing either.
Settled ==
  marker = 0 \/ marker # diskMarker =>
    /\ link = accepted /\ diskLink = accepted
    /\ service \in {accepted, NoRelease}
    /\ marker # 0 => Safe(txn[marker]) = accepted

\* What each locked step knows of the marker and of its own operation.
OwnMarker ==
  \A p \in Operators :
    /\ pc[p] \in {"idle", "write", "sync"} =>
         phase[p] = "trial" /\ ~evidence[p].backPassed
    /\ pc[p] \in {"write", "sync"} => kind[p] \in Operations
    /\ pc[p] = "write" => marker = 0 /\ Safe(txn[work[p]]) = accepted
    /\ pc[p] = "sync" => marker = work[p]
    /\ pc[p] \in Exercising =>
         /\ marker = work[p]
         /\ kind[p] \in Operations => diskMarker = marker
         /\ kind[p] \in Operations \cup {"recovery"}
         /\ phase[p] = "trial" => kind[p] \in Operations
    /\ pc[p] = "persist" => kind[p] \in Operations \cup {"recovery"}
    /\ pc[p] = "unlinked" => marker = 0

\* The release under test is live, synced and served from its restart on, and
\* a phase that has passed leaves its release that way.
Live(r) == link = r /\ diskLink = r /\ service \in {r, NoRelease}

Exercised ==
  \A p \in Operators :
    /\ pc[p] = "flush" => link = Target(p)
    /\ pc[p] \in {"restart", "probe"} /\ phase[p] # "fallback" =>
         link = Target(p) /\ diskLink = Target(p)
    /\ pc[p] = "probe" => phase[p] # "fallback" /\ Live(Target(p))
    /\ pc[p] \in Exercising \ {"report"} => ~evidence[p].backPassed
    /\ pc[p] = "report" /\ phase[p] = "trial" =>
         kind[p] = "activation" /\ Live(Target(p)) /\ evidence[p].trialPassed
    /\ pc[p] = "report" /\ evidence[p].backPassed =>
         phase[p] # "trial" /\ Live(Safe(txn[work[p]]))

\* A report outlives the lock.  Whatever other commands do to the same
\* transaction meanwhile, its release is live and synced if it is active.
ReportStands ==
  \A p \in Operators :
    pc[p] \in {"persist", "finalize"} /\ verdict[p].safe # NoRelease
    /\ marker = work[p] =>
      /\ verdict[p].safe \in Pair(txn[work[p]])
      /\ verdict[p].safe = Safe(txn[work[p]]) => Live(verdict[p].safe)
      /\ link = verdict[p].safe => Live(verdict[p].safe)

IInv ==
  TypeOK /\ LockHeld /\ Numbered /\ Settled /\ Recoverable /\ OwnMarker
  /\ Exercised /\ ReportStands

\* A command's evidence is of probes of its own transaction; a verdict says no
\* more; and what a command finalizes stands in a report.
EarnedBy(p) ==
  /\ pc[p] = "idle" => ~evidence[p].trialPassed /\ ~evidence[p].backPassed
  /\ work[p] # 0 /\ kind[p] \in Operations => txn[work[p]].operation = kind[p]
  /\ evidence[p].trialPassed =>
       work[p] # 0 /\ <<work[p], Trial(txn[work[p]])>> \in probes
  /\ evidence[p].backPassed =>
       work[p] # 0 /\ <<work[p], Safe(txn[work[p]])>> \in probes
  /\ pc[p] \in {"persist", "finalize"} =>
       /\ verdict[p].safe # NoRelease => <<work[p], verdict[p].safe>> \in probes
       /\ verdict[p].passed => Probed(kind[p], work[p])
  /\ pc[p] = "finalize" =>
       /\ verdict[p].safe # NoRelease
       /\ \E r \in reports : r.id = work[p] /\ r.safe = verdict[p].safe

\* The inductive invariant of the evidence, on top of IInv.
Earned ==
  /\ \A p \in Operators : EarnedBy(p)
  /\ \A r \in reports : r.id <= started
  /\ AcceptedIsEvidenced
  /\ PassedReportIsTrue

=============================================================================
