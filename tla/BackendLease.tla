---------------------------- MODULE BackendLease ----------------------------
(***************************************************************************)
(* How a session of server.session_handler gives its backend back: the     *)
(* worker thread that leased it, the handler that cancels the session, the *)
(* thread that runs the backend's cancel hook, and the pool.               *)
(*                                                                         *)
(* A backend must not be leased again, or closed, while a hook is still    *)
(* acting on it, and a hook that blocks for ever must pin neither the slot *)
(* nor the worker.  The session's flags are read and written under two     *)
(* locks (backend_lease_lock, backend_cancel_state_lock); each region      *)
(* under a lock is one action.                                             *)
(*                                                                         *)
(* The pool is BackendPool reduced to what a lease needs: slots, an idle   *)
(* instance or a new one, release and detach.                              *)
(***************************************************************************)
EXTENDS Naturals, FiniteSets

CONSTANTS
  Sessions,
  Backends,         \* instances a factory may return
  max_entries,
  NoBackend

ASSUME LeaseAssumption ==
  /\ max_entries \in Nat \ {0}
  /\ NoBackend \notin Backends

VARIABLES
  idle,             \* instances the pool keeps and nobody leases
  closing,          \* <<b, thread>>: thread is inside close() of b
  closed,           \* instances some close() has finished with
  pc,               \* where the worker of each session is
  backend,          \* its local variable
  cancelling,       \* handlers between cancel_event.set() and the lock
  hook,             \* where the cancel thread is
  hook_on,          \* the instance it captured
  backend_in_use, cancel_event, backend_cancel_started, backend_cancel_done,
  backend_cancel_timed_out, backend_cancel_finished,
  backend_cleanup_requested, backend_cleanup_started,
  late              \* history: sessions whose hook was started after the
                    \* worker had looked, in its finally block, for a hook

poolVars == <<idle, closing, closed>>
cancelVars == <<cancelling, cancel_event, backend_cancel_started, hook, hook_on,
                backend_cancel_done, backend_cancel_finished, late>>
cleanupVars == <<backend_cleanup_requested, backend_cleanup_started>>
vars == <<poolVars, pc, backend, backend_in_use, cancelVars,
          backend_cancel_timed_out, cleanupVars>>

\* Worker: waiting in acquire; creating and warming up a new instance; closing
\* one that failed; back from acquire; before and after looking at
\* cancel_event; waiting for the hook; handing over.
PC == {"acquiring", "creating", "warming", "failing", "acquired", "leased",
       "running", "waiting", "handing", "gone"}

\* What cancel_worker writes when it starts the hook.
HookType ==
  /\ hook \in [Sessions -> {"none", "running", "returning", "over"}]
  /\ hook_on \in [Sessions -> Backends \cup {NoBackend}]
  /\ backend_cancel_started \in [Sessions -> BOOLEAN]
  /\ backend_cancel_done \in [Sessions -> BOOLEAN]

TypeOK ==
  /\ idle \subseteq Backends
  /\ closing \subseteq Backends \X (Sessions \X {"worker", "hook", "cleanup"})
  /\ closed \subseteq Backends
  /\ pc \in [Sessions -> PC]
  /\ backend \in [Sessions -> Backends \cup {NoBackend}]
  /\ backend_in_use \in [Sessions -> Backends \cup {NoBackend}]
  /\ cancelling \in [Sessions -> BOOLEAN]
  /\ cancel_event \in [Sessions -> BOOLEAN]
  /\ HookType
  /\ backend_cancel_finished \in [Sessions -> BOOLEAN]
  /\ backend_cancel_timed_out \in [Sessions -> BOOLEAN]
  /\ backend_cleanup_requested \in [Sessions -> BOOLEAN]
  /\ backend_cleanup_started \in [Sessions -> BOOLEAN]
  /\ late \subseteq Sessions

Init ==
  LET no == [s \in Sessions |-> FALSE]
      none == [s \in Sessions |-> NoBackend]
  IN
  /\ idle = {} /\ closing = {} /\ closed = {}
  /\ pc = [s \in Sessions |-> "acquiring"]
  /\ backend = none /\ backend_in_use = none
  /\ cancelling = no /\ cancel_event = no
  /\ hook = [s \in Sessions |-> "none"] /\ hook_on = none
  /\ backend_cancel_started = no /\ backend_cancel_done = no
  /\ backend_cancel_timed_out = no /\ backend_cancel_finished = no
  /\ backend_cleanup_requested = no /\ backend_cleanup_started = no
  /\ late = {}

-----------------------------------------------------------------------------
Goto(s, label) == pc' = [pc EXCEPT ![s] = label]
Set(flag, s) == [flag EXCEPT ![s] = TRUE]

\* The sessions whose worker holds a slot of the pool.
Holding(s) == pc[s] \in {"creating", "warming", "acquired", "leased",
                         "running", "waiting", "handing"}

HasSlot ==
  Cardinality(idle) + Cardinality({s \in Sessions : Holding(s)}) < max_entries

Fresh(b) ==
  /\ b \notin idle \cup closed \cup {p[1] : p \in closing}
  /\ \A s \in Sessions : backend[s] # b /\ hook_on[s] # b

-----------------------------------------------------------------------------
(* The worker: acquire, run, finally.                                      *)

AcquireIdle(s, b) ==
  /\ pc[s] = "acquiring" /\ ~cancel_event[s]
  /\ b \in idle
  /\ idle' = idle \ {b}
  /\ backend' = [backend EXCEPT ![s] = b]
  /\ Goto(s, "acquired")
  /\ UNCHANGED <<closing, closed, backend_in_use, cancelVars,
                 backend_cancel_timed_out, cleanupVars>>

\* Cancelled, no capacity, or create_asr raises.
AcquireRaises(s) ==
  /\ pc[s] \in {"acquiring", "creating"}
  /\ Goto(s, "gone")
  /\ UNCHANGED <<poolVars, backend, backend_in_use, cancelVars,
                 backend_cancel_timed_out, cleanupVars>>

TakeSlot(s) ==
  /\ pc[s] = "acquiring" /\ ~cancel_event[s]
  /\ idle = {} /\ HasSlot
  /\ Goto(s, "creating")
  /\ UNCHANGED <<poolVars, backend, backend_in_use, cancelVars,
                 backend_cancel_timed_out, cleanupVars>>

\* create_and_warmup: the hook may be called from here on.
Create(s, b) ==
  /\ pc[s] = "creating" /\ Fresh(b)
  /\ backend' = [backend EXCEPT ![s] = b]
  /\ backend_in_use' = [backend_in_use EXCEPT ![s] = b]
  /\ Goto(s, "warming")
  /\ UNCHANGED <<poolVars, cancelVars, backend_cancel_timed_out, cleanupVars>>

WarmupPasses(s) ==
  /\ pc[s] = "warming"
  /\ Goto(s, "acquired")
  /\ UNCHANGED <<poolVars, backend, backend_in_use, cancelVars,
                 backend_cancel_timed_out, cleanupVars>>

WarmupFails(s) ==
  /\ pc[s] = "warming"
  /\ backend_in_use' = [backend_in_use EXCEPT ![s] = NoBackend]
  /\ closing' = closing \cup {<<backend[s], <<s, "worker">>>>}
  /\ Goto(s, "failing")
  /\ UNCHANGED <<idle, closed, backend, cancelVars, backend_cancel_timed_out,
                 cleanupVars>>

FailedLoadCloses(s) ==
  /\ pc[s] = "failing"
  /\ closing' = closing \ {<<backend[s], <<s, "worker">>>>}
  /\ closed' = closed \cup {backend[s]}
  /\ Goto(s, "gone")
  /\ UNCHANGED <<idle, backend, backend_in_use, cancelVars,
                 backend_cancel_timed_out, cleanupVars>>

UseBackend(s) ==
  /\ pc[s] = "acquired"
  /\ backend_in_use' = [backend_in_use EXCEPT ![s] = backend[s]]
  /\ Goto(s, "leased")
  /\ UNCHANGED <<poolVars, backend, cancelVars, backend_cancel_timed_out,
                 cleanupVars>>

\* What cancel_worker does under the lease lock, whichever thread calls it:
\* start the hook once, if there is a backend.  The thread may fail to start.
StartsHook(s) ==
  IF backend_in_use[s] = NoBackend \/ backend_cancel_started[s]
  THEN UNCHANGED <<backend_cancel_started, hook, hook_on, backend_cancel_done>>
  ELSE /\ backend_cancel_started' = Set(backend_cancel_started, s)
       /\ \/ /\ hook' = [hook EXCEPT ![s] = "running"]
             /\ hook_on' = [hook_on EXCEPT ![s] = backend_in_use[s]]
             /\ UNCHANGED backend_cancel_done
          \/ /\ backend_cancel_done' = Set(backend_cancel_done, s)
             /\ UNCHANGED <<hook, hook_on>>

\* Mutant: the worker does not look at cancel_event after acquire.
CheckCancelledSkipped(s) ==
  /\ pc[s] = "leased"
  /\ Goto(s, "running")
  /\ UNCHANGED <<poolVars, backend, backend_in_use, cancelVars,
                 backend_cancel_timed_out, cleanupVars>>

\* "if cancel_event.is_set(): cancel_worker()", then the session runs.
CheckCancelled(s) ==
  /\ pc[s] = "leased"
  /\ IF cancel_event[s] THEN StartsHook(s)
     ELSE UNCHANGED <<backend_cancel_started, hook, hook_on,
                      backend_cancel_done>>
  /\ Goto(s, "running")
  /\ UNCHANGED <<poolVars, backend, backend_in_use, cancelling, cancel_event,
                 backend_cancel_finished, backend_cancel_timed_out, cleanupVars,
                 late>>

\* The session ended, failed or noticed the cancellation: the finally block
\* looks whether a hook has started.
Finally(s) ==
  /\ pc[s] = "running"
  /\ Goto(s, IF backend_cancel_started[s] THEN "waiting" ELSE "handing")
  /\ UNCHANGED <<poolVars, backend, backend_in_use, cancelVars,
                 backend_cancel_timed_out, cleanupVars>>

\* Mutant: the result of the wait is ignored.
HookWaitedIgnored(s) ==
  /\ pc[s] = "waiting"
  /\ Goto(s, "handing")
  /\ UNCHANGED <<poolVars, backend, backend_in_use, cancelVars,
                 backend_cancel_timed_out, cleanupVars>>

\* Mutant: the wait has no timeout.
HookWaitedForEver(s) == backend_cancel_done[s] /\ HookWaitedIgnored(s)

\* backend_cancel_done.wait(timeout)
HookWaited(s) ==
  /\ pc[s] = "waiting"
  /\ backend_cancel_timed_out' =
       [backend_cancel_timed_out EXCEPT ![s] = ~backend_cancel_done[s]]
  /\ Goto(s, "handing")
  /\ UNCHANGED <<poolVars, backend, backend_in_use, cancelVars, cleanupVars>>

HandOver(s) ==
  /\ pc[s] = "handing"
  /\ backend_in_use' = [backend_in_use EXCEPT ![s] = NoBackend]
  /\ Goto(s, "gone")

ReleaseBackend(s) ==
  /\ HandOver(s) /\ ~backend_cancel_timed_out[s]
  /\ idle' = idle \cup {backend[s]}
  /\ UNCHANGED <<closing, closed, backend, cancelVars, backend_cancel_timed_out,
                 cleanupVars>>

\* A backend that keeps session hints is discarded, on a cleanup thread.
DiscardBackend(s) ==
  /\ HandOver(s) /\ ~backend_cancel_timed_out[s]
  /\ closing' = closing \cup {<<backend[s], <<s, "cleanup">>>>}
  /\ UNCHANGED <<idle, closed, backend, cancelVars, backend_cancel_timed_out,
                 cleanupVars>>

\* Quarantine: the hook closes it when it returns, or has just returned.
DetachBackend(s) ==
  /\ HandOver(s) /\ backend_cancel_timed_out[s]
  /\ backend_cleanup_requested' = Set(backend_cleanup_requested, s)
  /\ IF backend_cancel_finished[s] /\ ~backend_cleanup_started[s]
     THEN /\ backend_cleanup_started' = Set(backend_cleanup_started, s)
          /\ closing' = closing \cup {<<backend[s], <<s, "cleanup">>>>}
     ELSE UNCHANGED <<backend_cleanup_started, closing>>
  /\ UNCHANGED <<idle, closed, backend, cancelVars, backend_cancel_timed_out>>

-----------------------------------------------------------------------------
(* The handler: cancel_worker, at any time and as often as it likes.       *)

CancelSets(s) ==
  /\ ~cancelling[s] /\ ~(cancel_event[s] /\ backend_cancel_started[s])
  /\ cancelling' = Set(cancelling, s)
  /\ cancel_event' = Set(cancel_event, s)
  /\ UNCHANGED <<poolVars, pc, backend, backend_in_use, backend_cancel_started,
                 hook, hook_on, backend_cancel_done, backend_cancel_finished,
                 backend_cancel_timed_out, cleanupVars, late>>

\* Nothing keeps the handler from the lock between the two regions of the
\* finally block: the worker then hands over without having waited.
CancelLocks(s) ==
  /\ cancelling[s]
  /\ cancelling' = [cancelling EXCEPT ![s] = FALSE]
  /\ StartsHook(s)
  /\ late' = IF pc[s] = "handing" /\ ~backend_cancel_started[s]
             THEN late \cup {s} ELSE late
  /\ UNCHANGED <<poolVars, pc, backend, backend_in_use, cancel_event,
                 backend_cancel_finished, backend_cancel_timed_out, cleanupVars>>

-----------------------------------------------------------------------------
(* The thread that runs the hook: backend.cancel(), then the finally block *)
(* under the state lock, then the cleanup if that falls to it.             *)

\* Mutant: the hook's thread leaves the cleanup to the worker.
HookReturnsOnly(s) ==
  /\ hook[s] = "running"
  /\ hook' = [hook EXCEPT ![s] = "returning"]
  /\ backend_cancel_finished' = Set(backend_cancel_finished, s)
  /\ UNCHANGED <<poolVars, pc, backend, backend_in_use, cancelling,
                 cancel_event, backend_cancel_started, hook_on,
                 backend_cancel_done, backend_cancel_timed_out, cleanupVars,
                 late>>

HookReturns(s) ==
  /\ hook[s] = "running"
  /\ hook' = [hook EXCEPT ![s] = "returning"]
  /\ backend_cancel_finished' = Set(backend_cancel_finished, s)
  /\ IF backend_cleanup_requested[s] /\ ~backend_cleanup_started[s]
     THEN /\ backend_cleanup_started' = Set(backend_cleanup_started, s)
          /\ closing' = closing \cup {<<hook_on[s], <<s, "hook">>>>}
     ELSE UNCHANGED <<backend_cleanup_started, closing>>
  /\ UNCHANGED <<idle, closed, pc, backend, backend_in_use, cancelling,
                 cancel_event, backend_cancel_started, hook_on,
                 backend_cancel_done, backend_cancel_timed_out,
                 backend_cleanup_requested, late>>

HookSignals(s) ==
  /\ hook[s] = "returning"
  /\ hook' = [hook EXCEPT ![s] = "over"]
  /\ backend_cancel_done' = Set(backend_cancel_done, s)
  /\ UNCHANGED <<poolVars, pc, backend, backend_in_use, cancelling,
                 cancel_event, backend_cancel_started, hook_on,
                 backend_cancel_finished, backend_cancel_timed_out, cleanupVars,
                 late>>

\* close() of a quarantined or discarded backend returns.
CloseReturns(s, b) ==
  /\ \E by \in {"hook", "cleanup"} :
       /\ <<b, <<s, by>>>> \in closing
       /\ by = "hook" => hook[s] = "over"
       /\ closing' = closing \ {<<b, <<s, by>>>>}
  /\ closed' = closed \cup {b}
  /\ UNCHANGED <<idle, pc, backend, backend_in_use, cancelVars,
                 backend_cancel_timed_out, cleanupVars>>

-----------------------------------------------------------------------------
Worker(s) ==
  \/ \E b \in Backends : AcquireIdle(s, b)
  \/ \E b \in Backends : Create(s, b)
  \/ AcquireRaises(s)
  \/ TakeSlot(s)
  \/ WarmupPasses(s)
  \/ WarmupFails(s)
  \/ FailedLoadCloses(s)
  \/ UseBackend(s)
  \/ CheckCancelled(s)
  \/ Finally(s)
  \/ HookWaited(s)
  \/ ReleaseBackend(s)
  \/ DiscardBackend(s)
  \/ DetachBackend(s)

Handler(s) == CancelSets(s) \/ CancelLocks(s)

Cleanup(s) == HookSignals(s) \/ \E b \in Backends : CloseReturns(s, b)

Next == \E s \in Sessions :
  Worker(s) \/ Handler(s) \/ HookReturns(s) \/ Cleanup(s)

Spec == Init /\ [][Next]_vars

(***************************************************************************)
(* Fairness.  Threads run: a worker never stops between its steps (the     *)
(* wait for the hook has a timeout), a started close returns.  A hook is   *)
(* foreign code and may block for ever: only HooksReturn assumes it will   *)
(* not.  Nothing makes a handler cancel.                                   *)
(***************************************************************************)
Fairness == \A s \in Sessions : WF_vars(Worker(s)) /\ WF_vars(Cleanup(s))
FairSpec == Spec /\ Fairness
HooksReturn == \A s \in Sessions : WF_vars(HookReturns(s))
-----------------------------------------------------------------------------
\* The hook of s acts on an instance the pool may lease, or has leased again.
OnForeignBackend(s) ==
  /\ hook[s] = "running"
  /\ \/ hook_on[s] \in idle
     \/ \E t \in Sessions \ {s} : Holding(t) /\ backend[t] = hook_on[s]

\* "A backend must not return to the reusable pool while its cancellation hook
\* is still mutating or stopping it", as the finally block says of itself.
\* This fails: a cancel may start the hook after the look and before the lease
\* lock is taken again, and the instance is released under the hook.
NoHookOnReleased == \A s \in Sessions : ~OnForeignBackend(s)

\* That window is the only one.  A hook that was started before the look, by
\* the handler or by the worker, never acts on an instance another session may
\* use, however late it returns and whoever is cancelled besides.
HookOnOwnBackend == \A s \in Sessions : OnForeignBackend(s) => s \in late

\* The same of every close(), that of an instance that failed its warmup
\* included.  A cancel during the warmup refutes it.
NoCloseUnderHook ==
  \A s \in Sessions : hook[s] = "running" =>
    \A p \in closing : p[1] # hook_on[s]

\* An instance is closed once, though the worker, the thread of the hook and a
\* cleanup thread may each find that it is theirs to close.
ClosedOnce ==
  \A p \in closing :
    /\ p[1] \notin closed
    /\ \A q \in closing : q[1] = p[1] => q = p

\* A cancellation is never lost between the handler, that may find no backend
\* yet, and the worker, that may not see the event yet.
NoLostCancel ==
  \A s \in Sessions :
    pc[s] = "running" /\ cancel_event[s] /\ ~cancelling[s] =>
      backend_cancel_started[s]

\* "A permanently blocked hook must not pin the reusable slot or worker."
WorkerFinishes == \A s \in Sessions : pc[s] # "acquiring" ~> pc[s] = "gone"

\* A quarantined backend is closed in the end, if its hook returns at all.
QuarantineCloses ==
  HooksReturn =>
    \A s \in Sessions : backend_cleanup_requested[s] ~> backend[s] \in closed

-----------------------------------------------------------------------------
(* The inductive invariant *)

\* A worker's local variable, what the hook may be called on, and the phase.
InUse ==
  \A s \in Sessions :
    /\ pc[s] \in {"acquiring", "creating"} => backend[s] = NoBackend
    /\ pc[s] \in {"warming", "failing", "acquired", "leased", "running",
                  "waiting", "handing"} => backend[s] # NoBackend
    /\ pc[s] \in {"leased", "running", "waiting", "handing"} =>
         backend_in_use[s] = backend[s]
    /\ backend_in_use[s] # NoBackend =>
         Holding(s) /\ backend_in_use[s] = backend[s]

\* An instance in the pool, or leased, is not being closed nor closed ...
Usable(b) == b \notin closed /\ \A p \in closing : p[1] # b

\* ... and has one holder: the pool, or one worker.
OneHolder ==
  /\ \A b \in idle : Usable(b)
  /\ \A s \in Sessions : Holding(s) /\ backend[s] # NoBackend =>
       /\ Usable(backend[s]) /\ backend[s] \notin idle
       /\ \A t \in Sessions \ {s} : Holding(t) => backend[t] # backend[s]
  /\ \A s \in Sessions : pc[s] = "failing" =>
       <<backend[s], <<s, "worker">>>> \in closing

\* The hook, its thread's flags, and the instance it was started on.
HookFlags ==
  \A s \in Sessions :
    /\ hook[s] # "none" => /\ backend_cancel_started[s]
                           /\ hook_on[s] = backend[s] /\ backend[s] # NoBackend
    /\ hook[s] \in {"running", "returning"} => ~backend_cancel_done[s]
    /\ backend_cancel_done[s] => backend_cancel_started[s]

\* A worker that hands its backend back knows what became of the hook.
WaitedForHook ==
  \A s \in Sessions :
    /\ pc[s] = "waiting" => backend_cancel_started[s]
    /\ pc[s] = "handing" /\ backend_cancel_started[s] =>
         backend_cancel_done[s] \/ backend_cancel_timed_out[s] \/ s \in late
    /\ backend_cancel_timed_out[s] => backend_cancel_started[s] /\ s \notin late
    /\ s \in late => pc[s] \in {"handing", "gone"}

\* A quarantined instance waits for its own hook, and nobody closes it before.
Quarantined ==
  \A s \in Sessions :
    /\ backend_cleanup_requested[s] => pc[s] = "gone" /\ s \notin late
    /\ backend_cancel_finished[s] => hook[s] \in {"returning", "over"}
    /\ hook[s] = "running" /\ backend_cleanup_requested[s] => Usable(hook_on[s])
    /\ \A t \in Sessions \ {s} :
         hook[s] = "running" /\ hook[t] = "running" /\ {s, t} \cap late = {} =>
           hook_on[s] # hook_on[t]

IInv ==
  /\ TypeOK
  /\ InUse
  /\ OneHolder
  /\ HookFlags
  /\ WaitedForHook
  /\ HookOnOwnBackend
  /\ Quarantined
  /\ ClosedOnce

=============================================================================
