---------------------------- MODULE BackendPool ----------------------------
(***************************************************************************)
(* turnalign.model_pool.BackendPool: the bounded pool of speech models     *)
(* that the worker threads of concurrent WebSocket sessions share.         *)
(*                                                                         *)
(* Every region the code runs under `self._condition` is one action; every *)
(* call it makes outside that lock (the factory that loads a model, the    *)
(* close of an evicted, late, discarded or shut-down model) is an action   *)
(* of its own, so threads interleave exactly where the lock lets them.     *)
(*                                                                         *)
(* A slot key is "<config key>#<n>": here a pair <<config, id>>.  Ids are  *)
(* drawn fresh; the code never reuses n, the model reuses an id once       *)
(* nothing refers to it any more.  A slot sees one factory call, so its    *)
(* key also names the backend instance that call built.                    *)
(***************************************************************************)
EXTENDS Naturals, FiniteSets

CONSTANTS
  Workers,              \* worker threads, each running one session at a time
  Configs,              \* values of BackendPool.key(name, config)
  Ids,                  \* slot numbers
  max_entries,          \* BackendPool(max_entries, max_entries_per_key)
  max_entries_per_key,
  NoSlot

Slots == Configs \X Ids

ASSUME PoolAssumption ==
  /\ max_entries \in Nat \ {0}
  /\ max_entries_per_key \in Nat \ {0}
  /\ max_entries_per_key <= max_entries
  /\ NoSlot \notin Slots

VARIABLES
  entries,    \* keys of self._entries
  busy,       \* entries with entry.busy
  loading,    \* entries with entry.loading (entry.backend is still None)
  older,      \* <<e, f>>: idle entry e has an earlier last_used than idle f
  closed,     \* self._closed
  shutdown,   \* idle backends close() has detached and not yet closed
  abandoned,  \* leased backends that close() detached without closing
  open,       \* backends some factory returned and nobody closed
  pc,         \* where each worker thread is
  want,       \* config_key of the worker's acquire
  slot,       \* the slot it created or leased
  victim,     \* the backend it evicted and has yet to close
  cancelled   \* its session's cancel_event

poolVars == <<entries, busy, loading, older, closed>>
vars == <<entries, busy, loading, older, closed, shutdown, abandoned, open,
          pc, want, slot, victim, cancelled>>

PC == {"idle", "acquiring", "evicting", "creating", "publishing", "late",
       "leased", "detached"}

TypeOK ==
  /\ entries \subseteq Slots
  /\ busy \subseteq entries
  /\ loading \subseteq busy
  /\ older \subseteq Slots \X Slots
  /\ closed \in BOOLEAN
  /\ shutdown \subseteq Slots
  /\ abandoned \subseteq Slots
  /\ open \subseteq Slots
  /\ pc \in [Workers -> PC]
  /\ want \in [Workers -> Configs]
  /\ slot \in [Workers -> Slots \cup {NoSlot}]
  /\ victim \in [Workers -> Slots \cup {NoSlot}]
  /\ cancelled \in [Workers -> BOOLEAN]

Init ==
  /\ entries = {} /\ busy = {} /\ loading = {} /\ older = {}
  /\ closed = FALSE
  /\ shutdown = {} /\ abandoned = {} /\ open = {}
  /\ pc = [w \in Workers |-> "idle"]
  /\ want \in [Workers -> Configs]
  /\ slot = [w \in Workers |-> NoSlot]
  /\ victim = [w \in Workers |-> NoSlot]
  /\ cancelled = [w \in Workers |-> FALSE]

-----------------------------------------------------------------------------
\* Idle entries are the ones a waiter may lease and an eviction may take.
Idle == entries \ busy
Matching(c) == {e \in entries : e[1] = c}
\* Mutant: a slot is only skipped while its model loads, not while leased.
IdleMatchingIgnoresBusy(c) == Matching(c) \ loading

IdleMatching(c) == Matching(c) \cap Idle

\* Mutant: the entry in use is evicted, too.
LeastRecentlyUsedOfAll(e) ==
  /\ e \in entries \ loading
  /\ \A f \in Idle : <<f, e>> \notin older

\* `min(candidates, key=last_used)`: no other idle entry was used earlier.
LeastRecentlyUsed(e) ==
  /\ e \in Idle
  /\ \A f \in Idle : <<f, e>> \notin older

\* The order of last_used matters among idle entries only: an entry enters it
\* as the newest when it is released and leaves it when leased or evicted.
Forget(e) == {p \in older : p[1] # e /\ p[2] # e}

Fresh(s) ==
  /\ s \in Slots \ (entries \cup open \cup shutdown \cup abandoned)
  /\ \A w \in Workers : slot[w] # s /\ victim[w] # s

Goto(w, label) == pc' = [pc EXCEPT ![w] = label]

\* The worker's acquire raised or its lease ended: the thread exits and may
\* serve another session later.
Exit(w) ==
  /\ Goto(w, "idle")
  /\ slot' = [slot EXCEPT ![w] = NoSlot]
  /\ victim' = [victim EXCEPT ![w] = NoSlot]
  /\ cancelled' = [cancelled EXCEPT ![w] = FALSE]

-----------------------------------------------------------------------------
(* The session around the pool: it starts a worker and may cancel it.      *)

Begin(w, c) ==
  /\ pc[w] = "idle"
  /\ Goto(w, "acquiring")
  /\ want' = [want EXCEPT ![w] = c]
  /\ UNCHANGED <<poolVars, shutdown, abandoned, open, slot, victim, cancelled>>

Cancel(w) ==
  /\ pc[w] # "idle"
  /\ ~cancelled[w]
  /\ cancelled' = [cancelled EXCEPT ![w] = TRUE]
  /\ UNCHANGED <<poolVars, shutdown, abandoned, open, pc, want, slot, victim>>

-----------------------------------------------------------------------------
(* acquire, one turn of its `while True` under the condition.  A turn that *)
(* finds every matching slot taken waits 0.1 s: no action is enabled.      *)

AcquireRaisesClosed(w) ==
  /\ pc[w] = "acquiring"
  /\ closed
  /\ Exit(w)
  /\ UNCHANGED <<poolVars, shutdown, abandoned, open, want>>

\* Mutant: cancel_event is looked at only once a slot is free.
AcquireRaisesCancelledLate(w) ==
  /\ pc[w] = "acquiring"
  /\ ~closed /\ cancelled[w]
  /\ IdleMatching(want[w]) # {}
  /\ Exit(w)
  /\ UNCHANGED <<poolVars, shutdown, abandoned, open, want>>

AcquireRaisesCancelled(w) ==
  /\ pc[w] = "acquiring"
  /\ ~closed /\ cancelled[w]
  /\ Exit(w)
  /\ UNCHANGED <<poolVars, shutdown, abandoned, open, want>>

Admissible(w) == pc[w] = "acquiring" /\ ~closed /\ ~cancelled[w]

NeedsSlot(w) ==
  /\ Admissible(w)
  /\ IdleMatching(want[w]) = {}
  /\ Cardinality(Matching(want[w])) < max_entries_per_key

AcquireIdle(w, e) ==
  /\ Admissible(w)
  /\ e \in IdleMatching(want[w])
  /\ busy' = busy \cup {e}
  /\ older' = Forget(e)
  /\ slot' = [slot EXCEPT ![w] = e]
  /\ Goto(w, "leased")
  /\ UNCHANGED <<entries, loading, closed, shutdown, abandoned, open, want,
                 victim, cancelled>>

AcquireRaisesCapacity(w) ==
  /\ NeedsSlot(w)
  /\ Cardinality(entries) >= max_entries
  /\ Idle = {}
  /\ Exit(w)
  /\ UNCHANGED <<poolVars, shutdown, abandoned, open, want>>

AcquireCreates(w, s) ==
  /\ NeedsSlot(w)
  /\ Cardinality(entries) < max_entries
  /\ Fresh(s) /\ s[1] = want[w]
  /\ entries' = entries \cup {s}
  /\ busy' = busy \cup {s}
  /\ loading' = loading \cup {s}
  /\ slot' = [slot EXCEPT ![w] = s]
  /\ Goto(w, "creating")
  /\ UNCHANGED <<older, closed, shutdown, abandoned, open, want, victim,
                 cancelled>>

AcquireEvicts(w, e, s) ==
  /\ NeedsSlot(w)
  /\ Cardinality(entries) >= max_entries
  /\ LeastRecentlyUsed(e)
  /\ Fresh(s) /\ s[1] = want[w]
  /\ entries' = (entries \ {e}) \cup {s}
  /\ busy' = busy \cup {s}
  /\ loading' = loading \cup {s}
  /\ older' = Forget(e)
  /\ slot' = [slot EXCEPT ![w] = s]
  /\ victim' = [victim EXCEPT ![w] = e]
  /\ Goto(w, "evicting")
  /\ UNCHANGED <<closed, shutdown, abandoned, open, want, cancelled>>

-----------------------------------------------------------------------------
(* acquire, after the lock: close the evicted backend, run the factory,    *)
(* publish what it returned.                                               *)

CloseEvicted(w) ==
  /\ pc[w] = "evicting"
  /\ open' = open \ {victim[w]}
  /\ victim' = [victim EXCEPT ![w] = NoSlot]
  /\ Goto(w, "creating")
  /\ UNCHANGED <<poolVars, shutdown, abandoned, want, slot, cancelled>>

FactoryReturns(w) ==
  /\ pc[w] = "creating"
  /\ open' = open \cup {slot[w]}
  /\ Goto(w, "publishing")
  /\ UNCHANGED <<poolVars, shutdown, abandoned, want, slot, victim, cancelled>>

\* Mutant: the slot of a failed load stays in the pool.
FactoryRaisesKeepsSlot(w) ==
  /\ pc[w] = "creating"
  /\ Exit(w)
  /\ UNCHANGED <<poolVars, shutdown, abandoned, open, want>>

FactoryRaises(w) ==
  /\ pc[w] = "creating"
  /\ entries' = entries \ {slot[w]}
  /\ busy' = busy \ {slot[w]}
  /\ loading' = loading \ {slot[w]}
  /\ Exit(w)
  /\ UNCHANGED <<older, closed, shutdown, abandoned, open, want>>

\* Mutant: close() during the load goes unnoticed.
PublishUnchecked(w) ==
  /\ pc[w] = "publishing"
  /\ loading' = loading \ {slot[w]}
  /\ Goto(w, "leased")
  /\ UNCHANGED <<entries, busy, older, closed, shutdown, abandoned, open, want,
                 slot, victim, cancelled>>

Publish(w) ==
  /\ pc[w] = "publishing"
  /\ ~closed /\ slot[w] \in entries
  /\ loading' = loading \ {slot[w]}
  /\ Goto(w, "leased")
  /\ UNCHANGED <<entries, busy, older, closed, shutdown, abandoned, open, want,
                 slot, victim, cancelled>>

\* Mutant: the late model is refused but never closed.
PublishLateLeaks(w) ==
  /\ pc[w] = "publishing"
  /\ closed \/ slot[w] \notin entries
  /\ Exit(w)
  /\ UNCHANGED <<poolVars, shutdown, abandoned, open, want>>

PublishLate(w) ==
  /\ pc[w] = "publishing"
  /\ closed \/ slot[w] \notin entries
  /\ Goto(w, "late")
  /\ UNCHANGED <<poolVars, shutdown, abandoned, open, want, slot, victim,
                 cancelled>>

CloseLate(w) ==
  /\ pc[w] = "late"
  /\ open' = open \ {slot[w]}
  /\ Exit(w)
  /\ UNCHANGED <<poolVars, shutdown, abandoned, want>>

-----------------------------------------------------------------------------
(* The end of a lease: release, or detach (quarantine) and discard.        *)

Release(w) ==
  /\ pc[w] = "leased"
  /\ IF slot[w] \in entries
     THEN /\ busy' = busy \ {slot[w]}
          /\ older' = older \cup {<<e, slot[w]>> : e \in Idle}
     ELSE UNCHANGED <<busy, older>>
  /\ Exit(w)
  /\ UNCHANGED <<entries, loading, closed, shutdown, abandoned, open, want>>

\* detach returns the backend, or None when close() already took the entry.
Detach(w) ==
  /\ pc[w] = "leased"
  /\ entries' = entries \ {slot[w]}
  /\ busy' = busy \ {slot[w]}
  /\ IF slot[w] \in entries
     THEN Goto(w, "detached") /\ UNCHANGED <<slot, victim, cancelled>>
     ELSE Exit(w)
  /\ UNCHANGED <<loading, older, closed, shutdown, abandoned, open, want>>

\* discard closes at once or on a cleanup thread; a quarantined backend is
\* closed when its cancel hook returns.  All three are one later step.
CloseDetached(w) ==
  /\ pc[w] = "detached"
  /\ open' = open \ {slot[w]}
  /\ Exit(w)
  /\ UNCHANGED <<poolVars, shutdown, abandoned, want>>

-----------------------------------------------------------------------------
(* close: shutdown takes the idle backends and lets go of the leased ones. *)

\* Mutant: the entries are cleared before the idle backends are collected.
CloseForgetsIdle ==
  /\ ~closed
  /\ closed' = TRUE
  /\ shutdown' = {}
  /\ abandoned' = busy \ loading
  /\ entries' = {} /\ busy' = {} /\ loading' = {} /\ older' = {}
  /\ UNCHANGED <<open, pc, want, slot, victim, cancelled>>

Close ==
  /\ ~closed
  /\ closed' = TRUE
  /\ shutdown' = Idle
  /\ abandoned' = busy \ loading
  /\ entries' = {} /\ busy' = {} /\ loading' = {} /\ older' = {}
  /\ UNCHANGED <<open, pc, want, slot, victim, cancelled>>

CloseShutdown(s) ==
  /\ s \in shutdown
  /\ shutdown' = shutdown \ {s}
  /\ open' = open \ {s}
  /\ UNCHANGED <<poolVars, abandoned, pc, want, slot, victim, cancelled>>

-----------------------------------------------------------------------------
Acquire(w) ==
  \/ AcquireRaisesClosed(w)
  \/ AcquireRaisesCancelled(w)
  \/ AcquireRaisesCapacity(w)
  \/ \E e \in Slots : AcquireIdle(w, e)
  \/ \E s \in Slots : AcquireCreates(w, s)
  \/ \E e, s \in Slots : AcquireEvicts(w, e, s)

Load(w) ==
  \/ CloseEvicted(w)
  \/ FactoryReturns(w)
  \/ FactoryRaises(w)
  \/ Publish(w)
  \/ PublishLate(w)
  \/ CloseLate(w)

EndLease(w) == Release(w) \/ Detach(w) \/ CloseDetached(w)

Next ==
  \/ \E w \in Workers :
       \/ \E c \in Configs : Begin(w, c)
       \/ Cancel(w)
       \/ Acquire(w)
       \/ Load(w)
       \/ EndLease(w)
  \/ Close
  \/ \E s \in Slots : CloseShutdown(s)

(***************************************************************************)
(* Fairness.  A thread inside acquire wakes at least every 0.1 s and runs  *)
(* its turn; a load finishes or raises; a session ends.  Nothing makes a   *)
(* client arrive, a session cancel or the server shut down.                *)
(***************************************************************************)
Fairness ==
  /\ \A w \in Workers : WF_vars(Acquire(w)) /\ WF_vars(Load(w))
                                            /\ WF_vars(EndLease(w))
  /\ \A s \in Slots : WF_vars(CloseShutdown(s))

Spec == Init /\ [][Next]_vars
FairSpec == Spec /\ Fairness

-----------------------------------------------------------------------------
\* The workers that may be using, or are about to use, the backend in slot[w].
Holds(w) == pc[w] \in {"evicting", "creating", "publishing", "late", "leased",
                       "detached"}

\* No two threads ever own the same backend instance: models are not
\* thread-safe and keep session state ("serialize each unsafe instance").
ExclusiveLease ==
  \A v, w \in Workers : (v # w /\ Holds(v) /\ Holds(w)) => slot[v] # slot[w]

\* The pool never keeps more slots than configured, in total and per key,
\* counting the slots whose model is still loading.
PoolBounded ==
  /\ Cardinality(entries) <= max_entries
  /\ \A c \in Configs : Cardinality(Matching(c)) <= max_entries_per_key

\* A leased backend is never closed under its user by an eviction, by a
\* shutdown or by another session's cleanup.
LeasedBackendOpen == \A w \in Workers : pc[w] = "leased" => slot[w] \in open

\* Every slot marked busy belongs to a live thread that will free it: a failed
\* load or a cancelled wait never leaks a slot that later waiters count on.
NoOrphanSlot == \A e \in busy : \E w \in Workers : Holds(w) /\ slot[w] = e

\* Somebody will still use or close the backend s, or shutdown gave it up.
Kept(s) ==
  \/ s \in Idle \cup shutdown \cup abandoned
  \/ \E w \in Workers : Holds(w) /\ slot[w] = s
  \/ \E w \in Workers : pc[w] = "evicting" /\ victim[w] = s

\* Every model in memory is pooled, owned by a thread that will dispose of it,
\* being closed by shutdown, or one of the leases shutdown gave up on.
NoLeakedBackend == \A s \in open : Kept(s)

\* After close() no acquire succeeds, even one whose model was loading when
\* the pool closed.
NoLeaseAfterClose ==
  [][closed => \A w \in Workers : pc'[w] = "leased" => pc[w] = "leased"]_vars

\* A session cancelled while it waits for a slot leaves the wait, whatever the
\* other sessions do (the cancel check is inside the wait loop).
CancelledWaiterLeaves ==
  \A w \in Workers :
    (pc[w] = "acquiring" /\ cancelled[w]) ~> pc[w] # "acquiring"

\* After close() every model is closed in the end, except the leased ones the
\* pool gave up on.
ShutdownCloses == closed ~> (open \subseteq abandoned)
-----------------------------------------------------------------------------
(* The inductive invariant.  What the safety properties above need from     *)
(* the past is who may touch which backend: each slot has one owner, and    *)
(* pooled, evicted, shut-down and held backends never overlap.              *)

\* Threads whose slot is (until shutdown) a pool entry with no model yet.
Building(w) == pc[w] \in {"evicting", "creating", "publishing"}

OwnedSlots ==
  \A w \in Workers :
    /\ Holds(w) => slot[w] \in Slots \ (Idle \cup shutdown)
    /\ Building(w) /\ ~closed => slot[w] \in loading
    /\ pc[w] = "leased" => slot[w] \notin loading
    /\ pc[w] = "leased" /\ ~closed => slot[w] \in entries
    /\ pc[w] \in {"late", "detached"} => slot[w] \notin entries
    /\ pc[w] \in {"publishing", "late", "leased", "detached"}
         => slot[w] \in open
    /\ pc[w] \in {"evicting", "creating"} => slot[w] \notin open
    /\ pc[w] = "leased" /\ closed => slot[w] \in abandoned

EvictedBackends ==
  \A w \in Workers : pc[w] = "evicting" =>
    /\ victim[w] \in Slots \ (entries \cup shutdown)
    /\ \A v \in Workers : Holds(v) => slot[v] # victim[w]
    /\ \A v \in Workers : v # w /\ pc[v] = "evicting" => victim[v] # victim[w]

PooledBackends ==
  /\ Idle \cup shutdown \subseteq open
  /\ closed => entries = {}
  /\ ~closed => shutdown = {} /\ abandoned = {}

\* The strengthening that makes the safety properties inductive: TLC checks it
\* here and BackendPoolProofs proves it for every pool size and thread count.
IInv ==
  /\ TypeOK
  /\ ExclusiveLease
  /\ NoOrphanSlot
  /\ OwnedSlots
  /\ EvictedBackends
  /\ PooledBackends

=============================================================================
