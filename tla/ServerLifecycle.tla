-------------------------- MODULE ServerLifecycle --------------------------
(***************************************************************************)
(* serve() from preload to shutdown: admission of connections, the phases  *)
(* of a handler that waits for its client, its worker and its sender, the  *)
(* expiry sweeper, and the shutdown that has to get rid of all of them.    *)
(*                                                                         *)
(* Everything but a worker is a task of one event loop: a step goes from   *)
(* one await to the next.  A worker is a thread that may stay in a backend *)
(* for ever.  The server library refuses new connections once it is asked  *)
(* to close, except those whose handshake is already answered.             *)
(***************************************************************************)
EXTENDS Integers, FiniteSets

CONSTANTS
  Connections,              \* clients, each with one connection at a time
  max_concurrent_sessions,
  preload                   \* models are loaded before the port is opened

ASSUME LifecycleAssumption ==
  /\ IsFiniteSet(Connections)
  /\ max_concurrent_sessions \in Nat \ {0}
  /\ preload \in BOOLEAN

VARIABLES
  server,           \* where serve() is
  shutdown_event,
  sweeper,          \* the task of sweep_recovery_sessions
  task,             \* [connection -> where its handler task is]
  peer_open,        \* connections whose peer has not been told to go away
  cancelled,        \* handler tasks with a cancellation to raise
  workers,          \* connections with a live worker thread
  active_sessions,
  peers,            \* snapshot of active_connections close_server still closes
  stores_open       \* backend pool and recovery store

lifecycleVars == <<server, shutdown_event, sweeper, task, peer_open, cancelled, workers,
          active_sessions, peers, stores_open>>

\* A task of a connection that was never answered, or whose handler returned,
\* is "none".  In session_handler it waits for the start message, for its
\* worker, for messages, for its sender, and for the worker's thread.
Waits == {"starting", "initializing", "serving", "finalizing"}
Admitted == Waits \cup {"joining", "left"}
Phases == {"none", "upgrading", "arrived", "refused"} \cup Admitted
handler_tasks == {c \in Connections : task[c] \notin {"none", "upgrading"}}
active_connections == handler_tasks

LifecycleTypeOK ==
  /\ server \in {"preloading", "listening", "unsweeping", "closing",
                 "cancelling", "closed", "stopped", "raised"}
  /\ shutdown_event \in BOOLEAN
  /\ sweeper \in {"none", "running", "failed"}
  /\ task \in [Connections -> Phases]
  /\ peer_open \subseteq Connections /\ cancelled \subseteq Connections
  /\ workers \subseteq Connections /\ peers \subseteq Connections
  /\ active_sessions \in Nat
  /\ stores_open \in BOOLEAN

LifecycleInit ==
  /\ server = "preloading"
  /\ shutdown_event = FALSE
  /\ sweeper = "none"
  /\ task = [c \in Connections |-> "none"]
  /\ peer_open = {} /\ cancelled = {} /\ workers = {}
  /\ active_sessions = 0
  /\ peers = {}
  /\ stores_open = TRUE

-----------------------------------------------------------------------------
(* The connections.  Goes moves the handler of c, from one phase on.       *)

Goes(c, from, to) == task[c] = from /\ task' = [task EXCEPT ![c] = to]

serveVars == <<server, shutdown_event, sweeper, peers, stores_open>>

\* The handshake is answered: nothing refuses the connection any more.  (A
\* client is a connection's number, taken again once its thread has gone.)
Connect(c) ==
  /\ server \in {"listening", "unsweeping"}
  /\ c \notin workers
  /\ Goes(c, "none", "upgrading")
  /\ peer_open' = peer_open \cup {c}
  /\ UNCHANGED <<serveVars, cancelled, workers, active_sessions>>

\* handler starts and registers its task and its connection.
Arrive(c) ==
  /\ Goes(c, "upgrading", "arrived")
  /\ UNCHANGED <<serveVars, peer_open, cancelled, workers, active_sessions>>

\* Mutant: compared with one too many.
AtCapacityPlusOne == active_sessions > max_concurrent_sessions

AtCapacity == active_sessions >= max_concurrent_sessions

\* Under active_session_lock.
Admit(c) ==
  /\ c \notin cancelled /\ ~AtCapacity
  /\ Goes(c, "arrived", "starting")
  /\ active_sessions' = active_sessions + 1
  /\ UNCHANGED <<serveVars, peer_open, cancelled, workers>>

Refuse(c) ==
  /\ c \notin cancelled /\ AtCapacity
  /\ Goes(c, "arrived", "refused")
  /\ UNCHANGED <<serveVars, peer_open, cancelled, workers, active_sessions>>

\* The start message is valid and the recovery session opened: the worker
\* starts, and is waited for at most initialization_timeout.
StartWorker(c) ==
  /\ c \notin cancelled /\ c \in peer_open
  /\ Goes(c, "starting", "initializing")
  /\ workers' = workers \cup {c}
  /\ UNCHANGED <<serveVars, peer_open, cancelled, active_sessions>>

\* "ready" is sent and audio received.
Initialized(c) ==
  /\ c \notin cancelled /\ c \in peer_open
  /\ Goes(c, "initializing", "serving")
  /\ UNCHANGED <<serveVars, peer_open, cancelled, workers, active_sessions>>

\* "end": the sender is waited for at most finalization_timeout.
End(c) ==
  /\ c \notin cancelled /\ c \in peer_open
  /\ Goes(c, "serving", "finalizing")
  /\ UNCHANGED <<serveVars, peer_open, cancelled, workers, active_sessions>>

\* Every way out of session_handler leads through its finally: a result, an
\* error, a timeout, a peer that is gone, or a cancellation.  The worker is
\* told to stop and joined for at most worker_shutdown_timeout.
Leave(c) ==
  /\ task[c] \in Waits
  /\ Goes(c, task[c], IF c \in workers THEN "joining" ELSE "left")
  /\ cancelled' = cancelled \ {c}
  /\ UNCHANGED <<serveVars, peer_open, workers, active_sessions>>

\* The join ends: the thread has, or it has timed out, or the task is cancelled
\* meanwhile.
Joined(c) ==
  /\ Goes(c, "joining", "left")
  /\ cancelled' = cancelled \ {c}
  /\ UNCHANGED <<serveVars, peer_open, workers, active_sessions>>

\* handler's own finally: an admitted session gives its slot back.
Done(c) ==
  /\ \/ task[c] \in {"refused", "left"}
     \/ task[c] = "arrived" /\ c \in cancelled
  /\ task' = [task EXCEPT ![c] = "none"]
  /\ active_sessions' = IF task[c] = "left" THEN active_sessions - 1
                        ELSE active_sessions
  /\ peer_open' = peer_open \ {c} /\ cancelled' = cancelled \ {c}
  /\ UNCHANGED <<serveVars, workers>>

\* A wait that ends whatever the client does: it was cancelled, its peer was
\* told to go away, or it is not the client that it waits for.
MustLeave(c) ==
  /\ \/ c \in cancelled
     \/ c \notin peer_open
     \/ task[c] \in {"starting", "initializing", "finalizing"}
  /\ Leave(c)

\* A worker leaves its backend when it is done, or some time after it was told
\* to stop.
WorkerExits(c) ==
  /\ c \in workers
  /\ workers' = workers \ {c}
  /\ UNCHANGED <<serveVars, task, peer_open, cancelled, active_sessions>>

-----------------------------------------------------------------------------
(* serve()                                                                 *)

loopVars == <<task, peer_open, cancelled, workers, active_sessions>>

\* SIGTERM, at any time.
RequestShutdown ==
  /\ ~shutdown_event
  /\ shutdown_event' = TRUE
  /\ UNCHANGED <<server, sweeper, peers, stores_open, loopVars>>

\* Loading the replicas fails: pool and store are closed, the error raised.
PreloadFails ==
  /\ preload /\ server = "preloading"
  /\ server' = "raised" /\ stores_open' = FALSE
  /\ UNCHANGED <<shutdown_event, sweeper, peers, loopVars>>

\* The port is opened, unless shutdown was requested while models were loaded.
Listen ==
  /\ server = "preloading"
  /\ IF shutdown_event
     THEN server' = "closed" /\ UNCHANGED sweeper
     ELSE server' = "listening" /\ sweeper' = "running"
  /\ UNCHANGED <<shutdown_event, peers, stores_open, loopVars>>

\* prune_expired cannot close a timeline: the exception ends the task, and
\* nobody looks at it before the shutdown.
SweeperFails ==
  /\ server = "listening" /\ sweeper = "running"
  /\ sweeper' = "failed"
  /\ UNCHANGED <<server, shutdown_event, peers, stores_open, loopVars>>

\* The sweeper is cancelled, and awaited; clients still get in.
StopSweeper ==
  /\ server = "listening" /\ shutdown_event
  /\ server' = "unsweeping"
  /\ UNCHANGED <<shutdown_event, sweeper, peers, stores_open, loopVars>>

\* Its cancellation is expected; an earlier failure is raised, out of the
\* finally block, which then closes nothing.
SweeperAwaited ==
  /\ server = "unsweeping"
  /\ IF sweeper = "failed"
     THEN server' = "raised" /\ UNCHANGED <<sweeper, peers>>
     ELSE /\ server' = "closing" /\ sweeper' = "none"
          /\ peers' = active_connections
  /\ UNCHANGED <<shutdown_event, stores_open, loopVars>>

\* close_server tells its peers to go away.
ClosePeer(c) ==
  /\ server = "closing" /\ c \in peers
  /\ peers' = peers \ {c}
  /\ peer_open' = peer_open \ {c}
  /\ UNCHANGED <<server, shutdown_event, sweeper, stores_open, task, cancelled,
                 workers, active_sessions>>

AllGone == \A c \in Connections : task[c] = "none"

\* wait_closed returns within the grace period.
ServerCloses ==
  /\ server = "closing" /\ peers = {} /\ AllGone
  /\ server' = "closed"
  /\ UNCHANGED <<shutdown_event, sweeper, peers, stores_open, loopVars>>

\* Mutant: the handlers are not cancelled.
GraceExpiresQuietly ==
  /\ server = "closing" /\ ~AllGone
  /\ server' = "cancelling"
  /\ peers' = {}
  /\ UNCHANGED <<shutdown_event, sweeper, stores_open, loopVars>>

\* shutdown_grace_timeout, longer than a handshake: every handler there is gets
\* cancelled.
GraceExpires ==
  /\ server = "closing" /\ ~AllGone
  /\ \A c \in Connections : task[c] # "upgrading"
  /\ server' = "cancelling"
  /\ peers' = {}
  /\ cancelled' = cancelled \cup handler_tasks
  /\ UNCHANGED <<shutdown_event, sweeper, stores_open, task, peer_open, workers,
                 active_sessions>>

\* Mutant: the handlers are cancelled but not waited for.
HandlersGatheredAtOnce ==
  /\ server = "cancelling"
  /\ server' = "closed"
  /\ UNCHANGED <<shutdown_event, sweeper, peers, stores_open, loopVars>>

\* gather, then wait_closed for connections that came after.
HandlersGathered ==
  /\ server = "cancelling" /\ AllGone
  /\ server' = "closed"
  /\ UNCHANGED <<shutdown_event, sweeper, peers, stores_open, loopVars>>

CloseStores ==
  /\ server = "closed"
  /\ server' = "stopped" /\ stores_open' = FALSE
  /\ UNCHANGED <<shutdown_event, sweeper, peers, loopVars>>

-----------------------------------------------------------------------------
HandlerTask(c) ==
  \/ Connect(c)
  \/ Arrive(c)
  \/ Admit(c)
  \/ Refuse(c)
  \/ StartWorker(c)
  \/ Initialized(c)
  \/ End(c)
  \/ Leave(c)
  \/ Joined(c)
  \/ Done(c)

Serve ==
  \/ RequestShutdown
  \/ PreloadFails
  \/ Listen
  \/ SweeperFails
  \/ StopSweeper
  \/ SweeperAwaited
  \/ ServerCloses
  \/ GraceExpires
  \/ HandlersGathered
  \/ CloseStores

LifecycleNext ==
  \/ \E c \in Connections : HandlerTask(c) \/ ClosePeer(c) \/ WorkerExits(c)
  \/ Serve

\* The event loop is fair to its tasks, and every wait but the one for messages
\* has a timeout.  Nothing is assumed of the workers nor of the clients.
LifecycleFairness ==
  /\ \A c \in Connections :
       /\ WF_lifecycleVars(Arrive(c)) /\ WF_lifecycleVars(Admit(c) \/ Refuse(c))
       /\ WF_lifecycleVars(MustLeave(c)) /\ WF_lifecycleVars(Joined(c)) /\ WF_lifecycleVars(Done(c))
       /\ WF_lifecycleVars(ClosePeer(c))
  /\ WF_lifecycleVars(Listen) /\ WF_lifecycleVars(StopSweeper) /\ WF_lifecycleVars(SweeperAwaited)
  /\ WF_lifecycleVars(ServerCloses) /\ WF_lifecycleVars(GraceExpires)
  /\ WF_lifecycleVars(HandlersGathered) /\ WF_lifecycleVars(CloseStores)

LifecycleSpec == LifecycleInit /\ [][LifecycleNext]_lifecycleVars /\ LifecycleFairness

-----------------------------------------------------------------------------
\* A slot is taken for each admitted session and given back exactly once, on
\* every way out, a cancellation in any phase included; never more than allowed.
SlotPerSession ==
  /\ active_sessions = Cardinality({c \in Connections : task[c] \in Admitted})
  /\ active_sessions <= max_concurrent_sessions

\* Pool and store are closed only when no handler is left to use them.
NoHandlerAfterClose == ~stores_open => AllGone

\* "handlers still running afterwards are cancelled before model pools and
\* recovery audio are closed": serve() returns with every handler gone, pool and
\* store closed.
ShutDown == server \in {"stopped", "raised"} /\ AllGone /\ ~stores_open

\* A requested shutdown leads there whatever workers and clients do.  It does
\* not once the sweeper has failed: serve() then raises before it closes the
\* server, with handlers and stores as they are.
ShutdownCloses == shutdown_event ~> ShutDown \/ sweeper = "failed"

=============================================================================
