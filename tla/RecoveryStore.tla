--------------------------- MODULE RecoveryStore ---------------------------
(***************************************************************************)
(* turnalign.recovery.RecoveryStore: which disconnected sessions the       *)
(* server keeps, who may write to them, and how much audio they hold.      *)
(*                                                                         *)
(* Each region under the store lock is one action, and so is the timeline  *)
(* append that append_audio performs between two of them.  The event log   *)
(* of one session is module RecoveryLog.                                   *)
(*                                                                         *)
(* The callers are the connections of server.session_handler: an asyncio   *)
(* handler that opens the session, appends audio and finally releases it,  *)
(* and the worker thread that releases it too when it stops.  Both hold a  *)
(* reference to the session object, whatever the store does with it.       *)
(***************************************************************************)
EXTENDS Integers, FiniteSets, FiniteSetsExt

CONSTANTS
  Sessions,                     \* RecoverySession objects
  Connections,                  \* concurrent WebSocket connections
  Sizes,                        \* byte counts of accepted chunks
  max_sessions,
  max_audio_bytes_per_session,
  max_total_audio_bytes,
  NoSession

ASSUME StoreAssumption ==
  /\ max_sessions \in Nat \ {0}
  /\ max_audio_bytes_per_session \in Nat \ {0}
  /\ max_total_audio_bytes \in Nat \ {0}
  /\ max_audio_bytes_per_session <= max_total_audio_bytes
  /\ Sizes \subseteq Nat \ {0}
  /\ NoSession \notin Sessions

VARIABLES
  sessions,     \* self._sessions
  active,       \* sessions with session.active
  completed,    \* sessions with session.completed
  older,        \* <<s, t>>: updated_at of inactive s is before that of t
  audio_bytes,  \* session.audio_bytes
  total,        \* self._audio_bytes
  closed,       \* self._closed
  files,        \* sessions whose timeline file is open
  doomed,       \* timelines some thread is about to close, outside the lock
  ref,          \* the recovery_session of a connection
  handler,      \* where the connection's handler is
  worker,       \* where its worker thread is
  done,         \* its session_completed flag
  pending,      \* bytes its append_audio has reserved
  taken         \* history: sessions that a handler released while another
                \* connection, which had resumed them, was using them

storeVars == <<sessions, active, completed, older, audio_bytes, total, closed,
               files, doomed>>
connVars == <<ref, handler, worker, done, pending, taken>>
vars == <<storeVars, connVars>>

HandlerPC == {"idle", "opened", "serving", "appending", "rollback", "closing",
              "left"}

TypeOK ==
  /\ sessions \subseteq Sessions
  /\ active \subseteq Sessions
  /\ completed \subseteq Sessions
  /\ older \subseteq Sessions \X Sessions
  /\ audio_bytes \in [Sessions -> Nat]
  /\ total \in Int
  /\ closed \in BOOLEAN
  /\ files \subseteq Sessions
  /\ doomed \subseteq Sessions
  /\ ref \in [Connections -> Sessions \cup {NoSession}]
  /\ handler \in [Connections -> HandlerPC]
  /\ worker \in [Connections -> {"none", "running", "released"}]
  /\ done \in [Connections -> BOOLEAN]
  /\ pending \in [Connections -> Nat]
  /\ taken \subseteq Sessions

Init ==
  /\ sessions = {} /\ active = {} /\ completed = {} /\ older = {}
  /\ audio_bytes = [s \in Sessions |-> 0]
  /\ total = 0
  /\ closed = FALSE
  /\ files = {} /\ doomed = {}
  /\ ref = [c \in Connections |-> NoSession]
  /\ handler = [c \in Connections |-> "idle"]
  /\ worker = [c \in Connections |-> "none"]
  /\ done = [c \in Connections |-> FALSE]
  /\ pending = [c \in Connections |-> 0]
  /\ taken = {}

-----------------------------------------------------------------------------
AtLeastZero(n) == IF n < 0 THEN 0 ELSE n

Inactive == sessions \ active

\* updated_at decides only which inactive session is oldest.  A session joins
\* that order as the newest and leaves it when resumed or removed.
Leave(S) == {p \in older : p[1] \notin S /\ p[2] \notin S}
Touch(s) == Leave({s}) \cup {<<t, s>> : t \in Inactive \ {s}}

\* Mutant: active sessions are candidates for eviction and expiry too.
OldestOfAll(s) == s \in sessions /\ \A t \in sessions : <<t, s>> \notin older

Oldest(s) == s \in Inactive /\ \A t \in Inactive : <<t, s>> \notin older

\* Fresh objects: uuid4 never repeats, so nothing may still refer to one.
Fresh(s) ==
  /\ s \in Sessions \ (sessions \cup doomed)
  /\ \A c \in Connections : ref[c] # s

Goto(c, label) == handler' = [handler EXCEPT ![c] = label]

\* The connections whose worker writes to the session, or is about to.
Using(c) == worker[c] = "running"
Live(c) == handler[c] = "opened" \/ Using(c)

-----------------------------------------------------------------------------
(* open *)

\* The part every new session shares: a fresh RecoverySession object, active,
\* with an empty timeline, handed to connection c.
NewSession(c, s) ==
  /\ handler[c] = "idle" /\ ~closed
  /\ Fresh(s)
  /\ active' = active \cup {s}
  /\ completed' = completed \ {s}
  /\ audio_bytes' = [audio_bytes EXCEPT ![s] = 0]
  /\ ref' = [ref EXCEPT ![c] = s]
  /\ done' = [done EXCEPT ![c] = FALSE]
  /\ taken' = taken \ {s}
  /\ Goto(c, "opened")
  /\ UNCHANGED <<closed, doomed, worker, pending>>

OpenNew(c, s) ==
  /\ Cardinality(sessions) < max_sessions
  /\ NewSession(c, s)
  /\ sessions' = sessions \cup {s}
  /\ files' = files \cup {s}
  /\ UNCHANGED <<older, total>>

\* _evict_if_needed removes the oldest inactive session e.  Without one, open
\* raises RecoveryCapacityError and changes nothing.
OpenEvicting(c, s, e) ==
  /\ Cardinality(sessions) >= max_sessions
  /\ Oldest(e)
  /\ NewSession(c, s)
  /\ sessions' = (sessions \ {e}) \cup {s}
  /\ files' = (files \ {e}) \cup {s}
  /\ total' = total - audio_bytes[e]
  /\ older' = Leave({e})

\* Mutant: the active flag is not checked.
ResumeActive(c, s) ==
  /\ handler[c] = "idle" /\ ~closed
  /\ s \in sessions \ completed
  /\ active' = active \cup {s}
  /\ older' = Leave({s})
  /\ ref' = [ref EXCEPT ![c] = s]
  /\ done' = [done EXCEPT ![c] = FALSE]
  /\ Goto(c, "opened")
  /\ UNCHANGED <<sessions, completed, audio_bytes, total, closed, files,
                 doomed, worker, pending, taken>>

\* A resume with the right token and configuration.  An unknown or completed
\* session, or one still active, is refused and nothing changes.
Resume(c, s) ==
  /\ handler[c] = "idle" /\ ~closed
  /\ s \in Inactive \ completed
  /\ active' = active \cup {s}
  /\ older' = Leave({s})
  /\ ref' = [ref EXCEPT ![c] = s]
  /\ done' = [done EXCEPT ![c] = FALSE]
  /\ Goto(c, "opened")
  /\ UNCHANGED <<sessions, completed, audio_bytes, total, closed, files,
                 doomed, worker, pending, taken>>

StartWorker(c) ==
  /\ handler[c] = "opened"
  /\ worker' = [worker EXCEPT ![c] = "running"]
  /\ Goto(c, "serving")
  /\ UNCHANGED <<storeVars, ref, done, pending, taken>>

-----------------------------------------------------------------------------
(* append_audio: reserve under the store lock, append to the timeline      *)
(* under the session lock, roll the reservation back when that raises.     *)

HasRoom(s, n) ==
  /\ audio_bytes[s] + n <= max_audio_bytes_per_session
  /\ total + n <= max_total_audio_bytes

ReserveAudio(c, n) ==
  /\ handler[c] = "serving"
  /\ ~closed /\ HasRoom(ref[c], n)
  /\ audio_bytes' = [audio_bytes EXCEPT ![ref[c]] = @ + n]
  /\ total' = total + n
  /\ pending' = [pending EXCEPT ![c] = n]
  /\ Goto(c, "appending")
  /\ UNCHANGED <<sessions, active, completed, older, closed, files, doomed,
                 ref, worker, done, taken>>

\* RecoveryCapacityError or "recovery store is closed" ends the connection.
ReserveRaises(c, n) ==
  /\ handler[c] = "serving"
  /\ closed \/ ~HasRoom(ref[c], n)
  /\ Goto(c, "closing")
  /\ UNCHANGED <<storeVars, ref, worker, done, pending, taken>>

AppendTimeline(c) ==
  /\ handler[c] = "appending"
  /\ ref[c] \in files
  /\ older' = IF ref[c] \in Inactive THEN Touch(ref[c]) ELSE older
  /\ pending' = [pending EXCEPT ![c] = 0]
  /\ Goto(c, "serving")
  /\ UNCHANGED <<sessions, active, completed, audio_bytes, total, closed,
                 files, doomed, ref, worker, done, taken>>

\* The timeline is closed, or the disk write failed and was truncated away.
AppendRaises(c) ==
  /\ handler[c] = "appending"
  /\ Goto(c, "rollback")
  /\ UNCHANGED <<storeVars, ref, worker, done, pending, taken>>

\* Mutant: the reservation is taken back even after release zeroed it.
RollBackAudioTwice(c) ==
  /\ handler[c] = "rollback"
  /\ audio_bytes' = [audio_bytes EXCEPT ![ref[c]] = @ - pending[c]]
  /\ total' = AtLeastZero(total - pending[c])
  /\ pending' = [pending EXCEPT ![c] = 0]
  /\ Goto(c, "closing")
  /\ UNCHANGED <<sessions, active, completed, older, closed, files, doomed,
                 ref, worker, done, taken>>

\* Mutant: the process-wide counter keeps the failed reservation.
RollBackAudioHalf(c) ==
  /\ handler[c] = "rollback"
  /\ IF audio_bytes[ref[c]] >= pending[c]
     THEN audio_bytes' = [audio_bytes EXCEPT ![ref[c]] = @ - pending[c]]
     ELSE UNCHANGED audio_bytes
  /\ pending' = [pending EXCEPT ![c] = 0]
  /\ Goto(c, "closing")
  /\ UNCHANGED <<sessions, active, completed, older, total, closed, files,
                 doomed, ref, worker, done, taken>>

RollBackAudio(c) ==
  /\ handler[c] = "rollback"
  /\ IF audio_bytes[ref[c]] >= pending[c]
     THEN /\ audio_bytes' = [audio_bytes EXCEPT ![ref[c]] = @ - pending[c]]
          /\ total' = AtLeastZero(total - pending[c])
     ELSE UNCHANGED <<audio_bytes, total>>
  /\ pending' = [pending EXCEPT ![c] = 0]
  /\ Goto(c, "closing")
  /\ UNCHANGED <<sessions, active, completed, older, closed, files, doomed,
                 ref, worker, done, taken>>

-----------------------------------------------------------------------------
(* release, by the worker when it stops and by the handler when it is done *)

ReleaseSession(s, finished) ==
  LET complete == s \in completed \/ finished IN
  /\ completed' = IF complete THEN completed \cup {s} ELSE completed
  /\ active' = active \ {s}
  /\ older' = IF s \in sessions THEN Touch(s) ELSE older
  /\ IF complete
     THEN /\ total' = total - audio_bytes[s]
          /\ audio_bytes' = [audio_bytes EXCEPT ![s] = 0]
          /\ doomed' = doomed \cup {s}
     ELSE UNCHANGED <<total, audio_bytes, doomed>>
  /\ UNCHANGED <<sessions, closed, files>>

\* transcribe_events yielded "end": the session is complete.
WorkerEnds(c) ==
  /\ worker[c] = "running" /\ ~done[c]
  /\ done' = [done EXCEPT ![c] = TRUE]
  /\ UNCHANGED <<storeVars, ref, handler, worker, pending, taken>>

\* The worker's finally block, after an end, a failure or a cancellation.  A
\* handler that gave up waiting for it has already left.
WorkerReleases(c) ==
  /\ worker[c] = "running"
  /\ ReleaseSession(ref[c], done[c])
  /\ IF handler[c] = "left"
     THEN /\ Goto(c, "idle")
          /\ worker' = [worker EXCEPT ![c] = "none"]
          /\ ref' = [ref EXCEPT ![c] = NoSession]
     ELSE /\ worker' = [worker EXCEPT ![c] = "released"]
          /\ UNCHANGED <<handler, ref>>
  /\ UNCHANGED <<done, pending, taken>>

\* A "cancel" message: the handler marks the session completed and stops.
HandlerCancels(c) ==
  /\ handler[c] = "serving"
  /\ done' = [done EXCEPT ![c] = TRUE]
  /\ Goto(c, "closing")
  /\ UNCHANGED <<storeVars, ref, worker, pending, taken>>

\* The client disconnects, the idle timeout fires, the worker could not be
\* started: the handler goes to its finally block.
HandlerStops(c) ==
  /\ handler[c] \in {"opened", "serving"}
  /\ Goto(c, "closing")
  /\ UNCHANGED <<storeVars, ref, worker, done, pending, taken>>

\* The handler of c takes its session away from another connection.
Takes(c) ==
  taken' = IF \E d \in Connections \ {c} : ref[d] = ref[c] /\ Live(d)
           THEN taken \cup {ref[c]} ELSE taken

\* Mutant: a handler whose worker never started releases nothing.
HandlerReleasesAfterWorker(c) ==
  /\ handler[c] = "closing" /\ worker[c] # "running"
  /\ IF worker[c] = "released" THEN ReleaseSession(ref[c], done[c])
                               ELSE UNCHANGED storeVars
  /\ Goto(c, "idle")
  /\ worker' = [worker EXCEPT ![c] = "none"]
  /\ ref' = [ref EXCEPT ![c] = NoSession]
  /\ Takes(c)
  /\ UNCHANGED <<done, pending>>

\* The finally block after the worker's thread is gone: release once more.
HandlerReleases(c) ==
  /\ handler[c] = "closing" /\ worker[c] # "running"
  /\ ReleaseSession(ref[c], done[c])
  /\ Goto(c, "idle")
  /\ worker' = [worker EXCEPT ![c] = "none"]
  /\ ref' = [ref EXCEPT ![c] = NoSession]
  /\ Takes(c)
  /\ UNCHANGED <<done, pending>>

\* worker_shutdown_timeout passed and the worker is still running.
HandlerLeaves(c) ==
  /\ handler[c] = "closing" /\ worker[c] = "running"
  /\ Goto(c, "left")
  /\ UNCHANGED <<storeVars, ref, worker, done, pending, taken>>

-----------------------------------------------------------------------------
(* prune_expired and close; the timelines they, and release, leave open    *)
(* are closed after the store lock.                                        *)

\* prune_expired removes every inactive session idle for the TTL: the oldest
\* ones.  It takes the lock once for all of them; one at a time, oldest first,
\* reaches the same states, each the result of a call that expired so many.
Prune(s) ==
  /\ ~closed
  /\ Oldest(s)
  /\ sessions' = sessions \ {s}
  /\ older' = Leave({s})
  /\ total' = AtLeastZero(total - audio_bytes[s])
  /\ audio_bytes' = [audio_bytes EXCEPT ![s] = 0]
  /\ doomed' = doomed \cup {s}
  /\ UNCHANGED <<active, completed, closed, files, connVars>>

Close ==
  /\ ~closed
  /\ closed' = TRUE
  /\ sessions' = {} /\ older' = {}
  /\ total' = 0
  /\ audio_bytes' = [s \in Sessions |->
                       IF s \in sessions THEN 0 ELSE audio_bytes[s]]
  /\ doomed' = doomed \cup sessions
  /\ UNCHANGED <<active, completed, files, connVars>>

CloseTimeline(s) ==
  /\ s \in doomed
  /\ doomed' = doomed \ {s}
  /\ files' = files \ {s}
  /\ UNCHANGED <<sessions, active, completed, older, audio_bytes, total,
                 closed, connVars>>

-----------------------------------------------------------------------------
Open(c) ==
  \/ \E s \in Sessions : OpenNew(c, s)
  \/ \E s, e \in Sessions : OpenEvicting(c, s, e)
  \/ \E s \in Sessions : Resume(c, s)

AppendAudio(c) ==
  \/ \E n \in Sizes : ReserveAudio(c, n)
  \/ \E n \in Sizes : ReserveRaises(c, n)
  \/ AppendTimeline(c)
  \/ AppendRaises(c)
  \/ RollBackAudio(c)

Finish(c) == WorkerReleases(c) \/ HandlerReleases(c) \/ HandlerLeaves(c)

Next ==
  \/ \E c \in Connections :
       \/ Open(c)
       \/ StartWorker(c)
       \/ AppendAudio(c)
       \/ WorkerEnds(c)
       \/ HandlerCancels(c)
       \/ HandlerStops(c)
       \/ Finish(c)
  \/ \E s \in Sessions : Prune(s)
  \/ Close
  \/ \E s \in Sessions : CloseTimeline(s)

Spec == Init /\ [][Next]_vars
-----------------------------------------------------------------------------
Bytes(f, S) == MapThenSumSet(LAMBDA s : f[s], S)

Referenced == {ref[c] : c \in Connections} \ {NoSession}

\* The store never holds more sessions than configured.
SessionsBounded == Cardinality(sessions) <= max_sessions

Counted == total = Bytes(audio_bytes, sessions \cup Referenced)

\* Sessions the store dropped while a connection that is about to leave still
\* refers to them and to their bytes.
Stranded == {s \in Referenced \ sessions : audio_bytes[s] > 0}

\* Whatever append fails and whichever thread releases, a step that finds the
\* process-wide counter equal to the sum of the sessions' counters leaves it so:
\* no reservation is lost or returned twice.  Only a session evicted while a
\* connection still refers to it, whose bytes open subtracts and its release
\* subtracts again, is out of the account.
CounterKept ==
  [][~closed' /\ Counted /\ Stranded = {} /\ Stranded' = {} => Counted']_vars

\* The session a worker is transcribing stays in the store, active: it is never
\* evicted or pruned, and nobody else can resume it, until the handler of an
\* earlier connection releases it a second time.
UsedSessionKept ==
  ~closed => \A c \in Connections : Using(c) =>
    ref[c] \in (sessions \cap active) \cup taken

\* At most one worker writes to a session: "the server ... keeps the recovery
\* session locked until the old worker actually exits, preventing concurrent
\* resume writes" (docs/websocket.md).  This fails: the handler of a connection
\* releases the session again after its worker has, and a client that resumed
\* between the two holds a session the next one can resume.
NoTwoWriters ==
  \A c, d \in Connections : c # d /\ Using(c) /\ Using(d) => ref[c] # ref[d]

\* That is the only way to two writers: whatever workers outlive their handlers
\* and however early clients reconnect, two workers write to one session only
\* after a handler has released it under a connection that had resumed it.
OneWriter ==
  \A c, d \in Connections :
    c # d /\ Using(c) /\ Using(d) /\ ref[c] = ref[d] => ref[c] \in taken

\* An active session has a connection that will release it: a session never
\* stays unevictable and unresumable for ever.
ActiveHasOwner ==
  \A s \in sessions \cap active : \E c \in Connections : ref[c] = s

\* A completed session nobody holds keeps no audio.
CompletedKeepsNoAudio ==
  \A s \in completed \ Referenced : audio_bytes[s] = 0 /\ s \notin files \ doomed

-----------------------------------------------------------------------------
(* Strengthenings.  ConnInv: a connection refers to a session exactly while *)
(* it is open, and its worker runs only then.  HeldInv: a session that no   *)
(* handler has taken away has at most one connection that uses it or is     *)
(* about to, and is kept for that one.                                      *)

ConnInv ==
  \A c \in Connections :
    /\ handler[c] = "idle" <=> ref[c] = NoSession
    /\ handler[c] \in {"idle", "opened"} => worker[c] = "none"
    /\ handler[c] = "left" => worker[c] = "running"

HeldInv ==
  \A c \in Connections : Live(c) /\ ref[c] \notin taken =>
    /\ ~closed => ref[c] \in sessions \cap active
    /\ \A d \in Connections \ {c} : Live(d) => ref[d] # ref[c]

=============================================================================
