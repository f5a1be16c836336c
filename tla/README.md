# TurnAlign: TLA+ models, checks and proofs

TurnAlign turns audio into transcript events. A WebSocket server accepts
audio, a worker thread per session runs a recognition backend from a shared
pool over it, and a recovery store keeps what a disconnected client needs to
resume. This directory models the parts of it that are concurrent, that
outlive a failure, or that keep a promise across several connections. File
names below are relative to `src/turnalign/`.

## 1. Inventory

| Component | State | Operations | Interacts with | Hard because | Correct when |
|---|---|---|---|---|---|
| Backend pool, `model_pool.py` | entries (busy, loading, last use), closed flag | acquire, release, discard, detach, close | worker threads, preload, shutdown | models load outside the lock, waiters, eviction and shutdown meet | leases are exclusive, no slot or instance is lost, limits hold, waiters get away |
| Recovery store, `recovery.py` | sessions, active/completed, byte counters, timeline files | open, append_audio, append_event, replay_after, release, prune_expired, close | handlers, workers, sweeper | two releases per connection, appends outside the lock, eviction of referenced sessions | used sessions stay, one writer, the byte counter follows the sessions |
| Event log of a session, `recovery.py`, `server.py`, `session.py` | retained events, sequence and segment numbers, transcribed boundary | append, replay, finalize open partials, resume | worker, handler, sender, client | a resume is a restart: audio is transcribed again, events are replayed while new ones come | the client sees one legal stream and loses no durable event |
| Event protocol, `validation.py` | last sequence, segment states | accept | client, log | defines what "legal" is over reconnects | abstract specification |
| Backend lease and cancellation, `server.py` | ten flags under two locks, hook thread | cancel_worker, worker's finally, hook, cleanup | handler, worker, hook and cleanup threads, pool | a foreign hook may block for ever | no hook touches a reused instance, each is closed once, no lost cancel |
| Transport, `server.py` | incoming and outgoing queues, pause flag, cancel event | enqueue, stop_input, emit, forced stop, sender | handler, worker, sender, client | bounded queues, sentinels, timeouts | no audio or durable event lost, nobody left waiting |
| Server lifecycle, `server.py` | session counter, sets of tasks and connections, sweeper task, shutdown event | admission, session phases, sweep, shutdown | all of the above | shutdown meets handlers in any wait, late connections, blocked workers | every slot comes back, stores outlive handlers, shutdown returns |
| Live transcription, `session.py` | window, position, open segment, pending commits | windows, merge, partial/commit/replace/end | backend, diarizers, stabilizer | endpointing at boundaries, windows in which nothing is heard | one legal stream, no speech skipped or heard twice |
| LocalAgreement, `stabilizer.py` | previous hypothesis, stable prefix | update, reset | live transcription | prefix agreement on unstable text | hypotheses agree within one utterance only, a commit says the last one |
| Audio timeline, `audio.py` | temporary file, end | append, slice, iter_chunks, close | store, live transcription | rounding of sample positions, disk errors | slices return what was appended |
| Two-pass and offline pipelines, `pipelines.py`, `offline.py`, `realtime.py`, `fusion.py` | commits, cluster map | refine, merge speakers | live transcription, components | order of replaces, cleanup on failure | replaces refer to commits, every resource is closed |
| whisper.cpp backend, `backends/whisper_cpp.py`, `processes.py` | cancel flag, process handle | transcribe, cancel | cancel hook | cancel meets start and exit of the process | a cancelled process dies, a later one is not killed |
| FunASR streaming, `backends/funasr_streaming.py` | cache, pending samples | accept, finish, cancel | live transcription | chunk accounting | every sample is fed once |
| Deployment rehearsal, `deployment_rehearsal.py` | activation link, transaction marker, report, lock | rehearse, activate, recover, finalize | systemd, readiness probe, file system | crash between any two steps | the marker survives until the outcome is durable; the active release is one that was verified |
| Evidence gates, `production_gate.py`, `deployment_validation.py`, `release_gate.py`, `evaluation.py` | a bundle of files, each with a stamp and digests | measure, capture, bind, validate | deployment commands, WebSocket gate, host | evidence is collected for hours on a host that changes | a pass means the candidate was live, with the very parts that were measured and retained |
| WebSocket gate, `websocket_gate.py` | client state of the recovery probe | connect, drop, resume, compare | server | two tasks and a server that may pause, drop, fail or restart | a pass is evidence, a healthy server is not failed, the client ends |
| Policy, hints, profiles, devices, registry, plugins, resources, CLI, exporters, other backends | none that matters | validation, lookup, conversion | all | sequential | unit tests reach them |

## 2. Modules and plan

Written, in the order of the plan, the most important behaviour first:

1. `BackendPool` (with `BackendPoolProofs`): the pool, every operation.
2. `RecoveryStore` (with `RecoveryStoreProofs`): the store and the connections
   that call it.
3. `EventProtocol` and `RecoveryLog` (with `RecoveryLogProofs`): the abstract
   event stream, and the log of a session over disconnections and resumes, held to
   it twice: in what is logged and in what the client receives.
4. `BackendLease` (with `BackendLeaseProofs`): cancellation, hooks and the
   return of a backend.
5. `SessionTransport` (with `ServerProofs`): queues, flow control, end, cancel
   and failure.
6. `DeploymentTransaction` (with `DeploymentTransactionProofs`): activation,
   rehearsal, recovery and finalization of a release switch, with a crash or a
   power loss between any two steps.
7. `ProductionGate` (with `GateProofs`): the evidence of a release, from the
   commands that leave it to the gate that compares all of it.
8. `RecoveryProbe` (with `GateProofs`): the client of the WebSocket gate composed
   with the handler, the sender and the worker it talks to.
9. `LiveTranscription` (with `LiveTranscriptionProofs`): `live_windows`,
   `utterances` and the loops over them, with `LocalAgreement`.
10. `ServerLifecycle` (with `ServerProofs`): admission, the waits of a handler,
    sweeper and shutdown.

`ServerProofs` and `GateProofs` each extend two modules, which is why the names
that all modules share are `LifecycleSpec`, `LifecycleNext` and so on in
`ServerLifecycle` and `GateSpec`, `GateNext` and so on in `ProductionGate`.

What abstracts what: `EventProtocol` is the specification that `RecoveryLog`
implements, but for the cases section 4 names: `LogFollowsProtocol` is its
specification with these cases added, `ClientFollowsProtocol` reads the client's stream
with its validator. `RecoveryProbe` is the handler as its peer sees it, and takes from
`RecoveryStore`, `RecoveryLog` and `SessionTransport` only what passes over the
connection. `ServerLifecycle` sees of a session where its handler waits.
`ProductionGate` sees of `DeploymentTransaction` the link, the marker and the
report.

Every safety property the runs check has its theorem; what is left to TLC is named
at the end of section 6. Left to model: native streaming backends and the
alignment and diarization passes (section 7).

## 3. Correspondence

In every module a region of code under a lock is one action, a step that leaves
a lock, an `await` or a blocking call starts the next one, and a program counter
says where a thread is. The `map` of `PROJECT.json` names the lines of every
definition. An operator introduced by a comment that begins "Mutant" is a
plausible bug in the definition that follows it; it is used by no specification.

**BackendPool.** `entries`, `busy` and `loading` are the fields of
`BackendPool._entries`; a slot is a configuration (the cache key) with an
instance number. `older` is the order of `last_used`, as a relation instead of
clock values. `open` is the set of instances a factory has returned and
nobody has closed. `acquire` is split where it leaves its lock: the pass of the
wait loop (`AcquireIdle`, `AcquireCreates`, `AcquireEvicts` and its three
errors), `CloseEvicted`, the factory (`FactoryReturns`, `FactoryRaises`), and
`Publish` or `PublishLate`.

**RecoveryStore.** A connection has a handler and a worker, both with a
reference to the session object. `append_audio` is three actions: reservation,
timeline append, and roll-back on failure. `release` and `close` take the
timelines to be closed out of the lock and close them afterwards (`doomed`).
`older` orders `updated_at`. Byte counts are small numbers. A client may reconnect
at any moment and go on sending after its worker has failed. `taken` remembers the
sessions that a handler released while another connection was using them.

**EventProtocol.** `validator` has the fields of `EventStreamValidator`,
`Accepts` its checks, `After` the state it leaves, for segments, the terminal event
and `speaker_merge`. Text, confidence and the speaker of a segment are left out. The
log of a live session has no merges (`Speakers` is empty there).

**RecoveryLog.** Time is counted in internal chunks. `log` is `session.events`
as a function from sequence numbers, `produced` and `seen` are the validators
of the two refinements, `missing` the durable events a client has not received.
The recognition of a window is a free choice of the times and of whether there
is text; `stage` and the locals of `transcribe_events` fix what may follow. A resumed
worker may answer before its replay is queued, its clock starts at zero, a client may
end at once, the last window may be silent, and a cancelled worker goes on with its
second pass. `refused` are the events the log's validator does not accept, `early`
those retained before the replay was queued, `dropped` the partials that met a full
queue; all three are history, and the properties' exceptions speak of them.

**BackendLease.** Variables have the names of the locals of `session_handler`.
The pool is reduced to slots and instances; waiting, eviction and shutdown are
in `BackendPool`. Each `with backend_lease_lock` or `backend_cancel_state_lock`
is one action. `late` remembers the sessions whose hook was started between the two
regions of the worker's finally block.

**SessionTransport.** `incoming` holds chunk numbers and the sentinel,
`outgoing` events with their sequence numbers. The initialization and the replay
of a resumed session are not in it (see `RecoveryLog`): a session starts when
`ready` has been sent. Every timeout may fire while what it bounds is not over.

**DeploymentTransaction.** A command is a process: `pc`, `kind`, the transaction
it works on, the phase it exercises, the evidence gathered so far, whether an
interrupt is on its way out, and its verdict. The host is the link, the marker
(0 for none, else the number of a transaction) and the release the service was
started from. Link and marker have a second value, the one on disk; a directory
fsync brings them together and a power loss keeps either. Activation and
rehearsal have one shape, the trial release first and the safe release last, so
`_exercise_phase` is one set of actions with a phase `trial`, `return` or
`fallback`. The lock is released with the report (`Report`), and taken again by
`Finalize`, as the CLI does. `probes`, `reports`, `accepted` and `warrant`
remember what happened for the properties. Release trees, URIs and identities
are validated before anything moves and are left out; a probe passes or fails.

**ProductionGate.** `parts` is what the verdict depends on and an operator may
change: the model files, the candidate's package, its dependencies, and the unit
with the proxy configuration. A content is a small number; `Reviewed` is the one
that was reviewed, `SameRevision` the models that carry its revision string, and
`Hardened` the configurations in which the validators find no fault. A file of
evidence has the fields the gate compares and one field `lacks` for the
requirements, thresholds and totals it recomputes. One operator stands for one
validator, `Shortfalls` for what each may complain of. The model files, and the unit
with the proxy configuration, are retained by an action of their own (`Retain`), at
any time before the gate runs; the gate compares with what was retained and never with
the host. Handing it the path on the host is retaining the file just before. The
host's clock may be ahead of the gate's by one of `Offsets`. `lastLive` remembers, per
boot, model, package, dependencies and configuration, when the candidate was last live
with just these. The gate reads its files one by one without the deployment lock; the
model lets it read them at one instant.
Reports of other releases, files that cannot be read and option parsing are
errors of a command, not verdicts, and are left out.

**RecoveryProbe.** `client` is the frame of the gate's coroutine, with `receiver`
for the receiver task of `_run_session`. `to_server` and `to_client` are the
connection; closing it loses what is under way. `handler` is `session_handler`
and its worker: `buffer` is the frame buffer, `taken` and `base` say how far the
worker has got and where the chunks of this connection begin. `session` is the
`RecoverySession` with its log. `High`, `Low` and `QueueSize` stand for 96, 32 and
128. `excuse` remembers the first thing that happened that explains a failure.
The timeout around the whole session is left out on purpose: with it every
question about waiting has the same answer.

**LiveTranscription.** Durations are numbers of a unit. `voiced` is what `pcm_rms`
says of a chunk. A text is a sequence of characters; `casefold` gives the letters
a character counts as, none for punctuation and space. `window` is what
`live_windows` has yielded and is not transcribed; the backend hears any of
`Texts`. `_merge_hypotheses` returning nothing is `HearNothing`. Three variables are
history: `sources`, the windows whose hypotheses had a vote since the last reset,
`silent`, the final ones among them that said nothing, and `split`, whether an
agreement was cut inside a character that folds to several letters.

**ServerLifecycle.** Tasks of the event loop go from one `await` to the next;
`task[c]` names the wait a handler is in. `cancelled` holds tasks with a
`CancelledError` to raise, `peer_open` connections not yet told to go away,
`workers` live worker threads. What a handler does between its waits is in the
modules of the session.

## 4. Runs

Each run's `about` in `PROJECT.json` is the question it answers.

| Run | Bounds | Shows |
|---|---|---|
| `BackendPool` | 3 sessions, 2 configurations, 2 instance numbers, a pool of 1 | exclusive leases, no lost slot, no leaked instance, no lease after close; cancelled waiters leave, shutdown closes |
| `RecoveryStoreFull` | 2 sessions in a store of 1, 2 connections, chunks of 1 or 2, 2 per session and 3 in all, clients that reconnect at any moment, the total counter no lower than -3 (`BoundedDrift`) | used sessions kept, one writer, every active session has an owner, the byte counter follows the sessions |
| `RecoveryLogReplay` | 3 audio chunks, 4 events, 2 retained, a queue of 2, words that take time (`WordsTakeTime`), one dropped partial and one early event (`OneEach`) | log and client's stream are legal, no durable event lost, nothing committed twice, each with its exceptions |
| `BackendLease` | 2 sessions, 3 instances, 1 slot, cancellations at any moment | hooks and reuse, no lost cancel, blocked hooks pin no worker |
| `SessionTransport` | 5 chunks, frames of up to 4, short queues (`MCSessionTransport`) | the worker misses at most the displaced chunk, events survive the queue, nobody waits for ever |
| `SessionTransportFullEnd` | the same | a violation: the sentinel displaces a chunk |
| `DeploymentTransaction` | 2 operators, 3 releases, 2 transactions, 3 faults | crash safety, recovery never refused, nothing accepted or reported passed without its probe |
| `DeploymentRecovery` | 1 operator, 2 releases, 2 transactions, 2 faults | a pending transaction is always resolved by rerunning the recovery |
| `ProductionGate` | 2 releases, 2 contents, 2 ticks, 1 disturbance, reports valid for 1 tick, the state for 0, a clock ahead by up to 1, files retained in one order (`RetainedInOrder`) | a passed gate means a candidate that was live with all the parts of the verdict |
| `RecoveryProbe` | 11 units in frames of 5 or 9, chunks of 2, pause at 1, resume at 0, a queue of 2, 2 events of the backend, 1 fault | what a pass proves, what a failure is owed to, where the client may wait |
| `LiveTranscription` | 5 chunks of 1 or 2, silence 2, maximum 4, partials every 1, texts over two letters, one of them in both cases and as a character that folds to two, and a full stop | windows neither lose nor repeat speech, agreement stays in its utterance, commits say the last hypothesis |
| `ServerLifecycle` | 3 clients, 2 places, preload, one shutdown | slots, order of closing, shutdown closes everything |

The bounds are the smallest at which the hazards of `PROJECT.json` happen: a
session meets the limit others have reached, a connection is over and its place taken
by a new one as often as it likes, a window of two events loses its oldest, a queue of
two is full when a third event comes, a resume can follow a resume, a second
transaction meets what a first one left behind, and three faults are an interrupt, a
failure on the way out of it, and a power loss after that. For the gate one disturbance (a reboot, a
replaced file, an interrupted command, a report with a shortfall) is what a
verdict has to notice; ordinary activations, rehearsals and recoveries are not
counted. A frame of 5 or 9 units leaves one unit in the frame buffer of the server
at odd frames and none at even ones, so that the boundary of the disconnection is
looked for. Five chunks are two utterances with silence between, and the maximum
of 4 is reached inside one and exactly at a chunk's end. The third client comes
when two places are taken. Symmetry is used for sets of model
values in runs without liveness. Deadlock is checked in `BackendPool` and in the
deployment runs; in the others every session may end. Each module states its
`TypeOK`; the runs list it only where the counters in it could go wrong. It is
proved for every module that has one (`EventProtocol` has none). Where a cfg has a
CONSTRAINT it cuts off the continuation of states that repeat a hazard: a second
dropped partial, a third double subtraction; the properties hold in the states at the
border, too, and the theorems of section 6 have no such bound.

No constant restricts what the environment does. Where the code breaks what a document
or a comment promises, the module has the promise as it is written and the strongest
form that holds, which names the one way to break it; the run checks the second, and
TLC refutes the first with the trace below. Those a document denies are the findings of
`PROJECT.json`.

- `NoAudioDropped`, checked by `SessionTransportFullEnd`, which expects the violation:
  when "end" comes while `incoming` is full, `stop_input` makes room for its sentinel
  by taking out the oldest accepted chunk (`server.py:679`; `docs/websocket.md:198-199`,
  "instead of silently dropping PCM"). `OnlyDisplacedIsDropped`: never more than that
  chunk, and only then.
- `NoTwoWriters`: worker and handler both release a session (`server.py:1330`). A
  client resumes after the worker's release; the handler's then makes its session
  inactive, and a third connection opens it while the second one's worker writes
  (`docs/websocket.md:214-216`, `docs/architecture.md:167-169`). `OneWriter` and
  `UsedSessionKept`: only a session `taken` in this way.
- `NoHookOnReleased`: the worker looks for a hook, a first cancel starts one, the
  worker returns its backend to the pool, and the next session leases it under the
  hook (`server.py:1005`, against the comment at `server.py:999-1002` and
  `docs/websocket.md:217-218`). `HookOnOwnBackend`: only a hook that was started in
  that window (`late`).
- A durable event lost. A worker retains commit 0 and fails before queueing it; the
  client resumes; the new worker's event 1 is queued before the replay is
  (`server.py:1155`), delivered, and acknowledged by the next resume: 0 is never
  replayed (`docs/websocket.md:199-200`). `NoDurableLoss`: only if a later event was
  retained before the replay was queued (`early`). From the same moment the client's
  stream is out of order, and `ClientFollowsProtocol` says nothing more. Before it, the
  stream has gaps, each of them of dropped partials, and it is read as its
  validator would read it without them. `RecoveryProbe` meets the race as its excuse
  "replay overtaken".
- The terminal event refused by `validation.py:50-61`. A last window without text is
  skipped (`session.py:416`), and `end` follows an open partial; a resumed worker that
  is given no audio ends at zero, before its transcript (`session.py:527`); or an open
  partial fell out of the retained log, so that no resume could commit it. Those are
  the cases of `EndIsRefused`.
- A recovery commit refused by `validation.py:43-48`: it repeats the acknowledgement of
  its partial, and replaces of the cancelled worker have acknowledged more since
  (`recovery.py:179`): `CommitIsRefused`. `LogFollowsProtocol`: the log is a legal
  stream of `EventProtocol` but for these.
- A commit that does not say the final hypothesis. `_normalized` folds the German
  sharp s to two letters; after an agreement on one of them a text is cut behind the
  whole character (`stabilizer.py:34`), and the commit after the committed `s` leaves
  out the rest (`docs/validation.md:491-492`). `CommitSaysFinalHypothesis`: only if an
  agreement was, or the final text is, cut inside a character.
- Agreement across utterances. The `continue` of `session.py:416` also passes over
  `agreement.reset()`, so the hypotheses of an utterance whose last window was silent
  vote in the next one. `AgreementStaysInUtterance`: only those. No document denies it.
- A shutdown that closes nothing. `prune_expired` may raise (`recovery.py:158`) and end
  the sweeper; its exception leaves `serve()` from the finally block
  (`server.py:1447`), before the handlers are cancelled and pool and store closed
  (`docs/websocket.md:96-100`). `ShutdownCloses`: unless the sweeper has failed.

`CounterKept` leaves out one case. An evicted session keeps its byte count
(`recovery.py:211`); when a handler that still refers to it releases it as
completed, the count is subtracted from the store's total a second time, and the
store then accepts more than `max_total_audio_bytes`.

What else the models show of the code:

- `ProductionGate`. The transaction identifiers of activation and rehearsal are
  checked for their format and compared with nothing. The WebSocket reports inside
  a phase must be fresh and passed, but only the revision of their model is
  compared, not its digests. The gate does not look at the host, so a unit or a model
  that was replaced after it was retained changes no verdict. The commit of a WebSocket
  report is an argument of the
  command. Loaded models are hashed on disk, by the server when a session starts
  and by the release gate after its run (`release_gate.py:164`). A stamp ahead of
  the gate's clock by no more than the allowed skew is accepted, so evidence may be
  older than its validity by that much, which is the `+ offset` in
  `CandidateWasLive`.
- `RecoveryProbe`. A numbered partial that the server drops under load is a gap to
  the gate's own validator (`websocket_gate.py:610`, `validation.py:41`), so a
  session in which one was dropped fails whatever `--max-dropped-partials` allows
  (`docs/websocket.md:338-339`); `FailsForCause` takes a dropped partial for a cause.
  `_run_session` waits for permission to send without watching its receiver
  (`websocket_gate.py:632`): when the server fails while it has the client paused,
  only the timeout around the session ends it (`AbandonedPause`). `ReturnsByItself`
  excuses this place and shows that it is the only one.
- `ServerLifecycle`. Workers that outlive `worker_shutdown_timeout` no longer count
  against the session limit. A stop may take the grace period and the join of a worker
  after it.

Three facts about the deployment commands are worth knowing although no document
denies them. Finalization does not wait for the lock, so a command that holds it
between report and finalization leaves the marker, and two operators that keep
rerunning `deployment-recover` may refuse each other for ever: with two operators
`PendingIsResolved` fails, and its run has one. A passed activation whose
finalization was refused is rolled back by the next recovery. And a removal of
the marker that was not synced may come back after a power loss; the recovery it
then asks for finds its own release active (`Recoverable`).

## 5. Fairness

Safety needs none. `BackendPool`: a session that is in `acquire` runs again (its
wait polls), factories and closes return, and a lease ends, because inference is
bounded by its audio. `BackendLease`: workers and cleanups run, hooks need not
return (`QuarantineCloses` assumes they do, inside the property).
`SessionTransport`: threads run, the sender sends, which is to say that a
connected peer reads; for one that does not, the timeouts are actions that may
happen. A failing worker is possible and never owed. Nothing obliges a client to
send, to end or to cancel. `DeploymentTransaction`: a command that runs goes on,
since each of its calls has a timeout, and the operator reruns
`deployment-recover` as often as it is possible (strong fairness, because a
failing attempt leaves the marker); faults are owed to nobody and bounded.
`RecoveryProbe`: the client, the server's handler, sender and worker each go on
when they can, since the backend finishes a chunk some time; failures and restarts
are owed to nobody. `ReturnsByItself` then says that the client needs no timeout.
`ServerLifecycle`: the event loop runs its tasks, and every wait but the one for a
client's messages has a timeout, which is why `MustLeave` is fair in three of the
waits and, elsewhere, once the task is cancelled or its peer told to go away.
Preloading ends; workers need not, and clients owe nothing. `ProductionGate` and
`LiveTranscription` have safety properties only.

## 6. Proofs

`BackendPoolProofs` proves for any sets of sessions, configurations and
instances and any limits that `TypeOK` and the safety properties of
`BackendPool` are invariants, also one that no run lists (`PoolBounded`). None of them is inductive: that two sessions do not
share a slot needs that a busy slot has exactly one session at work on it, that
a slot being loaded is owned by its loader, and that evicted instances belong
to no slot. `IInv` says so, part by part (`OwnedSlots`, `EvictedBackends`,
`PooledBackends`); `InitIInv` and `NextIInv` show it inductive with one step per
action. `PoolStaysBounded` counts: the lemmas on cardinalities say that one slot
more keeps the limits if `NeedsSlot` held and that fewer always do.
`ClosedPoolLeasesNothing` is an action property proved from the same invariant.
The only assumptions are the types of the constants.

`RecoveryStoreProofs` proves the typing (with `ConnInv`: a connection that is
appending has a reservation and a session), that active sessions have a
connection that will release them, that completed sessions hold no audio, that
the store stays within `max_sessions`, that a session in use is neither evicted nor
expired (`UsedSessionsAreKept`) and that no two workers write to one
(`OneWorkerWrites`), both unless a handler has taken it away, and for any behaviour of
the clients. `HeldInv` is what makes them inductive: a session not `taken` has at most
one connection that uses it, or has opened it and is about to, and is kept for that
one; a release under a living connection, which would break it, is what `taken`
records. `CounterIsKept` is the action property `CounterKept`. The sum of the sessions' counters is a fold over a set, which
`BytesAreSums` turns into a function over the subsets of that set; `BytesWithout`
then shows that any element may be taken out first, which the definition of the
fold leaves open, and each step of the store changes the sum at one session
(`BytesSet`, `BytesChange`). The premise that no bytes are stranded is the
property's own: the proof needs it at both ends, since a session dropped while a
connection holds it is where the counter and the sum part.

`DeploymentTransactionProofs` proves crash safety for any operators, releases,
transactions and faults, assuming only the types of the constants. The
properties are about a host without a marker, or about the moment of a probe; what
makes them last is what each command knows while it holds the lock. `IInv`
(end of `DeploymentTransaction`) has it in parts: only the lock holder is at a
locked step (`LockHeld`); transactions in use have been created, and a new one is
only its creator's (`Numbered`); until a marker is synced nothing has moved and
its safe release is the accepted one (`Settled`); the marker at a locked step is
the command's own (`OwnMarker`); from its restart on the release under test is
live, synced and served (`Exercised`); and, the part that is easily
overlooked, a report that waits for its finalization without the lock remains
true whatever other commands do to the same transaction meanwhile
(`ReportStands`). `LeaveStep` and `EndPhaseStep` treat the two ways a step of a
command ends once for all actions. On top of `IInv`, `Earned` follows the evidence
from a probe to the verdict, from the verdict to the report and from the report to
the finalization: `AcceptanceIsEvidenced` and `PassedReportsAreTrue`. A command
finalizes without the lock it measured under, so `EarnedBy` has to speak of what
it carries over that gap, and of nothing that another command could change in it.

Of `ServerLifecycle`, `ServerProofs` proves for any clients and any limit that
every admitted session holds exactly one slot (`SlotInv`: the counter is the
cardinality of the admitted tasks; one step adds a task, one removes one, by the lemmas on finite
sets, and no other step, a cancellation included, crosses the border of
`Admitted`), the typing that this makes provable (`active_sessions` is natural),
and that pool and store outlive the handlers (`GoneInv`: with the port
not open there are none, and a closed store means that `serve()` is over). The
assumption is that the clients are finitely many.

`BackendLeaseProofs` assumes nothing of the moment of a cancellation. That none is lost
(`CancelIsNotLost`) rests on `TypeOK`, `InUse` and `HookFlags`. That a hook reaches
another session's instance only if it was started late, that an instance has one
holder, and that a quarantined one is closed once are inductive only together
(`IInv`). A worker may give its backend back because it knows what became of the hook,
or the hook is late (`WaitedForHook`); a late hook is never waited for, so it never
quarantines; and a hook that is still running and not late is on an instance that
nobody else may use or close (`Quarantined`). The one holder and the one closing thus
survive the window that the hook's isolation does not.

Of `SessionTransport`, `ServerProofs` has one invariant for each queue. `OutputInv`: a durable event the client lacks is in `outgoing`, or next for it, or was
given up by a worker on its way out (`OnItsWay`), and nothing produced later is
ahead of it (`NothingOvertakes`), so a client never sees a gap before the session is
cancelled. `InputInv`: what the worker has heard and what `incoming` holds are the
accepted chunks in order, save `Displaced` once the client has ended
(`InputInOrder`), so `AcceptedAudioIsHeard` says that at most this one is dropped.

`RecoveryLogProofs` is about every behaviour of `RecoveryLog`, for any length of a
session and any limits, retention and queue; its only assumption is the type of the
constants. The cases in which the code departs from the protocol are in the
properties, not in hypotheses.

- `LogRefinesProtocol`: the log of a session is a legal stream, but for an end or a
  recovery commit refused in the named cases. `LogInv` relates the validator of the log
  to the session's counters (`Accounted`) and to what is retained (`LogInOrder`), says
  that open partials are of the latest segment, followed by replaces of others and the
  end only, and can be committed as they stand (`OpenIsLatest`), and that what the
  worker will yield, also after a restart from `transcribed_through`, goes on from what
  the log has (`WorkerFollows`, `HandFits`). `CommitsOnce` is an action property from
  the same invariant.
- `DurableEventsAreNotLost`: `DeliveryInv` says where the durable events are that the
  client lacks. One that no early event is after is above the acknowledgement, in the
  queue, the replay or the worker's hand, or the worker died before queueing it
  (`Pending`, `LostWithWorker`), and nothing later is ahead of it (`Due`).
- `ClientStreamIsLegal`: as long as there is no early event, the client reads a legal
  stream. Its validator is, some partials aside, an earlier state of the validator of
  the log, but the log forgets events and the model keeps no history; `StreamInv`
  therefore says that there are a sequence of events and one of validators that lead
  from the empty stream to `produced`, with the client's somewhere on the way
  (`Chain`, `Carried`). A step of the worker prolongs them, a step of the sender moves
  the client along them. A dropped partial lets the client's validator fall behind the
  log's (`Behind`) and never ahead of it, and every event after it, the commit of its
  segment first, is accepted by both.

`LiveTranscriptionProofs` is about operators that fold sequences, and none of them is
recursive, so they can be reasoned about: `FlattenSeq` and `FoldLeft` are defined by
functions, which are shown to exist and to do one step more for one element more
(`FlattenOneMore`, `KeyOneMore`, `BoundariesOneMore`, `LengthType`). As a theorem with
an operator parameter cannot be used, induction is over a set: a set of numbers with
zero and every successor is `Nat` (`NumberInduction`, by its least counterexample),
and a set of sequences with the empty one and every longer one is `Seq(T)`
(`SequenceInduction`). From these, `KeyOfJoined` (the key of two joined texts is
their joined keys) and `CutKeys` (a text cut behind a letter has its key cut there).

- `CommitsSayTheHypothesis` rests on `AgreementInv`: the committed key is the key of
  the committed text unless an agreement was split, for any case folding.
- `AgreementIsOfItsUtterance` rests on `VotesInv`, and through it on the invariant of
  the windows: a partial window that votes begins where the open utterance does.
- `SpeechIsHeard` rests on `CutInv`: windows are contiguous, the open one ends with the
  chunk taken last (`OpenWindow`), the remembered chunk of silence is the one just
  before it (`Remembered`), a partial window is the open one and a final one has left
  nothing open (`Yielded`), and all of it comes after what was heard (`HeardBefore`).

`GateProofs` is about the verdicts of the two gates. Of `ProductionGate`, for every
host, clock offset, skew and number of disturbances, `EvidenceHolds` relates the
files to the host's past, not to its present, since evidence is collected for hours:

- the state file is no younger than the host's clock says (`StateIsPast`);
- a profile names a boot, a package, dependencies and a configuration, and a model, with
  which the candidate has been live all at once, no earlier than the state file it
  binds was written (`ProfileWasLive`), which later activations, reboots and rewritten files cannot
  undo because `lastLive` only grows (`HistoryGrows`);
- a verdict is kept only as long as the evidence is as it was (`VerdictStands`).

`PassedWasLive` follows with the gate's own checks: its activation report and the
profile name one boot, the state's stamp is young, and every part the property names,
in the report, the bill of materials or the retained files, is compared with the
profile's. A state file that was replaced after the profile is refused by its digest,
so it must be the one the profile binds. The theorem is about a moment in the past: of
the host at the time of the verdict the gate knows nothing. The assumption is `GateAssumption`, whose `Absent` (no file) is no commit, no content
and no number.

Of `RecoveryProbe` there are two invariants, for any audio, frame and chunk sizes,
thresholds, queue and faults; `ProbeAssumption` is only that sizes are positive and
`Low` is below `High`.

- `Evidence` holds whatever goes wrong. `Wired` says where requests, answers and
  audio can be at each stage of the client; `Conserved`, that what is stored,
  buffered and on the wire adds up to what was sent; `Paced` and `Halted`, that the
  probe has one acknowledgement to wait for at a time and drops its connection only
  where the frame buffer is empty; `AllLogged`, `FinalLast` and `Seen`, that every
  event anywhere is in the log where its number says and the terminal one comes
  last. A passed client has seen the terminal event, whence `PassedRecovered`.
- `Grounds` adds what holds besides (`Settled`) and what holds as long as there is
  no cause (`Calm`): the server leaves no client that waits for it (`Reachable`),
  acknowledgements rise to what is stored (`Acknowledged`), the resumed half starts
  where the first stopped and before the end (`Resumable`), and the events in the
  three queues continue what the gate has seen (`Numbered`). `FailedForCause` then
  takes each way to fail: the gate never raises while reading (`NeverRaises`), a
  request is answered as expected (`NeverRefused`), and after the terminal event
  all is acknowledged (`AllAcknowledged`).

Numbers of events, and of audio units, are spread along a queue by a function
(`Runs`, `Adds`), a message appended or taken changes it at one end
(`RunsMore`, `RunsLess`), and no induction over the queue is needed.

Only model-checked: liveness and all that needs fairness (the leads-to properties of
`BackendPool`, `BackendLease`, `SessionTransport`, `DeploymentTransaction`,
`RecoveryProbe` and `ServerLifecycle`), which TLAPS has no proof rules for here.

## 7. Not modelled

Recognition itself, model libraries, files and sockets below the operations
used, formats, metrics and logs, configuration and hardware probing. Further:

- native streaming backends (`funasr_streaming.py`, the streaming branch of
  `transcribe_events`), alignment and diarization: what they compute depends on
  the libraries, and they have one caller;
- `offline.py`, `pipelines.py`, `fusion.py`: sequential passes after the last live
  event, whose replace events `EventProtocol` judges as it does any others;
- the cancel flag of `whisper_cpp.py`: `transcribe` clears it first, so a cancel
  just before is lost and the worker stays until the process ends. `BackendLease`
  lets any call last, and no property promises more;
- the parsers of `deployment_validation.py` (units, proxy files, environments) and
  the word error rate of `evaluation.py`: pure functions of a text, each one verdict
  in `ProductionGate`;
- the assembly of ranges in `audio.py`: rounding of sample positions;
- the rest of `cli.py`: arguments and wiring;
- timeouts by their length: where the code has one, the model lets it fire at any
  time it is armed.

The size limits of single events and metadata appear as failures that may happen.

A case no property covers: `_finalize_open_partials` adds metadata to a partial
and may thereby exceed the per-event size limit, in which case the session
cannot be resumed.
