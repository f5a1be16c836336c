--------------------------- MODULE ProductionGate ---------------------------
(***************************************************************************)
(* The production gate: what it takes for a release to go live.  Commands  *)
(* on the host (activation, rehearsal, release, quality and WebSocket      *)
(* gates, model-manifest, deployment-status, host-profile) each leave one  *)
(* file of evidence; production-gate reads them all, without a lock and on *)
(* its own clock, and says passed or failed.  It is an offline aggregator: *)
(* it looks at the files it is handed and never at the host.  Between the  *)
(* commands the host goes on living: releases are switched, transactions   *)
(* interrupted and recovered, files replaced, the machine rebooted.        *)
(*                                                                         *)
(* Contents of files are small values; what a report lacks of the          *)
(* requirements, thresholds and totals the gate recomputes is one field.   *)
(* The steps inside an activation are DeploymentTransaction.               *)
(***************************************************************************)
EXTENDS Integers

CONSTANTS
  candidate,            \* source_commit: the release under examination
  previous,             \* the release it replaces
  Contents,             \* what a part of the host may hold
  Reviewed,             \* what it holds when nobody has touched it
  SameRevision,         \* models that carry the revision of the reviewed one
  Hardened,             \* configurations the two validators find no fault with
  ReportValidity,       \* _MAX_REPORT_VALIDITY_SECONDS, in ticks
  StateValidity,        \* _MAX_DEPLOYMENT_STATE_VALIDITY_SECONDS, in ticks
  MaxClockSkew,         \* _MAX_CLOCK_SKEW_SECONDS, in ticks
  Offsets,              \* how far the host's clock may run ahead of the gate's
  MaxTime,              \* bound of the clock
  MaxDisturbances,      \* bound on what departs from the procedure
  Absent

ASSUME GateAssumption ==
  /\ candidate # previous
  /\ Reviewed \in SameRevision /\ SameRevision \cup Hardened \subseteq Contents
  /\ {ReportValidity, StateValidity, MaxClockSkew, MaxTime, MaxDisturbances} \subseteq Nat
  /\ Offsets \subseteq Int
  /\ Absent \notin Contents \cup {candidate, previous} /\ Absent \notin Int

Commits == {candidate, previous}

\* What the verdict depends on and an operator may change: the files of the
\* model, the candidate's environment (its own package and the packages it
\* runs on), the unit with the proxy configuration.
Parts == {"model", "package", "dependencies", "configuration"}

VARIABLES
  now,            \* the gate's clock
  offset,         \* the host's clock shows now + offset
  boot,           \* /proc/sys/kernel/random/boot_id
  active,         \* the release the current link selects
  pending,        \* the marker: None, or its safe release and whether its command may finalize
  parts,          \* what is on the host
  reloaded,       \* systemd: NeedDaemonReload=no
  files,          \* the evidence, one file per kind
  verdict,        \* of the last command, if that was production-gate
  disturbances,
  lastLive        \* history: when the candidate was last live, per boot and parts

host == <<boot, active, pending, parts, reloaded>>
gateVars == <<now, offset, boot, active, pending, parts, reloaded, files, verdict,
          disturbances, lastLive>>

Boots == 0..MaxDisturbances
Stamps == {t + o : t \in 0..MaxTime, o \in Offsets}

Markers == [safe : Commits, reported : BOOLEAN]
\* What a report may lack: an option that was not asked for, a bound that was
\* not met.  "none" is a report the gate has no fault with.
Shortfalls == [release |-> {"none", "requirement"}, quality |-> {"none", "metric"},
               websocket |-> {"none", "recovery", "sessions"}]
Measurements == [created_at : Stamps, lacks : UNION {Shortfalls[k] : k \in DOMAIN Shortfalls},
                 model : Contents]
Transitions == [created_at : Stamps, boot : Boots, model : Contents,
                previous_commit : Commits, final_active_commit : Commits]
States == [created_at : Stamps, boot : Boots, active_commit : Commits,
           pending : BOOLEAN, configuration : Contents]

\* The kinds the host profile binds by digest.  The three gate reports are
\* not among them.
BoundKinds == {"activation", "rehearsal", "state", "manifest", "wheel", "lock", "sbom"}
Digests(f) == [k \in BoundKinds |-> f[k]]

NoEvidence ==
  [release |-> Absent, quality |-> Absent, websocket |-> Absent, activation |-> Absent,
   rehearsal |-> Absent, state |-> Absent, manifest |-> Absent, profile |-> Absent,
   wheel |-> Reviewed, lock |-> Reviewed, sbom |-> Reviewed,
   model |-> Absent, configuration |-> Absent]

\* The candidate is live: selected, without a marker, under a configuration
\* that systemd has loaded.
CandidateLive(a, m, loaded) == a = candidate /\ m = Absent /\ loaded
Situation(b, p) ==
  <<b, p["model"], p["package"], p["dependencies"], p["configuration"]>>
Situations == Boots \X Contents \X Contents \X Contents \X Contents

GateInit ==
  /\ now = 0 /\ offset \in Offsets /\ boot = 0
  /\ active = previous /\ pending = Absent
  /\ parts = [p \in Parts |-> Reviewed] /\ reloaded = TRUE
  /\ files = NoEvidence
  /\ verdict = "none" /\ disturbances = 0
  /\ lastLive = [s \in Situations |-> Absent]

\* Every action but the gate's own ends with this: the verdict is the last
\* command's, and the history follows the host.
Observed ==
  /\ verdict' = "none"
  /\ lastLive' = IF CandidateLive(active', pending', reloaded')
                   THEN [lastLive EXCEPT ![Situation(boot', parts')] = now']
                   ELSE lastLive
  /\ UNCHANGED offset

Disturbed == disturbances < MaxDisturbances /\ disturbances' = disturbances + 1
Undisturbed == UNCHANGED disturbances

(***************************************************************************)
(* The host and its operators                                              *)
(***************************************************************************)
Tick ==
  /\ now < MaxTime /\ now' = now + 1
  /\ Undisturbed /\ UNCHANGED <<host, files>> /\ Observed

\* The marker survives, the process that could finalize it does not.
Reboot ==
  /\ Disturbed
  /\ boot' = boot + 1
  /\ pending' = IF pending = Absent THEN Absent ELSE [pending EXCEPT !.reported = FALSE]
  /\ reloaded' = TRUE
  /\ UNCHANGED <<now, active, parts, files>> /\ Observed

\* Someone replaces a model, installs a package or edits the configuration.
Replace(part) ==
  /\ Disturbed
  /\ \E content \in Contents \ {parts[part]} : parts' = [parts EXCEPT ![part] = content]
  /\ reloaded' = (reloaded /\ part # "configuration")
  /\ UNCHANGED <<now, boot, active, pending, files>> /\ Observed

\* The files handed to the gate beside the reports.
Artifacts == {"wheel", "lock", "sbom", "model", "configuration"}

\* An artifact of another build, or of another host, is put into the bundle.
Misplace(kind) ==
  /\ Disturbed
  /\ \E content \in Contents \ {Reviewed} : files' = [files EXCEPT ![kind] = content]
  /\ UNCHANGED <<now, host>> /\ Observed

DaemonReload ==
  /\ ~reloaded /\ reloaded' = TRUE
  /\ Undisturbed /\ UNCHANGED <<now, boot, active, pending, parts, files>> /\ Observed

\* Bound: a report that nothing has read is not taken again.
Once(kind) == files[kind] = Absent

LinuxBootId == boot
ActiveReleaseCommit == active

Transition(from, to) ==
  [created_at |-> now + offset, boot |-> LinuxBootId, model |-> parts["model"],
   previous_commit |-> from, final_active_commit |-> to]

\* deployment-activate: the marker, the switch and the probe; then the report,
\* if the command gets that far.  A report on the other release is another file.
Activate(commit, reported) ==
  /\ pending = Absent /\ active # commit
  /\ IF reported /\ commit = candidate THEN Undisturbed ELSE Disturbed
  /\ active' = commit
  /\ pending' = [safe |-> active, reported |-> reported]
  /\ files' = IF reported /\ commit = candidate
                THEN [files EXCEPT !.activation = Transition(active, commit)]
                ELSE files
  /\ UNCHANGED <<now, boot, parts, reloaded>> /\ Observed

\* deployment-rehearsal: to the preceding release and back; cut off, it leaves
\* either of the two.
Rehearse(commit, reported) ==
  /\ pending = Absent /\ active = candidate /\ Once("rehearsal")
  /\ reported => commit = candidate
  /\ IF reported THEN Undisturbed ELSE Disturbed
  /\ active' = commit
  /\ pending' = [safe |-> candidate, reported |-> reported]
  /\ files' = IF reported
                THEN [files EXCEPT !.rehearsal = Transition(previous, candidate)]
                ELSE files
  /\ UNCHANGED <<now, boot, parts, reloaded>> /\ Observed

\* The report is durable: its command removes the marker.
Finalize ==
  /\ pending # Absent /\ pending.reported
  /\ pending' = Absent
  /\ Undisturbed /\ UNCHANGED <<now, boot, active, parts, reloaded, files>> /\ Observed

\* deployment-recover restores the safe release, whatever was reported.
Recover ==
  /\ pending # Absent
  /\ IF pending.reported THEN Disturbed ELSE Undisturbed
  /\ active' = pending.safe /\ pending' = Absent
  /\ UNCHANGED <<now, boot, parts, reloaded, files>> /\ Observed

(***************************************************************************)
(* The commands that leave evidence                                        *)
(***************************************************************************)
Write(kind, content) ==
  /\ files' = [files EXCEPT ![kind] = content]
  /\ UNCHANGED <<now, host>> /\ Observed

Measure(kind, model) ==
  /\ Once(kind)
  /\ \E lacks \in Shortfalls[kind] :
       /\ IF lacks = "none" THEN Undisturbed ELSE Disturbed
       /\ Write(kind, [created_at |-> now + offset, lacks |-> lacks, model |-> model])

\* The files under the model root, or the ones a backend says it loaded: both
\* are hashed where they lie, when the question is asked.
EnumerateModelFiles == parts["model"]

\* The model files, or the unit with the proxy configuration, are retained for
\* the gate; to hand it the path on the host is to do so just before it runs.
Retain(part) == Once(part) /\ Undisturbed /\ Write(part, parts[part])

ObservedModelFiles == parts["model"]

\* Runs a backend of its own over the model files and hashes them.
RunReleaseGate == Measure("release", ObservedModelFiles)

\* Compares the events the release gate wrote; their revision is its model's.
EvaluateQualityGate ==
  /\ files.release # Absent
  /\ Measure("quality", files.release.model)

\* Sessions and a recovery probe against the public endpoint; the server
\* hashes the model files when a session starts.
RunWebsocketGate == Measure("websocket", ObservedModelFiles)

CreateModelManifest ==
  /\ Once("manifest") /\ Undisturbed
  /\ Write("manifest", EnumerateModelFiles)

\* _capture_systemd_effective_configuration raises unless systemd has the unit
\* loaded as it is on disk.
CaptureEffectiveConfiguration == reloaded

\* deployment-status: what is true now, a pending marker included.
CreateDeploymentState ==
  /\ CaptureEffectiveConfiguration /\ Undisturbed
  /\ Write("state", [created_at |-> now + offset, boot |-> LinuxBootId,
                     active_commit |-> ActiveReleaseCommit, pending |-> pending # Absent,
                     configuration |-> parts["configuration"]])

\* _reject_pending_deployment_transaction, under the deployment lock.
NoPendingTransaction == pending = Absent

\* The command must run from the environment of the candidate, which must be
\* the release the link selects.
InstalledRuntimeIsActive == ActiveReleaseCommit = candidate
\* The files of the package as they are installed.
InstalledDistribution == parts["package"]
\* _installed_dependency_identity raises when a version is not the locked one.
InstalledDependenciesMatch == parts["dependencies"] = files.lock

HostProfile ==
  [boot |-> LinuxBootId, package |-> InstalledDistribution,
   dependencies |-> parts["dependencies"], model |-> EnumerateModelFiles,
   configuration |-> parts["configuration"], artifacts |-> Digests(files)]

\* host-profile binds every other artifact, so all of them must exist.
CreateHostProfile ==
  /\ NoPendingTransaction
  /\ InstalledRuntimeIsActive /\ InstalledDependenciesMatch
  /\ CaptureEffectiveConfiguration
  /\ \A kind \in BoundKinds : files[kind] # Absent
  /\ Undisturbed
  /\ Write("profile", HostProfile)

(***************************************************************************)
(* production-gate: one operator per validator                             *)
(***************************************************************************)
\* Mutant: only a stamp from the future is refused.
FreshForever(created_at, validity) == created_at - now <= MaxClockSkew

\* The gate compares the stamp with its own clock.
Fresh(created_at, validity) ==
  /\ created_at - now <= MaxClockSkew
  /\ now - created_at <= validity

ValidateReport(kind) ==
  /\ files[kind].lacks \in {"none", "sessions"}
  /\ Fresh(files[kind].created_at, ReportValidity)

ValidateRelease == ValidateReport("release")
ValidateQuality == ValidateReport("quality")
\* The endpoint, the recovery probe and the totals, then the sessions one by one.
ValidateWebsocket == ValidateReport("websocket")
ValidateSessions == files.websocket.lacks # "sessions"

\* The wheel carries the commit it was built from.
ValidateWheel == files.wheel = Reviewed

\* What the bill of materials and the lock say of the packages.
ValidateSbom == files.sbom
ValidateDependencyLock == files.lock
SbomMatchesLock == ValidateSbom = ValidateDependencyLock

\* The manifest lists the retained files, and the ones that were loaded.
ValidateModelManifest ==
  /\ files.manifest = files.model
  /\ files.release.model = files.manifest

\* The configuration the profile or the state found loaded is the retained one.
ValidateEffectiveConfiguration(configuration) == configuration = files.configuration

\* The candidate's own environment, installed from the retained wheel ...
ProfileRuntime == files.profile.package = files.wheel
\* ... the locked dependencies ...
ProfileDependencies == files.profile.dependencies = ValidateDependencyLock
\* ... and the digests of everything else.
ProfileArtifacts ==
  /\ files.profile.artifacts = Digests(files)
  /\ files.profile.model = files.model

ValidateHostProfile ==
  /\ ProfileRuntime /\ ProfileArtifacts
  /\ ValidateEffectiveConfiguration(files.profile.configuration)

ValidateDeploymentState ==
  /\ files.state.active_commit = candidate
  /\ ~files.state.pending
  /\ Fresh(files.state.created_at, StateValidity)
  /\ ValidateEffectiveConfiguration(files.state.configuration)

\* Models are compared by revision here and by content elsewhere.
SameRevisionAs(model, other) == (model \in SameRevision) <=> (other \in SameRevision)

\* Every phase carries a WebSocket report of its own, which must be fresh.
ValidatePhase(report) == Fresh(report.created_at, ReportValidity)

\* Mutant: models are compared by their revision only.
WebsocketModelUnbound ==
  /\ SameRevisionAs(files.quality.model, files.release.model)
  /\ SameRevisionAs(files.websocket.model, files.release.model)

ValidateDeploymentActivation ==
  LET report == files.activation
  IN  /\ report.final_active_commit = candidate /\ report.previous_commit # candidate
      /\ ValidatePhase(report)
      /\ SameRevisionAs(report.model, files.websocket.model)

\* To the previous release and back; the model that came back is compared.
ValidateRollbackRehearsal ==
  LET report == files.rehearsal
  IN  /\ report.final_active_commit = candidate /\ report.previous_commit # candidate
      /\ ValidatePhase(report)
      /\ SameRevisionAs(report.model, files.websocket.model)

SameBoot ==
  /\ files.profile.boot = files.activation.boot
  /\ files.profile.boot = files.rehearsal.boot
  /\ files.state.boot = files.profile.boot
  /\ files.activation.previous_commit = files.rehearsal.previous_commit

\* The unit and the proxy configuration, each on its own and together.
ValidateConfiguration == files.configuration \in Hardened

\* The three reports speak of one model.
SameModel ==
  /\ SameRevisionAs(files.quality.model, files.release.model)
  /\ files.websocket.model = files.release.model

NoFailures ==
  /\ ValidateRelease /\ ValidateQuality /\ ValidateWebsocket /\ ValidateSessions
  /\ ValidateWheel /\ SbomMatchesLock
  /\ ValidateModelManifest /\ ValidateHostProfile /\ ProfileDependencies
  /\ ValidateDeploymentState
  /\ ValidateDeploymentActivation /\ ValidateRollbackRehearsal
  /\ SameBoot /\ ValidateConfiguration /\ SameModel

\* A file that cannot be read is an error of the command, not a verdict.
RunProductionGate ==
  /\ verdict = "none"
  /\ \A kind \in DOMAIN files : files[kind] # Absent
  /\ verdict' = IF NoFailures THEN "passed" ELSE "failed"
  /\ UNCHANGED <<now, offset, host, files, disturbances, lastLive>>

GateNext ==
  \/ Tick \/ Reboot \/ DaemonReload \/ Finalize \/ Recover
  \/ \E part \in Parts : Replace(part)
  \/ \E kind \in Artifacts : Misplace(kind)
  \/ \E part \in {"model", "configuration"} : Retain(part)
  \/ \E commit \in Commits, reported \in BOOLEAN :
       Activate(commit, reported) \/ Rehearse(commit, reported)
  \/ RunReleaseGate \/ EvaluateQualityGate \/ RunWebsocketGate
  \/ CreateModelManifest \/ CreateDeploymentState \/ CreateHostProfile
  \/ RunProductionGate

GateSpec == GateInit /\ [][GateNext]_gateVars

(***************************************************************************)
(* Properties                                                              *)
(***************************************************************************)
Maybe(S) == S \cup {Absent}

\* The host, the marker, the clock and every file have the shape the commands give them.
GateTypeOK ==
  /\ now \in 0..MaxTime /\ offset \in Offsets /\ boot \in Boots
  /\ active \in Commits /\ pending \in Maybe(Markers)
  /\ parts \in [Parts -> Contents] /\ reloaded \in BOOLEAN
  /\ \A kind \in {"release", "quality", "websocket"} : files[kind] \in Maybe(Measurements)
  /\ \A kind \in {"activation", "rehearsal"} : files[kind] \in Maybe(Transitions)
  /\ files.state \in Maybe(States)
  /\ {files.manifest, files.model, files.configuration} \subseteq Maybe(Contents)
  /\ {files.wheel, files.lock, files.sbom} \subseteq Contents
  /\ verdict \in {"none", "passed", "failed"}
  /\ disturbances \in 0..MaxDisturbances
  /\ lastLive \in [Situations -> Maybe(0..MaxTime)]

\* A verdict is about a release that was there as a whole. When the gate passes,
\* there was a moment, within the validity of the deployment state and whatever
\* the host's clock is ahead, in which the candidate was live on the boot it was
\* activated on, with the very model the public sessions loaded, the package of
\* the wheel, the dependencies of the bill of materials and the configuration
\* that was validated: the evidence, collected one file at a time, is not pieced
\* together from an activation that was rolled back, another boot, or parts that
\* were never there at once (production_gate.py:3017, 3369). It says nothing of
\* the host at the time of the verdict, which the gate does not look at.
CandidateWasLive ==
  verdict = "passed" =>
    LET seen == lastLive[<<files.activation.boot, files.websocket.model, files.wheel,
                           files.sbom, files.configuration>>]
    IN  seen # Absent /\ now - seen <= StateValidity + offset
=============================================================================
