# A TLA+ model of the OPC UA trust distribution system

This directory specifies, model-checks and proves properties of the system in
`src/`: a Global Discovery Server (GDS) that issues certificates and publishes
trust, an agent that carries them into OT runtimes, and a DMZ gateway between
the OT and IT networks. Line numbers refer to the repository's files.

- [The system](#the-system): the inventory, part by part
- [The modules](#the-modules): what each models, how it maps to the code
- [The runs](#the-runs): what TLC checks, with which bounds
- [The proofs](#the-proofs): what holds for every value of the constants
- [Where code and documentation disagree](#where-code-and-documentation-disagree)
- [What is left out, and the plan](#what-is-left-out-and-the-plan)

Run, in this directory, `tlc -config X.cfg MCModule` for a configuration and
`tlapm XProofs.tla` for a proof module.

## The system

### Parts

**GDS control plane** (`src/gds/app`). A FastAPI process: request threads, one
artifact scan thread (`main.py:208, 2614-2632`) and one audit sender thread
(`main.py:210`), over a PostgreSQL database at READ COMMITTED and a Vault CA.
*Every* function of `db.py` opens its own connection and commits its own
transaction, so a request is a sequence of atomic steps between which any other
request may run. Three locks exist, all in process memory: the artifact
regeneration lock (`main.py:84`), the token store's, the Vault client's.

| component | state | operations | correct when |
|---|---|---|---|
| trust publication (`main.py` 2437-2632, 2785-2931; `db.py` 540-760, 870-960) | `trust_lists`, `trust_artifacts`, `certificates`, `applications`; regeneration lock; last regeneration time per target | read, rebuild or build a target's trust; scan loop; revoke; register, heartbeat | versions and revisions are consecutive; a revocation that was answered is published and stays published; the scan loop repairs what faults left |
| package lifecycle (`db.py` 1369-1430; `main.py` 1140-1215, 2094-2144) | `certificate_packages`, `package_events` | lifecycle reports of the agent, revocation, component lookup | no report moves a package backwards; revocation sticks; lookups never present a revoked certificate |
| issuance (`lifecycle.py`; `main.py` 1858-1969, 2950-3060) | `certificate_requests`, `certificates`, `certificate_packages` | REST and component enrollment, renewal, dry run | packages of an application form a chain of generations; a request's status is backed by rows; a CSR is not certified twice |
| audit forwarding (`dmz_collector_sender.py`) | `audit_events`; a cursor in memory | insert (all threads), poll, post | each row is posted at most once, in order, and none is passed over without a reason |
| Vault client, agent authentication, middleware, inventory, signing, adapters, configuration | token and sealed state; token store | | see PROJECT.json |

**Agent** (`src/gds-agent/app/main.py`). A daemon that syncs signed trust
artifacts and certificate packages, verifies and caches them, stages them, and a
command line whose commands activate, apply, renew, quarantine and roll back.
Every command is a process of its own. They share files only; nothing but the
daemon's own loop serialises them.

| component | state | operations | correct when |
|---|---|---|---|
| trust sync (5658-5725, 5965-6760, 3620-3693) | cached trust lists, `pki/crl.der`, difference reports | per target: fetch artifact and signature, verify, refuse replays, write CRL, report, cache; the same without signatures | a list never goes back; its CRL is in force first; no change goes unreported; the daemon catches up |
| package sync (5727-5963) | cache and stage directories | pull, verify, stage; PULLED, VERIFIED, STAGED reports every cycle | lifecycle never goes back |
| package activation (4450-4640, 8788-8988) | staged bundle, runtime trust store, rollback snapshot and manifest, receipts | compare, snapshot, copy and verify file by file, receipt, report | whatever dies when, the change can be undone; receipts tell the truth; success means installed |
| component commands (2864-3457), CRL apply (1482-1743), approvals and gate (601-1169) | `trust-material.json`, `enrollment-result.json`, approvals, calendar, CRL and certificate directories | enroll, pull, apply (trust only, package, auto); create an approval | an apply leaves the artifact's files and no stale ones; a refused apply changes no CRL there was; whoever must agree has agreed |
| staging merge (1873-2240), quarantine (3776-4270), preflights (4273-5034), telemetry (5223-5655), gate cycle (6801-7157) | quarantine, tombstone, dedup files | | see [the plan](#what-is-left-out-and-the-plan) |

**DMZ gateway** (`src/opcua-dmz-gateway/src`). A single-threaded C program: a
loop that reads the OT server, fills a cache, writes Influx batches and serves
the IT side (`main.c`), and a GDS client run as separate processes by
`entrypoint.sh` or by hand (`gds_client.c`). The processes of the client share the
cache and runtime PKI directories; only the lifecycle loop takes a lock.

| component | state | operations | correct when |
|---|---|---|---|
| GDS client (`gds_client.c`) | cached answers, `trust-version.json`, renewal record, `lifecycle.lock`, runtime PKI; on the GDS side the reported artifact | check (compare, pull, apply, renew, report), loop, pull, enroll, renew, apply | one loop at most; refused material never reaches the runtime; what an artifact names reaches the runtime together and does not go back; renewals keep their distance; every new artifact arrives |
| data path (`entrypoint.sh`, `main.c`, `southbound_client.c`, `northbound_server.c`, `cache.c`, `influx_writer.c`) | sessions, cached values, batch | wait for OT, connect, poll, post, serve | the historian gets what the IT server answers; the server keeps answering; values follow OT |

### Interactions

```
 request threads --- transactions ---> PostgreSQL <--- scan loop, audit sender
       |  ^                                                   |
       v  | issue / revoke / CRL                              v
     Vault                                            DMZ collector (posts)
       ^
 agent daemon --- pull artifact/package, report events ---> request threads
 agent commands --- files (cache, stage, runtime, receipts) --- agent daemon
 gateway GDS client --- pull, renew, report ---> request threads
 OT server <--- poll --- gateway loop --- serve ---> IT clients; post ---> InfluxDB
```

### What is hard

Interleavings of requests between two transactions (duplicate check and insert,
read and write of a lifecycle state, two readings of a generation, of a revision,
of a list); a Vault call that fails or succeeds unanswered between them;
restarts, which lose the lock, the throttle and the audit cursor and roll back
open transactions; reports that are lost, late or repeated; commands that die
between two files or overlap; a loop that is one thread and must not be held up by one of
its peers. PROJECT.json lists each such hazard at its line with
the properties that cover it.

## The modules

| module | what it is |
|---|---|
| `TrustPublication` | the GDS's publication of trust and revocation; refines `PublishedTrust` |
| `PublishedTrust` | abstract: what those who pull artifacts may rely on |
| `PackageLifecycle` | lifecycle updates, revocation of packages, lookups and the agent's reports |
| `CertificateIssuance` | issuance, transaction by transaction; refines `PackageLineage` |
| `PackageLineage` | abstract: per application and profile, a chain that grows at its end |
| `AuditForward` | the audit trail's cursor and the collector |
| `PackageActivation` | activation runs over a shared runtime |
| `AgentSync` | the agent's trust cycles, with `PublishedTrust` as the GDS they pull from |
| `ComponentApply` | the agent's component commands, file by file, behind the approval gate |
| `GatewayLifecycle` | the gateway's GDS client: checks, loop, commands, and what GDS knows of it |
| `GatewayBridge` | the gateway's data path from OT to IT and InfluxDB |
| `ForwardingProofs` | theorems about the two forwarders, `AuditForward` and `GatewayBridge`: each hands batches on, in order, to a receiver that may not answer |
| other `*Proofs` | theorems about the module of that name |
| `MC*` | small instances for TLC |

### TrustPublication

State: the rows of the database as functions (`certStatus`, `pkg`, `list`,
`artifact`; `pending` is an uncommitted row of `trust_lists`), Vault's CRL, the
memory of the process (`regenLock`, `throttled`), and for every thread and the
scan loop a program counter with its locals. A step is one transaction, one Vault
call, or one section under the lock. `EnsureDesired`/`EnsureCompare` are the two
readings of `ensure_trust_list_current`; `BuildMax`, `BuildInsert`, `BuildCommit`
are `build_trust_list` with the unique index on (zone, role, version) that makes a
second insert wait, then fail (`BuildConflict`); `FetchList` .. `PublishArtifact`
are `_get_or_regenerate_signed_artifact` with both sections of the lock; `Revoke`
.. `AnswerRevoked` are `revoke_certificate`. `Desired(t)` is the selection of
`db.py:579-630`: every producer the target consumes contributes its
`ActiveCertificate`, which is the one of its activated package stored last (`Filed` is the
order of the packages' `created_at`), and without one its newest active certificate.
`home` is an application's zone and role, which registration rewrites together with
the status. A revocation rebuilds the target it read at its beginning (`Revocation`),
and `RevokePackages` may leave a package as it is: one stored after the listing, or one
that is EXPIRED. A CRL is the set of revoked serials. `ttlLow` is the artifact's age
against its thresholds; signatures, fingerprints and zones' names are abstracted.
Vault errors (`VaultError`), calls that succeed unanswered
(`VaultRevokeUnanswered`) and `Restart` happen anywhere, up to `MaxFaults`.

### PackageLifecycle

A package has a lifecycle state, a status and its event history. The update is two
steps because its SELECT takes no lock: `Select` reads, `UpdateReport` or
`UpdateRevoked` writes what was computed from the reading. The agent's sync loop
(`SyncReport`) waits for each answer, up to its timeout (`SyncReportFails`: lost, or
answered too late), and starts over in every cycle; the activation command reports
from another process. Revocation lists the packages once and visits them newest
first; the lookup reads activated packages, then each certificate.
`PostEvent` is the event endpoint as any authorised client may use it: its body admits
eight of the ten states (`Postable`), and the instance chooses which are asked for
(`Posted`). EXPIRED ranks above REVOKED, so a revocation does not mark a package that is
already EXPIRED; `RevocationSticks` says so, and `covered` counts the packages it speaks of.
`ActivationReport` asks for ACTIVATED alone: what a failed activation posts is an event.

### CertificateIssuance

A call is a program counter through `issue_certificate_package`; `Abort` ends it
anywhere (exception or crash). The generation is read in `ReadLineage` and stored in
`StorePackage`, guarded by UNIQUE (application, profile, generation). Renewals skip
the duplicate check, as in the code. Application and profile are the request's
(`LineOf` of the call), whatever its CSR; `Kinds` are the endpoints a call may come from.

### AuditForward

`Insert` takes an id, `Commit` makes it visible, in any order. The sender starts at
the newest visible row (`InitCursor`) or blindly at 0, and reads at most `BatchSize`
rows above its cursor (`Poll`), which it advances at once. `Send` posts a prefix (the
payload limit), `SendFails` nothing; there is no retry. A post that arrives although
its answer is lost counts as `Send`.

### PackageActivation

A run goes through check, comparison, snapshot, copies with verification, receipt
and report, one file per step. Content is the package a file came from. Several runs
may be at work, each may fail (`Fail`) or be killed (`Die`), and staging may rewrite
a bundle underneath (`RestageBegins`, `RestageEnds`). `Validate` passes only a
complete bundle: its checksums are part of the check. `alone` remembers whether a run
ever overlapped with another.

### AgentSync

The GDS side is an instance of `PublishedTrust`, the abstract specification that
`TrustPublication` implements: the agent is checked against what GDS is shown to
promise, with the version of the list each artifact was made from beside it
(`Publish` may use an older list after a newer one, as a slow request does).
`cycle[p]` is a process within `run_sync_cycle_signed`: which target's turn it is, what
was cached when the turn began, what GDS answered. One step is one request or one file:
`FetchArtifact` and `FetchSignature` are two requests between which GDS may publish;
`WritePki` writes `crl.der` once in a cycle (`written`), `Report` the difference, and
`WriteList` the list, in that order. `TargetFails` gives one target up, `CycleFails` is an
exception outside the per-target handler or a kill. Unsigned cycles (`FetchCrl`,
`WriteCrl`, `FetchList`) share the files, and `Reconfigure` switches between the two
modes. A command's cycle overlaps with the daemon's; `stale` and `spoiled` account for it.

### ComponentApply

One target's runtime. `run[p]` is a command with its next step, the artifact it holds
and the CRL files it kept for a rollback. `disk` gives each file
the revision its content is from, 0 when it is not there. `Kind` says what the code
makes of a file's name: which stems it controls, deletes and writes
(`_GDS_CONTROLLED_CRL_STEMS`), which files are validated although nobody here writes
them. `WriteChain`, `SnapshotLists`, `Delete`, `Write`, `Validate`, `Restore` and
`WritePeers` are `_write_target_stage_material`, a file at a time; `StagePackage` and `Copy` stand for the
activation that the mode certificate_and_trust runs. `Agreed`, `Override` and `GateOpens`
are the gate, `KeyGateOpens` the gate before the
first enrollment creates the private key. `WritesAreAgreed` does not use the gate's terms:
`Permitted` reads off the approvals and the calendar what the operators allow at the
moment (two different operators where the level is dual; outside the window an
emergency approval of one of those who agree), and `AgreedStep` demands it of every step by
which a process begins to write, or creates the key. `Age` lets CRLs pass their nextUpdate, `ApprovalExpires` an approval its
end, and `Ends` kills a process anywhere. `clean`, `before` and `tangled` are accounting.

### GatewayBridge

`place` is where the gateway is in `entrypoint.sh` and in the loop of `main.c`; a point is read per
step (`ReadPoint`), which writes the cache and appends to `readings`. `nsIdx` is resolved
in `Connect` only, so after an OT restart with another namespace table every read fails
until the gateway connects again, which it does only after a failed poll, and no poll
fails (`PollEnds`). `Boot` is the start up to the first look at OT: it ends the gateway when the IT server
cannot be set up (`NorthboundInit`) and also when the start-up exchange with GDS
fails (`main.c:76-105`). `Cut` is the line buffer that is too short for a long double.
`Post` is an attempt: stored and answered, stored and not answered, or refused.
OT, the library's session, InfluxDB and the PKI files that the GDS client rewrites
(`MaterialChanges`) are the environment. The labels' classification into measurement and
tags is one-to-one on the whitelist, so a point stands for it; the whole whitelist fits
the batch buffer, so the code that drops a line is not reached.

### GatewayLifecycle

The client for one identity and its one target. GDS is what its answers depend on
(`current`, `reported`, `issued`); the cache and the runtime are files,
each known by the artifact or certificate it was written from, 0 when it has no usable
content. Whether renewal is due GDS judges by the certificate of an ACTIVATED package when
there is one (`main.py:1151-1177`), and the gateway reports no activation: once a
certificate is issued, a check may be told either (`DueAnswers`), also right after a renewal. `run[p]` is a process: its command, its next step and the answers it holds.
A step is one request or one file; `After` gives the order of the steps and where a
failure leads, which is seldom to the end: a check applies the cached material also
when the pull has failed, and always reports. An apply writes, in this order, the CA
certificates (`chain`), the revocation lists (`crl`), the peers' certificates (`certs`)
and, of an enrollment or renewal, `own`, and finds only after the chain that a list is
missing. The lists have fixed names; certificates are written under the names the artifact gives them
(`Named`, `Writes`), and nothing is ever deleted: the file of a certificate that the
artifact does not name stays as it was. `RequestFails` includes answers that are lost (GDS may have issued the
certificate), `WriteFails` and `Die` leave the file at work truncated or as it was
(`Damage`), and a dead loop leaves its lock. `alone`, `fresh`, `spoiled` and `renewed` are
accounting for the properties. Steps of different processes interleave by whole
files; the CSR never changes, since the private key exists from the start.

## The runs

| run | instance | shows |
|---|---|---|
| `trust_publication` | 2 targets that trust one application, 1 request thread and the scan loop, 2 certificates whose packages are stored in the other order, 2 outside calls, 1 fault; 0.6 M states | `SignedRevisionIsRowRevision`, `RevokedSerialIsPublished`, `RevokedNeverListedAtHome`, the refinement of `PublishedTrust`, and `Converges` under fairness |
| `package_lifecycle` | 2 certificates of one application, the package of the first, 2 threads; posts of ROLLED_BACK and EXPIRED beside the agent's reports; reports and restarts without bound; 1.7 M states | `RevocationSticks`, `LookupHonoursRevocation`, `OnlyOvertakenWritesRegress` |
| `package_regress` | the same, EXPIRED alone being posted | violation: see below |
| `certificate_issuance` | 3 calls for 2 application profiles, 2 CSRs any of them may bring, 1 abort; 0.3 M states | `AbandonedHasNoCertificate`, `EnrolledCsrIsRefused`, and the refinement of `PackageLineage` |
| `audit_forward` | 4 rows, batches of 2, 2 faults | `OnceInOrder`, `NoSilentLoss`, `CatchesUp` |
| `package_activation` | 2 runs, 2 plans of 2 packages, 2 files (one a CRL), 1 restaging; 0.5 M states | `UndoBeforeChange`, `RollbackRestores`, `SuccessMeansInstalled` |
| `activation_receipts` | the same | violation: see below |
| `gateway_lifecycle` | 1 process, every command but the bare pull, 4 artifacts (one refused, one without lists, one that no longer lists a peer), 3 files (CA, list, peer), 3 certificates, 1 fault; 3.0 M states | `RuntimeIsWhole`, `RefusedStaysOut`, `FreshIsApplied`, `RenewalIsPaced` |
| `gateway_detects` | 1 loop, 2 artifacts, no fault, fair | violation: see below |
| `agent_sync` | 2 targets, the daemon and a command, 1 certificate, 2 lists, 2 publications (of one target or of both, the older list after the newer one among them), 1 fault or change of mode; nothing is published at first; it starts signed, unsigned cycles come through the change; 1.1 M states | `CrlNotBehindItsList`, `NoReplay`, `ChangeIsReported`, and `CatchesUp` under fairness of the daemon |
| `component_apply` | 2 processes, 5 files (a CRL of each kind of name that is handled differently: root, trusted, alias, leftover, local), 2 revisions, one without a root CRL, 2 operators, dual approval, 2 events (expiry, calendar, failure, death, overlap, a renewed local CRL); 1.5 M states | `ApplyIsExact`, `RefusalIsHarmless`, `WritesAreAgreed` |
| `gateway_bridge` | 3 points (one missing in OT, one whose number may be cut), 2 values each, 1 request that times out; unbounded restarts of OT, losses of the session, changes of the files; 0.9 M states | `HistorianAgrees` (with it that the historian is never ahead of the IT server), and `KeepsAnswering` and `FollowsOt` under fairness of the gateway |

Every module's `TypeOK` (`BridgeTypeOK`) is checked with its first run.

**Bounds.** `MaxRequests` and `MaxFaults` bound what comes from outside, never how far
the code gets with it. Two processes (a request and the scan loop, two threads, the daemon and a command)
suffice for the pairwise races over one target, list version or package that the hazards name; one call with one fault and one repeat
is the shortest history in which a half-done revocation is repaired. Three issuance
calls let two race while a third has already finished. Four rows in batches of two
give a full batch, a partial one and an overtaken row in each. One package, its
certificate and a younger certificate without one are what a lookup has to choose between; with two packages the
races over one of them are the same, and the proofs cover any number. Two files are the
fewest with a state between "none" and "all" copied. Four artifacts let one that no longer lists
a peer follow one that does, with one that is refused and one that breaks an apply between them; three certificates
let a renewal follow a renewal. One process suffices for everything sequential, faults included. In `component_apply` an event may be spent on an overlap, so two
events give a failure or an expiry beside another process. The root CRL is the one in the compatibility
directory; the intermediate and issuer CRLs, certificate and peer files are left to the proofs. `MaxTimeouts` bounds single failed reads only: whole cycles fail
through the session. A second value per point is the fewest with a stale one. The proofs below remove the
bounds for the safety properties.

**Symmetry** is used only over threads, calls, CSRs and processes that the instance does not
tell apart, only in runs without liveness.

**Views** leave out of a state what neither a later step nor a property reads: the event history
but for EXPIRED (`package_lifecycle`), the order of approvals and what a process will not look
at again (`component_apply`), a command's answers and documents once it has used them, and which of the older artifacts a number is that
is compared with the newest only (`gateway_lifecycle`).

**Deadlock** is not checked where the instance runs out of calls (`MaxRequests`, calls
and runs that are used once, `MaxCerts`); `PackageLifecycle`, `AgentSync`, `ComponentApply` and `GatewayBridge`
never stop, and there it is.

**Fairness.** `TrustPublication!Fairness`: a thread or the scan loop that has a step
to do takes it (a runnable thread runs; locks and transactions are released by
steps), the scan loop is a `while True` that sweeps again, and the throttle interval
passes with time. API calls, faults and the environment are never fair.
`AuditForward` assumes the sender's loop goes on, including that a post ends, well or
not (it has a timeout). `GatewayLifecycle!FairSpec` schedules the processes and ends the
loop's sleep; it is used only where TLC refutes `DetectsChanges`. `AgentSync!FairSpec` is fair to
the daemon's loop alone, which is a `while True` with a sleep and whose requests have
timeouts; the commands are started by people and may hang. `CatchesUp` is about a GDS that has come to
rest. `GatewayBridge!Fairness` is that the one thread of the gateway goes on: reads and posts have
timeouts, sleeps end. It assumes nothing of OT, InfluxDB or the files; `KeepsAnswering`
and `FollowsOt` name what they need of them in their premises.

**Every property has a mutant**: a definition named as such in the module, the way a
plausible defect would change the one it stands next to, with which TLC finds the
property violated.

## The proofs

Each proof module states an inductive invariant (`IInv` or `Inv`), proves that the initial
states satisfy it and every action preserves it (one lemma per action or group), and
derives the theorems. The assumptions are the named ASSUMEs of the modules: types
and finiteness of the constants, distinct markers; nothing about sizes.

| theorem (module `XProofs`) | property | rests on |
|---|---|---|
| TrustPublication: `SignedRevision` | `SignedRevisionIsRowRevision` | the lock's holder works on the newest artifact (`LockInv`, `SigningInv`) |
| `RevocationPublished` | `RevokedSerialIsPublished` | how far each revocation has come (`RevokingInv`); the CRL in a signer's hands includes the published one |
| `RevocationDelisted` | `RevokedNeverListedAtHome` | a revocation rebuilds its own list after marking, and no pending list of that target has the certificate (`ListingInv`) |
| `ConsecutiveVersions` | `ListVersionsAreConsecutive` (proved only) | an uncommitted list is unique per target and succeeds the newest (`BuildInv`) |
| `Implements` | `ImplementsPublishedTrust` | all of it: every step is a `Revoke`, a `Publish` or a stutter |
| PackageLifecycle: `HistoryExplained` | `HistoryExplainsState` (proved only) | an update in flight read a state its history explains |
| `RevocationStays` | `RevocationSticks` | status never returns from revoked; a visited package is marked, unless its history has EXPIRED |
| `LookupHonours` | `LookupHonoursRevocation` | a certificate's status is read last and never returns |
| `RegressionNeedsOvertaking` | `OnlyOvertakenWritesRegress` | `Target` never goes below what was read |
| CertificateIssuance: `Chain` | `LineageIsAChain` (proved only) | the generation read still follows the chain when the unique constraint lets it be stored |
| `NoStrayCertificate`, `Backed`, `Refused` | `AbandonedHasNoCertificate`, `StatusIsBacked` (proved only), `EnrolledCsrIsRefused` | what every step of a call finds in the tables |
| `Implements` | `ImplementsLineage` | the generations of a line are 1 to the number of its packages (`Numbered`), so a stored package has the next number and its line becomes the old one with it appended (`StoreAppends`) |
| Forwarding, audit: `PostedOnceInOrder`, `LossIsExplained` | `OnceInOrder`, `NoSilentLoss` | everything posted is at or below the cursor, batches lie above it |
| Forwarding, gateway: `HistorianAgreement` | `HistorianAgrees` | a batch is the whitelist read so far and equals the cache (`ReadInOrder`, `CacheHoldsReadings`), what is said of it is so (`NothingSaidYet`, `WrittenIsStored`, `FailedWasRetried`), and OT, cache and bucket are ever older (`OlderDownstream`) |
| `AnswersNeverGoBack` | an action property (proved only): no step makes a cached value older | the same |
| PackageActivation: `UndoFirst`, `RollbackIsFaithful`, `UnstartedIsHonest`, `ReportsAreReceipted`, `SuccessIsInstalled` | `UndoBeforeChange`, `RollbackRestores`, `UnstartedLeftAlone` and `ReportedHasReceipt` (proved only), `SuccessMeansInstalled` | a run that is alone may rely on what it read; its snapshot and list are the runtime it found; what it copied stays |
| AgentSync: `CrlKeepsUp` | `CrlNotBehindItsList` | a process that is not overtaken and has written the CRL this cycle holds a list whose CRL is in force |
| `ReplayRefused`, `ChangesReported` | `NoReplay`, `ChangeIsReported` | what a process that is not overtaken holds as cached is cached; the difference from it is among the reports |
| ComponentApply: `AppliesExactly`, `RefusalsAreHarmless` | `ApplyIsExact`, `RefusalIsHarmless` | how far a clean apply has come in each loop over files (`InPlace`); without overlap what is pulled never goes back (`Forward`) |
| `WritesAgreed` | `WritesAreAgreed` | the gate counts operators, the property asks for a pair: a count of two finds one (`AgreementHasPairs`, `GatePermits`); whatever writes has come through the gate (`WorkWrites`) |
| GatewayLifecycle: `LoopIsAlone` | `OneLoop` (proved only) | whoever loops owns the lock |
| `RefusedNeverApplied` | `RefusedStaysOut` | from its loading to the last part, the document in hand is admissible |
| `RuntimeIsOfOneArtifact` | `RuntimeIsWhole` | how far an apply has come, file by file of those its document names (`Written`), as long as nothing was cut short or overlapped (`Whole`) |
| `WhatIsFetchedIsApplied`, `RenewalsArePaced` | `FreshIsApplied`, `RenewalIsPaced` | what a process that is alone has filed last is what it loads, and what it found past its cooldown stays so (`Held`); the record is as young as what it stands for (`Recent`); a check's course (`Course`) |

Every one of these modules also has `TypeCorrect` (the gateway's data path `BridgeTypeCorrect`); `Invariance` (`BridgeInvariance`) states the inductive
invariant itself, and `StrongInvariance` of the gateway's client a second one on top of it. "Proved only" are properties that no run checks any more, because the proof covers every
instance. `ComponentApplyProofs` covers every set of files and every kind, the CA
certificates, peers and `current.crl` of the issuer directory among them.

Why the properties alone are not inductive: each speaks of published rows, and says
nothing of what a thread between two transactions is about to write. The
strengthenings are about exactly those threads. `RevokedNeverListedAtHome` is the
clearest case: it needs that no *uncommitted* list of the target holds the certificate.

The refinement of `PackageLineage` needs arithmetic about sets: `Lineage` orders the
packages of a line by CHOOSE and Cardinality, and is a sequence of packages only while no
generation is missing or taken twice. `LineageIsAChain` gives the second, `Numbered` the
first; both survive because the insert that meets a taken generation fails.

Only model-checked: the liveness properties `Converges`, both `CatchesUp`,
`KeepsAnswering` and `FollowsOt`, since fairness is outside the prover's reach. Every
invariant, action property and refinement that a passing run checks has its theorem.

## Where code and documentation disagree

1. `package_regress`: the lifecycle of a package can go backwards, since the update
   reads without a lock (`db.py:1395`); the README calls it non-regressive.
   `OnlyOvertakenWritesRegress` is what does hold.
2. `activation_receipts`: an activation whose last copy was made, but not its
   receipt, is taken for complete when repeated; no receipt is ever written
   (agent `main.py:4535`).
3. `gateway_detects`: a check overwrites `trust-version.json` with GDS's version
   whatever it pulls (`gds_client.c:1306`) and reports that file. An artifact published
   between its two questions is reported as installed and never pulled.

More are in the models and have no run of their own:

- A package that is EXPIRED when its certificate is revoked keeps the status 'active', although the
  revocation answers 200: EXPIRED ranks higher and the update is ignored as regressive
  (`db.py:1399`; `Target`). Lookups honour the revocation all the same, through the certificate.
- A peer that a new artifact no longer lists stays trusted by the gateway after a clean apply:
  certificates are written by name and none is deleted, and the server loads the whole directory
  (`gds_client.c:883-904`, `northbound_server.c:118-166`; `Writes`). `RuntimeIsWhole` speaks of the files
  an artifact does name.
- While applies fail, every check renews the certificate again: GDS goes on saying that renewal is due,
  and the cooldown is recorded after an apply only (`main.py:1151-1177`, `gds_client.c:1346`; `DueAnswers`, `RecordRenewal`).
  `RenewalIsPaced` says what the cooldown does hold back.
- A revocation rebuilds the artifact of the certificate's own target only; consumers keep
  offering the revoked certificate until they are read or swept (`main.py:2857`;
  `Revoke` .. `AnswerRevoked`), while the GDS README speaks of active, non-revoked
  certificates. `Converges` is the promise that does hold.
- Two enrollments with one CSR that overlap both succeed, since the duplicate check
  and the insert are separate transactions (`lifecycle.py:87`, `:99`; `CheckDuplicate`,
  `InsertRequest`).
- A gateway check enables runtime writes itself (`gds_client.c:1320`, `1341`; `Load`),
  which the GDS README (line 34) says only `DMZ_GDS_RUNTIME_WRITE_ENABLED` does.
- Applying a package writes `current.crl.crl` (agent `main.py:1842`: `with_suffix` replaces
  `.b64` only; `Packaged`, kind "leftover"). Its stem is not one the clean-up deletes, but
  validation reads it: once it is past its nextUpdate every trust-only apply is refused,
  the symptom that the agent's README (880-905) describes as fixed.
- "Rollback restores the previous state" (agent README, line 930): files that were not there before
  stay, and so does the new CA chain (`main.py:1521`, `1612`; `Restore`, `WriteChain`).
- `main.c:146` announces a reconnect when a poll fails; `southbound_poll_once` never reports a
  failure (`southbound_client.c:492`; `PollEnds`). After an OT restart that moves the namespace index the
  cache keeps its last values until the gateway is restarted.

## What is left out, and the plan

Left out for good: cryptography (a signature stands for what it was computed over),
certificate and environment parsing, formatting and logs, static tables
(`runtime_adapters.py`), deployment files.

Order of work, most important behaviour first:

1. *Done:* `TrustPublication`, `PackageLifecycle`, `CertificateIssuance`,
   `AuditForward`, `PackageActivation`, `GatewayLifecycle`, `AgentSync`, `ComponentApply`,
   `GatewayBridge`, and the proofs of all of them.
2. `Quarantine`: moving certificates of a runtime aside and back, with tombstones, beside
   an apply that writes the same directories.
3. The merge of staged certificates by name (1873-2240), and what renewal (2784-2861) keeps
   beyond the activation.
4. The gate cycle (6801-7157), telemetry deduplication, the Vault client's token and
   sealed state: little or no state that another part depends on.
5. Proofs: that `ApplyIsExact` also holds of a package apply, up to the files a package
   does not carry; that an activation repeated after a death ends in the state of one that
   was not cut short.
