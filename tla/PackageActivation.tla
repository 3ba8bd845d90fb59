--------------------------- MODULE PackageActivation ---------------------------
(***************************************************************************)
(* Activating a certificate package in the trust store of an OPC UA        *)
(* runtime.  A run is one call of the agent's command line: it checks the  *)
(* staged bundle of a plan, compares it with the runtime, snapshots the    *)
(* runtime for rollback, copies the bundle over it file by file, writes a  *)
(* receipt and reports to GDS.  Nothing serialises runs, each may die at   *)
(* any step, and a bundle may be staged again while it is activated.       *)
(*                                                                         *)
(* A file's content is the package it came from.  What GDS makes of the    *)
(* reports is the subject of PackageLifecycle.  Private keys, and the      *)
(* other paths of PRIVATE_RUNTIME_PRESERVE_PATHS, are neither copied nor   *)
(* overwritten and are left out.                                           *)
(***************************************************************************)
EXTENDS Naturals, FiniteSets

CONSTANTS
  Runs,          \* calls of --activate-package, or of a renewal that activates
  Plans,         \* plan ids; each has a staged bundle of its own
  Packages,
  PackageOf,     \* the package of a plan
  Files,         \* relative paths, numbered in sorted order
  CrlFiles,      \* those that staging removes before it writes them again
  Staged,        \* the files of a plan's bundle
  Base,          \* the runtime before any run
  Old,           \* content of the files it holds
  None,          \* no file, no plan, no run
  MaxRestages    \* bound

Contents == {None, Old} \cup Packages
Store    == [Files -> Contents]

ASSUME ActivationAssumption ==
  /\ PackageOf \in [Plans -> Packages]
  /\ Files \subseteq Nat /\ IsFiniteSet(Files)
  /\ CrlFiles \subseteq Files
  /\ Staged \in [Plans -> SUBSET Files]
  /\ Base \in [Files -> {None, Old}]
  /\ {None, Old} \cap (Packages \cup Plans \cup Runs) = {}
  /\ MaxRestages \in Nat

VARIABLES
  bundle,      \* runtime-stage/<target>/<plan>
  runtime,     \* the files below runtime_root
  saved,       \* runtime-rollbacks/<target>/<plan>/PKI
  manifest,    \* rollback-manifest.json: who wrote it, the files it lists
  receipts,    \* activation-receipts/<target>
  reported,    \* packages GDS was told are activated
  \* the runs
  at, plan,
  todo,        \* files the current loop has left
  differs,     \* the comparison found a mismatch
  noted,       \* copied_files of the snapshot being taken
  started,     \* activation_copy_started
  \* accounting
  before,      \* the runtime when the run got to work
  touched,     \* the run has replaced a file
  alone,       \* no other run was at work while this one was
  snapper,     \* the last run to have worked on a plan's snapshot
  restages

disk    == <<bundle, runtime, saved, manifest, receipts, reported>>
locals  == <<todo, differs, noted, started>>
history == <<before, touched, alone, snapper, restages>>
vars    == <<disk, at, plan, locals, history>>

Receipts   == [by : Runs, plan : Plans, status : {"activated", "failed"}, started : BOOLEAN]
NoManifest == [by |-> None, files |-> Base]

TypeOK ==
  /\ bundle \in [Plans -> {"absent", "complete", "rewriting"}]
  /\ runtime \in Store
  /\ saved \in [Plans -> Store]
  /\ manifest \in [Plans -> [by : Runs \cup {None}, files : Store]]
  /\ receipts \subseteq Receipts
  /\ reported \subseteq Packages
  /\ at \in [Runs -> {"idle", "check", "compare", "snapshot", "copy", "verify",
                      "report", "failing", "ok", "failed", "dead"}]
  /\ plan \in [Runs -> Plans \cup {None}]
  /\ \A r \in Runs : plan[r] = None <=> at[r] = "idle"
  /\ todo \in [Runs -> SUBSET Files]
  /\ differs \in [Runs -> BOOLEAN] /\ started \in [Runs -> BOOLEAN]
  /\ noted \in [Runs -> Store]
  /\ before \in [Runs -> Store]
  /\ touched \in [Runs -> BOOLEAN] /\ alone \in [Runs -> BOOLEAN]
  /\ snapper \in [Plans -> Runs \cup {None}]
  /\ restages \in 0 .. MaxRestages

NoFile == [f \in Files |-> None]

Init ==
  /\ bundle = [p \in Plans |-> "absent"]
  /\ runtime = Base
  /\ saved = [p \in Plans |-> NoFile]
  /\ manifest = [p \in Plans |-> NoManifest]
  /\ receipts = {} /\ reported = {}
  /\ at = [r \in Runs |-> "idle"] /\ plan = [r \in Runs |-> None]
  /\ todo = [r \in Runs |-> {}]
  /\ differs = [r \in Runs |-> FALSE] /\ started = [r \in Runs |-> FALSE]
  /\ noted = [r \in Runs |-> NoFile]
  /\ before = [r \in Runs |-> Base]
  /\ touched = [r \in Runs |-> FALSE] /\ alone = [r \in Runs |-> TRUE]
  /\ snapper = [p \in Plans |-> None]
  /\ restages = 0

(***************************************************************************)
(* Staging.  The validation report comes last, so a first staging that is  *)
(* cut short leaves nothing a run would find.  Staging a plan again takes  *)
(* its CRL files away for a while, under the report of the first.          *)
(***************************************************************************)
Stage(p) ==
  /\ bundle[p] = "absent"
  /\ bundle' = [bundle EXCEPT ![p] = "complete"]
  /\ UNCHANGED <<runtime, saved, manifest, receipts, reported, at, plan, locals, history>>

RestageBegins(p) ==
  /\ bundle[p] = "complete"
  /\ restages < MaxRestages
  /\ restages' = restages + 1
  /\ bundle' = [bundle EXCEPT ![p] = "rewriting"]
  /\ UNCHANGED <<runtime, saved, manifest, receipts, reported, at, plan, locals,
                 before, touched, alone, snapper>>

RestageEnds(p) ==
  /\ bundle[p] = "rewriting"
  /\ bundle' = [bundle EXCEPT ![p] = "complete"]
  /\ UNCHANGED <<runtime, saved, manifest, receipts, reported, at, plan, locals, history>>

(***************************************************************************)
(* A run.                                                                  *)
(***************************************************************************)
Step(r, from, to) == at[r] = from /\ at' = [at EXCEPT ![r] = to]

AtWork(r) == at[r] \in {"compare", "snapshot", "copy", "verify", "report"}
Done(r)   == at[r] \in {"ok", "failed", "dead"}

\* Every loop takes its files in sorted order.
IsNext(f, r) == f \in todo[r] /\ \A g \in todo[r] : f <= g

\* Mutant: without --plan-id the plan stays unknown.
InvokeUnplanned(r, p) ==
  /\ Step(r, "idle", "check")
  /\ UNCHANGED <<disk, plan, locals, history>>

Invoke(r, p) ==
  /\ Step(r, "idle", "check")
  /\ plan' = [plan EXCEPT ![r] = p]
  /\ UNCHANGED <<disk, locals, history>>

\* Incompatible, not verifiable, gate closed, no bundle, key mismatch, ...
Refuse(r) ==
  /\ Step(r, "check", "failing")
  /\ UNCHANGED <<disk, plan, locals, history>>

GetsToWork(r) ==
  LET others == {q \in Runs \ {r} : AtWork(q)}
  IN  /\ alone' = [q \in Runs |-> alone[q] /\ (q \in others \cup {r} => others = {})]
      /\ before' = [before EXCEPT ![r] = runtime]
      /\ todo' = [todo EXCEPT ![r] = Staged[plan[r]]]

\* The gate is open, the bundle is found and its checksums are right.
Validate(r) ==
  /\ Step(r, "check", "compare")
  /\ bundle[plan[r]] = "complete"
  /\ started' = [started EXCEPT ![r] = TRUE]
  /\ GetsToWork(r)
  /\ UNCHANGED <<disk, plan, differs, noted, touched, snapper, restages>>

\* Mutant: only a missing file is a mismatch.
ComparePresence(r) ==
  /\ at[r] = "compare"
  /\ \E f \in todo[r] :
       /\ IsNext(f, r)
       /\ differs' = [differs EXCEPT ![r] = @ \/ runtime[f] = None]
       /\ todo' = [todo EXCEPT ![r] = @ \ {f}]
  /\ UNCHANGED <<disk, at, plan, noted, started, history>>

Compare(r) ==
  /\ at[r] = "compare"
  /\ \E f \in todo[r] :
       /\ IsNext(f, r)
       /\ differs' = [differs EXCEPT ![r] = @ \/ runtime[f] # PackageOf[plan[r]]]
       /\ todo' = [todo EXCEPT ![r] = @ \ {f}]
  /\ UNCHANGED <<disk, at, plan, noted, started, history>>

AlreadyActivated(r) ==
  /\ Step(r, "compare", "ok")
  /\ todo[r] = {} /\ ~differs[r]
  /\ UNCHANGED <<disk, plan, locals, history>>

SnapshotBegins(r) ==
  /\ Step(r, "compare", "snapshot")
  /\ todo[r] = {} /\ differs[r]
  /\ todo' = [todo EXCEPT ![r] = {f \in Files : runtime[f] # None}]
  /\ noted' = [noted EXCEPT ![r] = NoFile]
  /\ snapper' = [snapper EXCEPT ![plan[r]] = r]
  /\ UNCHANGED <<disk, plan, differs, started, before, touched, alone, restages>>

\* Mutant: a file the snapshot directory already has is kept.
SnapshotMissing(r) ==
  /\ at[r] = "snapshot"
  /\ \E f \in todo[r] :
       /\ IsNext(f, r)
       /\ saved' = [saved EXCEPT ![plan[r]][f] = IF @ = None THEN runtime[f] ELSE @]
       /\ noted' = [noted EXCEPT ![r][f] = saved'[plan[r]][f]]
       /\ todo' = [todo EXCEPT ![r] = @ \ {f}]
  /\ UNCHANGED <<bundle, runtime, manifest, receipts, reported, at, plan, differs, started, history>>

Snapshot(r) ==
  /\ at[r] = "snapshot"
  /\ \E f \in todo[r] :
       /\ IsNext(f, r)
       /\ saved' = [saved EXCEPT ![plan[r]][f] = runtime[f]]
       /\ noted' = [noted EXCEPT ![r][f] = runtime[f]]
       /\ todo' = [todo EXCEPT ![r] = @ \ {f}]
  /\ UNCHANGED <<bundle, runtime, manifest, receipts, reported, at, plan, differs, started, history>>

\* Mutant: the manifest is left for later.
SnapshotEndsUnlisted(r) ==
  /\ Step(r, "snapshot", "copy")
  /\ todo[r] = {}
  /\ todo' = [todo EXCEPT ![r] = Staged[plan[r]]]
  /\ UNCHANGED <<disk, plan, differs, noted, started, history>>

SnapshotEnds(r) ==
  /\ Step(r, "snapshot", "copy")
  /\ todo[r] = {}
  /\ manifest' = [manifest EXCEPT ![plan[r]] = [by |-> r, files |-> noted[r]]]
  /\ todo' = [todo EXCEPT ![r] = Staged[plan[r]]]
  /\ UNCHANGED <<bundle, runtime, saved, receipts, reported, plan, differs, noted, started, history>>

\* The staged file is there, and replaces the runtime's at once.
Copy(r) ==
  /\ Step(r, "copy", "verify")
  /\ \E f \in todo[r] :
       /\ IsNext(f, r)
       /\ ~(bundle[plan[r]] = "rewriting" /\ f \in CrlFiles)
       /\ runtime' = [runtime EXCEPT ![f] = PackageOf[plan[r]]]
  /\ touched' = [touched EXCEPT ![r] = TRUE]
  /\ UNCHANGED <<bundle, saved, manifest, receipts, reported, plan, locals, before, alone, snapper, restages>>

\* post_copy_checksum_mismatch when another run has replaced the file since.
Verify(r) ==
  /\ at[r] = "verify"
  /\ \E f \in todo[r] :
       /\ IsNext(f, r)
       /\ IF runtime[f] = PackageOf[plan[r]]
            THEN /\ at' = [at EXCEPT ![r] = "copy"]
                 /\ todo' = [todo EXCEPT ![r] = @ \ {f}]
            ELSE /\ at' = [at EXCEPT ![r] = "failing"]
                 /\ UNCHANGED todo
  /\ UNCHANGED <<disk, plan, differs, noted, started, history>>

Receipt(r) ==
  /\ Step(r, "copy", "report")
  /\ todo[r] = {}
  /\ receipts' = receipts \cup {[by |-> r, plan |-> plan[r], status |-> "activated", started |-> TRUE]}
  /\ UNCHANGED <<bundle, runtime, saved, manifest, reported, plan, locals, history>>

Report(r) ==
  /\ Step(r, "report", "ok")
  /\ reported' = reported \cup {PackageOf[plan[r]]}
  /\ UNCHANGED <<bundle, runtime, saved, manifest, receipts, plan, locals, history>>

\* GDS does not get the report; the run logs it and succeeds.
ReportLost(r) ==
  /\ Step(r, "report", "ok")
  /\ UNCHANGED <<disk, plan, locals, history>>

\* Any file operation may raise, and so may building the client for the report.
Fail(r) ==
  /\ AtWork(r)
  /\ at' = [at EXCEPT ![r] = "failing"]
  /\ UNCHANGED <<disk, plan, locals, history>>

\* A failure receipt that cannot be written is suppressed.
FailureReceipt(r) ==
  /\ Step(r, "failing", "failed")
  /\ \/ receipts' = receipts \cup {[by |-> r, plan |-> plan[r], status |-> "failed", started |-> started[r]]}
     \/ UNCHANGED receipts
  /\ UNCHANGED <<bundle, runtime, saved, manifest, reported, plan, locals, history>>

Die(r) ==
  /\ at[r] # "idle" /\ ~Done(r)
  /\ at' = [at EXCEPT ![r] = "dead"]
  /\ UNCHANGED <<disk, plan, locals, history>>

RunStep(r) ==
  \/ \E p \in Plans : Invoke(r, p)
  \/ Refuse(r) \/ Validate(r) \/ Compare(r) \/ AlreadyActivated(r)
  \/ SnapshotBegins(r) \/ Snapshot(r) \/ SnapshotEnds(r)
  \/ Copy(r) \/ Verify(r) \/ Receipt(r) \/ Report(r) \/ ReportLost(r)
  \/ Fail(r) \/ FailureReceipt(r) \/ Die(r)

Next ==
  \/ \E p \in Plans : Stage(p) \/ RestageBegins(p) \/ RestageEnds(p)
  \/ \E r \in Runs : RunStep(r)

Spec == Init /\ [][Next]_vars

(***************************************************************************)
(* Properties.                                                             *)
(***************************************************************************)
\* Whatever dies when, a file that came from a package is in the runtime only
\* when a plan of that package has left a rollback manifest.
UndoBeforeChange ==
  \A f \in Files :
    runtime[f] \in Packages =>
      \E p \in Plans : PackageOf[p] = runtime[f] /\ manifest[p].by # None

\* The snapshot a run made before it changed anything is what it found, and the
\* manifest lists it, also after the run has died halfway, until another run of
\* the plan begins a snapshot.  Runs at work at the same time spoil this.
RollbackRestores ==
  \A r \in Runs :
    touched[r] /\ alone[r] /\ snapper[plan[r]] = r =>
      /\ manifest[plan[r]] = [by |-> r, files |-> before[r]]
      /\ \A f \in Files : before[r][f] # None => saved[plan[r]][f] = before[r][f]

\* A failure receipt that says the mutation had not started is right.
UnstartedLeftAlone ==
  \A c \in receipts : c.status = "failed" /\ ~c.started => ~touched[c.by]

\* GDS hears of an activation only when its receipt is on disk.
ReportedHasReceipt ==
  \A k \in reported : \E c \in receipts : c.status = "activated" /\ PackageOf[c.plan] = k

\* A run that ends well and was alone leaves the runtime as staged, whether it
\* copied or found nothing to do.
SuccessMeansInstalled ==
  [][\A r \in Runs :
       (AtWork(r) /\ at'[r] = "ok" /\ alone[r]) =>
         \A f \in Staged[plan[r]] : runtime'[f] = PackageOf[plan[r]]]_vars

\* Activation succeeds with a receipt, and only a repeated one does without
\* another.  (Violated: when a run has died between its last copy and its
\* receipt, the next one finds nothing to do, and no receipt is ever written.)
SuccessHasReceipt ==
  \A r \in Runs :
    at[r] = "ok" /\ (\A q \in Runs : ~AtWork(q)) =>
      \E c \in receipts : c.status = "activated" /\ PackageOf[c.plan] = PackageOf[plan[r]]
===============================================================================
