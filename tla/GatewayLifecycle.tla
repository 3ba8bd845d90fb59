--------------------------- MODULE GatewayLifecycle ---------------------------
(***************************************************************************)
(* The DMZ gateway's GDS client for one of its identities: checks that     *)
(* compare with GDS, pull and apply trust material and renew the           *)
(* certificate.  A check is run by the lifecycle loop, by the gateway's    *)
(* start-up and by hand, and the client's other commands by hand: each in  *)
(* a process of its own, over shared files.  Only the loop takes a lock.   *)
(*                                                                         *)
(* Trust material is known by the number of the artifact it came in, 0 is  *)
(* no usable content; certificates are numbered in order of issue.  An     *)
(* apply writes the files that the artifact names and deletes none, so     *)
(* that a file an artifact does not name stays as an earlier one left it.  *)
(* The private key exists.                                                 *)
(***************************************************************************)
EXTENDS Naturals

CONSTANTS
  Procs,       \* processes that run commands of the client
  Commands,    \* the commands they run
  AutoPull, AutoApply, AutoRenew, WriteEnabled,  \* DMZ_GDS_*
  Refused,     \* artifacts not signed, not pinned or without a fresh CRL
  NoLists,     \* artifacts that lack a revocation list
  Files,       \* names of CA certificates, revocation lists and peers' certificates
  Kind,        \* the step of an apply that writes them: "chain", "crl" or "certs"
  Named,       \* pairs of an artifact and a certificate file that it names
  None,
  MaxVersion, MaxCerts, MaxFaults   \* bounds

ASSUME GatewayAssumption ==
  /\ Commands \subseteq {"once", "loop", "pull", "enroll", "renew",
                         "apply_trust", "apply_certificate"}
  /\ {AutoPull, AutoApply, AutoRenew, WriteEnabled} \subseteq BOOLEAN
  /\ Refused \subseteq Nat /\ NoLists \subseteq Nat
  /\ 0 \notin Refused \cup NoLists
  /\ Kind \in [Files -> {"chain", "crl", "certs"}] /\ "own" \notin Files
  /\ Named \subseteq (Nat \ {0}) \X Files
  /\ None \notin Procs
  /\ MaxVersion \in Nat /\ MaxCerts \in Nat /\ MaxFaults \in Nat

VARIABLES
  \* GDS
  current,     \* the newest artifact of the component's (zone, role)
  reported,    \* component_status.trust_artifact_sha256
  issued,      \* the newest certificate of the component
  \* the cache directory
  version,     \* trust-version.json
  material,    \* trust-material.json
  enrollment, renewal,  \* enrollment-result.json, renewal-result.json
  recorded,    \* renewal-last.json: the newest certificate when it was written,
               \* 0 when there is none or it is older than the cooldown
  lock,        \* lifecycle.lock, and whose it is
  \* the runtime's PKI directories
  runtime,     \* where each file of the trust stores and the certificate come from
  young,       \* certificates younger than the cooldown
  run,         \* the processes
  \* accounting
  alone,       \* the process at work has been the only one since it began
  fresh,       \* the document that it has itself fetched and filed last
  spoiled,     \* the last apply was cut short, or found no revocation lists
  renewed,     \* certificates whose renewal and apply by a check is on record
  faults

gds     == <<current, reported, issued>>
cache   == <<version, material, enrollment, renewal>>
marks   == <<recorded, lock, young>>
history == <<alone, fresh, spoiled, renewed>>
vars    == <<gds, cache, marks, runtime, run, history, faults>>

Document == [trust : Nat, cert : Nat]   \* cert 0: trust material only
Nothing  == [trust |-> 0, cert |-> 0]
Trust    == {"chain", "crl", "certs"}
Parts    == Trust \cup {"own"}          \* the steps of an apply
Stores   == Files \cup {"own"}          \* and the files they write

Steps == {"idle", "lock", "sleep", "lifecycle", "version", "keep_version", "pull", "cache",
          "note", "load", "load_certificate", "renewal", "enroll", "keep_enrollment", "renew",
          "keep_renewal", "record", "status", "post"} \cup Parts

\* A process: the command it runs and its next step.
Process ==
  [at : Steps, cmd : Commands \cup {"loop", "none"},
   update : BOOLEAN, due : BOOLEAN,  \* what GDS answered
   renewing : BOOLEAN,               \* it applies the certificate it has renewed
   doc : Document,                   \* the document in hand, fetched or loaded
   claim : Nat]                      \* the artifact it is about to report

Start(s, c) == [at |-> s, cmd |-> c, update |-> FALSE, due |-> FALSE, renewing |-> FALSE,
                doc |-> Nothing, claim |-> 0]
Idle == Start("idle", "none")

TypeOK ==
  /\ current \in Nat \ {0} /\ reported \in 0 .. current
  /\ issued \in Nat
  /\ version \in 0 .. current /\ material \in 0 .. current
  /\ enrollment \in Document /\ renewal \in Document
  /\ recorded \in 0 .. issued /\ lock \in Procs \cup {None}
  /\ runtime \in [Stores -> Nat] /\ young \subseteq 1 .. issued
  /\ run \in [Procs -> Process]
  /\ alone \in BOOLEAN /\ fresh \in Document /\ spoiled \in BOOLEAN
  /\ renewed \subseteq Nat
  /\ faults \in Nat

Init ==
  /\ current = 1 /\ reported = 0 /\ issued = 0
  /\ version = 0 /\ material = 0 /\ enrollment = Nothing /\ renewal = Nothing
  /\ recorded = 0 /\ lock = None /\ young = {}
  /\ runtime = [f \in Stores |-> 0]
  /\ run = [p \in Procs |-> Idle]
  /\ alone = TRUE /\ fresh = Nothing /\ spoiled = FALSE /\ renewed = {}
  /\ faults = 0

Working(p)  == run[p].at \notin {"idle", "lock", "sleep"}
Checking(r) == r.cmd = "once" \/ r.cmd = "loop"

\* The process is r now; its memory ends with the command or round.
Becomes(p, r) ==
  run' = [run EXCEPT ![p] = CASE r.at = "idle" -> Idle
                              [] r.at = "sleep" -> Start("sleep", "loop")
                              [] OTHER -> r]

Fault == faults < MaxFaults /\ faults' = faults + 1

(***************************************************************************)
(* GDS and time.                                                           *)
(***************************************************************************)
Publish ==
  /\ current < MaxVersion
  /\ current' = current + 1
  /\ UNCHANGED <<reported, issued, cache, marks, runtime, run, history, faults>>

\* The record is younger than the certificates there were when it was written.
CooldownPasses ==
  /\ \/ recorded > 0 /\ (\A c \in young : c > recorded) /\ recorded' = 0 /\ UNCHANGED young
     \/ UNCHANGED recorded /\ \E n \in young : young' = {c \in young : c > n}
  /\ UNCHANGED <<gds, cache, lock, runtime, run, history, faults>>

(***************************************************************************)
(* Processes.                                                              *)
(***************************************************************************)
\* A command, or a round of the loop, begins.
Begin(p, s, c) ==
  /\ Becomes(p, Start(s, c))
  /\ alone' = \A q \in Procs \ {p} : ~ Working(q)
  /\ fresh' = Nothing
  /\ UNCHANGED <<gds, cache, marks, runtime, spoiled, renewed, faults>>

FirstStep(c) ==
  CASE c = "once" -> "lifecycle"
    [] c = "apply_trust" -> "load"
    [] c = "apply_certificate" -> "load_certificate"
    [] OTHER -> c

Run(p, c) == run[p].at = "idle" /\ c # "loop" /\ Begin(p, FirstStep(c), c)

RunLoop(p) ==
  /\ run[p].at = "idle"
  /\ Becomes(p, Start("lock", "loop"))
  /\ UNCHANGED <<gds, cache, marks, runtime, history, faults>>

\* open(O_CREAT | O_EXCL)
Lock(p) ==
  /\ run[p].at = "lock"
  /\ \/ lock = None /\ lock' = p /\ Becomes(p, Start("sleep", "loop"))
     \/ lock # None /\ Becomes(p, Idle) /\ UNCHANGED lock
  /\ UNCHANGED <<gds, cache, recorded, young, runtime, history, faults>>

Wake(p) == run[p].at = "sleep" /\ Begin(p, "lifecycle", "loop")

LoopStops(p) ==
  /\ run[p].at = "sleep"
  /\ lock' = None
  /\ Becomes(p, Idle)
  /\ UNCHANGED <<gds, cache, recorded, young, runtime, history, faults>>

(***************************************************************************)
(* The order of the steps.                                                 *)
(***************************************************************************)
AfterTrust(r) == IF r.due /\ AutoRenew THEN "renewal" ELSE "status"

\* The material in the cache is applied also when the pull has failed.
AfterPull(r) ==
  CASE ~ Checking(r) -> "idle"
    [] Checking(r) /\ r.update /\ AutoApply -> "load"
    [] OTHER -> AfterTrust(r)

AfterApply(r, ok) ==
  CASE ~ Checking(r) -> "idle"
    [] Checking(r) /\ ~ r.renewing -> AfterTrust(r)
    [] OTHER -> IF ok THEN "record" ELSE "status"

\* The step after a request or a write that has succeeded, or has not.
After(r, ok) ==
  CASE r.at = "lifecycle" -> IF ok THEN "version" ELSE "status"
    [] r.at = "version" -> IF ok THEN "keep_version" ELSE "status"
    [] r.at = "keep_version" -> IF r.update /\ AutoPull THEN "pull" ELSE AfterPull(r)
    [] r.at = "pull" -> IF ok THEN "cache" ELSE AfterPull(r)
    [] r.at = "cache" -> IF ok THEN "note" ELSE AfterPull(r)
    [] r.at = "note" -> AfterPull(r)
    [] r.at = "enroll" -> IF ok THEN "keep_enrollment" ELSE "idle"
    [] r.at = "keep_enrollment" -> "idle"
    [] r.at = "renew" -> CASE ok -> "keep_renewal"
                           [] ~ ok /\ Checking(r) -> "status"
                           [] OTHER -> "idle"
    [] r.at = "keep_renewal" -> CASE ~ Checking(r) -> "idle"
                                  [] Checking(r) /\ ok -> "load_certificate"
                                  [] OTHER -> "status"
    [] r.at = "chain" -> IF r.doc.trust \in NoLists THEN AfterApply(r, FALSE) ELSE "crl"
    [] r.at = "crl" -> "certs"
    [] r.at = "certs" -> IF r.doc.cert > 0 THEN "own" ELSE AfterApply(r, TRUE)
    [] r.at = "own" -> AfterApply(r, TRUE)
    [] r.at = "record" -> "status"
    [] r.at = "status" -> "post"
    [] r.at = "post" -> IF r.cmd = "loop" THEN "sleep" ELSE "idle"

\* Step s succeeds, and leaves r in the process's memory.
Step(p, s, r) == run[p].at = s /\ Becomes(p, [r EXCEPT !.at = After(r, TRUE)])

(***************************************************************************)
(* A check compares with GDS.                                              *)
(***************************************************************************)
\* Renewal is due by the certificate of the newest activated package, and without
\* one by the newest certificate.  GDS hears of activations and revocations from
\* others, and time passes: once there is a certificate it may answer either.
DueAnswers == IF issued > 0 THEN BOOLEAN ELSE {FALSE}

Lifecycle(p) ==
  /\ \E due \in DueAnswers :
       Step(p, "lifecycle", [run[p] EXCEPT !.update = reported # current, !.due = due])
  /\ UNCHANGED <<gds, cache, marks, runtime, history, faults>>

\* GDS answers with what is current.
Fetch(p, s) ==
  /\ Step(p, s, [run[p] EXCEPT !.doc = [trust |-> current, cert |-> 0]])
  /\ UNCHANGED <<gds, cache, marks, runtime, history, faults>>

GetVersion(p) == Fetch(p, "version")

\* Mutant: the cache numbers its versions itself.
NoteVersionCounted(p) ==
  /\ \E s \in {"keep_version", "note"} : Step(p, s, run[p])
  /\ version' = version + 1
  /\ UNCHANGED <<gds, material, enrollment, renewal, marks, runtime, history, faults>>

\* GDS's version becomes the cache's, whatever material the cache holds.
NoteVersion(p) ==
  /\ \E s \in {"keep_version", "note"} : Step(p, s, run[p])
  /\ version' = run[p].doc.trust
  /\ UNCHANGED <<gds, material, enrollment, renewal, marks, runtime, history, faults>>

PullTrust(p) == Fetch(p, "pull")

CacheTrust(p) ==
  /\ Step(p, "cache", run[p])
  /\ material' = run[p].doc.trust
  /\ fresh' = run[p].doc
  /\ UNCHANGED <<gds, version, enrollment, renewal, marks, runtime, alone, spoiled, renewed, faults>>

(***************************************************************************)
(* Applying.                                                               *)
(***************************************************************************)
\* Mutant: the renewal's trust material is looked for first, as for a certificate.
TrustPayloadOfRenewal ==
  [trust |-> IF renewal # Nothing THEN renewal.trust ELSE material, cert |-> 0]

TrustPayload == [trust |-> material, cert |-> 0]

CertificatePayload ==
  CASE renewal # Nothing -> renewal
    [] renewal = Nothing /\ enrollment # Nothing -> enrollment
    [] OTHER -> TrustPayload

\* Mutant: the signature and the lists' freshness are not looked at.
AdmissibleContent(d) == d.trust > 0

Admissible(d) == d.trust > 0 /\ d.trust \notin Refused

\* A check enables writing itself.
Load(p, s, d) ==
  /\ run[p].at = s
  /\ LET r == [run[p] EXCEPT !.doc = d]
         goes == (WriteEnabled \/ Checking(r)) /\ Admissible(d)
     IN  Becomes(p, [r EXCEPT !.at = IF goes THEN "chain" ELSE AfterApply(r, FALSE)])
  /\ UNCHANGED <<gds, cache, marks, runtime, history, faults>>

ApplyTrust(p)       == Load(p, "load", TrustPayload)
ApplyCertificate(p) == Load(p, "load_certificate", CertificatePayload)

\* What a document has for a file.
Content(d, f) == IF f = "own" THEN d.cert ELSE d.trust

\* The files a step writes: the lists have fixed names, certificates those the
\* artifact names.
Writes(d, part) ==
  IF part = "own" THEN {"own"}
  ELSE {f \in Files : Kind[f] = part /\ (part # "crl" => <<d.trust, f>> \in Named)}

\* The last apply ended before its end, or someone else was at work.
Spoils(p, part) ==
  \/ ~ alone
  \/ part = "chain" /\ run[p].doc.trust \in NoLists
  \/ spoiled /\ part # "chain"

\* Mutant: a revocation list is written only where there is none.
ApplyMissingLists(p, part) ==
  /\ Step(p, part, run[p])
  /\ runtime' = [f \in Stores |->
                   IF f \in Writes(run[p].doc, part) /\ (part = "crl" => runtime[f] = 0)
                   THEN Content(run[p].doc, f) ELSE runtime[f]]
  /\ spoiled' = Spoils(p, part)
  /\ UNCHANGED <<gds, cache, marks, alone, fresh, renewed, faults>>

Apply(p, part) ==
  /\ Step(p, part, run[p])
  /\ runtime' = [f \in Stores |-> IF f \in Writes(run[p].doc, part) THEN Content(run[p].doc, f)
                                                                   ELSE runtime[f]]
  /\ spoiled' = Spoils(p, part)
  /\ UNCHANGED <<gds, cache, marks, alone, fresh, renewed, faults>>

(***************************************************************************)
(* Enrolling and renewing.  The CSR is the same every time, so that GDS    *)
(* refuses to enroll what it has issued a certificate for.                 *)
(***************************************************************************)
Issue ==
  /\ issued < MaxCerts
  /\ issued' = issued + 1
  /\ young' = young \cup {issued + 1}
  /\ UNCHANGED <<current, reported, recorded, lock>>

Obtain(p, s) ==
  /\ Step(p, s, [run[p] EXCEPT !.doc = [trust |-> current, cert |-> issued + 1]])
  /\ Issue
  /\ UNCHANGED <<cache, runtime, history, faults>>

Enroll(p) ==
  \/ issued = 0 /\ Obtain(p, "enroll")
  \/ /\ issued > 0 /\ run[p].at = "enroll"
     /\ Becomes(p, Idle)
     /\ UNCHANGED <<gds, cache, marks, runtime, history, faults>>

KeepEnrollment(p) ==
  /\ Step(p, "keep_enrollment", run[p])
  /\ enrollment' = run[p].doc
  /\ fresh' = run[p].doc
  /\ UNCHANGED <<gds, version, material, renewal, marks, runtime, alone, spoiled, renewed, faults>>

\* Mutant: the record of the last renewal is not looked at.
CoolingDownByAge == runtime["own"] \in young

CoolingDown == recorded > 0 \/ runtime["own"] \in young

Cooldown(p) ==
  /\ run[p].at = "renewal"
  /\ Becomes(p, [run[p] EXCEPT !.at = IF CoolingDown THEN "status" ELSE "renew"])
  /\ UNCHANGED <<gds, cache, marks, runtime, history, faults>>

Renew(p) == Obtain(p, "renew")

KeepRenewal(p) ==
  /\ Step(p, "keep_renewal", [run[p] EXCEPT !.renewing = Checking(run[p])])
  /\ renewal' = run[p].doc
  /\ fresh' = run[p].doc
  /\ UNCHANGED <<gds, version, material, enrollment, marks, runtime, alone, spoiled, renewed, faults>>

RecordRenewal(p) ==
  /\ Step(p, "record", run[p])
  /\ recorded' = issued
  /\ renewed' = renewed \cup {run[p].doc.cert}
  /\ UNCHANGED <<gds, cache, lock, young, runtime, alone, fresh, spoiled, faults>>

(***************************************************************************)
(* The report.                                                             *)
(***************************************************************************)
ReadStatus(p) ==
  /\ Step(p, "status", [Start("status", run[p].cmd) EXCEPT
                          !.claim = IF version # 0 THEN version ELSE material])
  /\ UNCHANGED <<gds, cache, marks, runtime, history, faults>>

PostStatus(p) ==
  /\ Step(p, "post", run[p])
  /\ reported' = run[p].claim
  /\ UNCHANGED <<current, issued, cache, marks, runtime, history, faults>>

(***************************************************************************)
(* Failures.                                                               *)
(***************************************************************************)
Requests == {"lifecycle", "version", "pull", "enroll", "renew", "post"}
Filings  == {"keep_version", "cache", "note", "keep_enrollment", "keep_renewal", "record"} \cup Parts

Fails(p, steps) ==
  /\ Fault
  /\ run[p].at \in steps
  /\ Becomes(p, [run[p] EXCEPT !.at = After(run[p], FALSE)])

\* Unreachable, refused, or an answer that is lost.
RequestFails(p) ==
  /\ Fails(p, Requests)
  /\ \/ UNCHANGED <<gds, marks>>
     \/ run[p].at = "enroll" /\ issued = 0 /\ Issue
     \/ run[p].at = "renew" /\ Issue
  /\ UNCHANGED <<cache, runtime, history>>

\* The files the process is writing are as they were, written or truncated.
Damage(p) ==
  \/ UNCHANGED <<cache, runtime, recorded, renewed>>
  \/ /\ run[p].at \in {"keep_version", "note"} /\ version' = 0
     /\ UNCHANGED <<material, enrollment, renewal, runtime, recorded, renewed>>
  \/ /\ run[p].at = "cache" /\ material' = 0
     /\ UNCHANGED <<version, enrollment, renewal, runtime, recorded, renewed>>
  \/ /\ run[p].at = "keep_enrollment" /\ enrollment' = Nothing
     /\ UNCHANGED <<version, material, renewal, runtime, recorded, renewed>>
  \/ /\ run[p].at = "keep_renewal" /\ renewal' = Nothing
     /\ UNCHANGED <<version, material, enrollment, runtime, recorded, renewed>>
  \/ /\ run[p].at = "record" /\ recorded' = 0 /\ renewed' = {}
     /\ UNCHANGED <<cache, runtime>>
  \/ /\ run[p].at \in Parts
     /\ \E whole, torn \in SUBSET Writes(run[p].doc, run[p].at) :
          runtime' = [f \in Stores |-> CASE f \in torn -> 0
                                          [] f \in whole \ torn -> Content(run[p].doc, f)
                                          [] OTHER -> runtime[f]]
     /\ UNCHANGED <<cache, recorded, renewed>>

\* The files a process is writing when a write fails or the process dies.
LeavesDamage(p) ==
  /\ Damage(p)
  /\ spoiled' = (spoiled \/ run[p].at \in Parts)
  /\ UNCHANGED <<gds, lock, young, alone, fresh>>

\* Only the cached answers are checked to have been written.
WriteFails(p) == Fails(p, Filings) /\ LeavesDamage(p)

\* The lock file stays.
Die(p) ==
  /\ Fault
  /\ run[p].at # "idle"
  /\ Becomes(p, Idle)
  /\ LeavesDamage(p)

Advance(p) ==
  \/ Lifecycle(p) \/ GetVersion(p) \/ NoteVersion(p) \/ PullTrust(p) \/ CacheTrust(p)
  \/ ApplyTrust(p) \/ ApplyCertificate(p) \/ \E part \in Parts : Apply(p, part)
  \/ Enroll(p) \/ KeepEnrollment(p)
  \/ Cooldown(p) \/ Renew(p) \/ KeepRenewal(p) \/ RecordRenewal(p)
  \/ ReadStatus(p) \/ PostStatus(p)

Next ==
  \/ Publish \/ CooldownPasses
  \/ \E p \in Procs :
       \/ \E c \in Commands : Run(p, c)
       \/ "loop" \in Commands /\ RunLoop(p)
       \/ Lock(p) \/ Wake(p) \/ LoopStops(p)
       \/ Advance(p)
       \/ RequestFails(p) \/ WriteFails(p) \/ Die(p)

Spec == Init /\ [][Next]_vars

\* A process is scheduled, and the loop's sleep ends.
FairSpec == Spec /\ \A p \in Procs : WF_vars(Advance(p) \/ Wake(p) \/ Lock(p))

(***************************************************************************)
(* Properties.                                                             *)
(***************************************************************************)
\* A check that has fetched anything applies just that, not an older document
\* of the cache, and so takes no file of the runtime back, as long as no other
\* process is at work.
FreshIsApplied ==
  [][\A f \in Stores :
       alone /\ fresh # Nothing /\ runtime'[f] # runtime[f] =>
         /\ runtime'[f] \in {0, Content(fresh, f)}
         /\ runtime[f] <= Content(fresh, f)]_vars

\* At most one process is the lifecycle loop.
OneLoop ==
  \A p, q \in Procs :
    run[p].cmd = "loop" /\ run[q].cmd = "loop" /\ "lock" \notin {run[p].at, run[q].at} => p = q

\* Outside an apply the revocation lists come from one artifact, and so does
\* every certificate file which that artifact names, unless the last apply was
\* cut short, overlapped or had no lists (which shows only after the CA chain is
\* written).  Files that it does not name stay as earlier applies left them.
RuntimeIsWhole ==
  (\A p \in Procs : run[p].at \notin Parts) /\ ~ spoiled =>
    \A list, f \in Files :
      Kind[list] = "crl" /\ (Kind[f] = "crl" \/ <<runtime[list], f>> \in Named) =>
        runtime[f] = runtime[list]

\* Nothing of an artifact that the client refuses reaches the runtime, by
\* whichever document it came.
RefusedStaysOut == \A f \in Files : runtime[f] \notin Refused

\* GDS may go on saying that renewal is due, since it judges by the certificate
\* of an activated package: a check that is alone all the same never renews while
\* the certificate in the runtime, or one whose renewal is on record, is younger
\* than the cooldown.  (While applies fail it renews in every round.)
RenewalIsPaced ==
  [][\A p \in Procs :
       run[p].at = "renew" /\ Checking(run[p]) /\ alone /\ issued' # issued =>
         young \cap (renewed \cup {runtime["own"]}) = {}]_vars

\* A running loop gets the newest artifact into the cache.
DetectsChanges ==
  (\E p \in Procs : <>[](run[p].cmd = "loop" /\ run[p].at # "lock")) =>
    <>[](material = current)
===============================================================================
