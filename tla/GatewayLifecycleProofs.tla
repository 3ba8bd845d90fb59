------------------------ MODULE GatewayLifecycleProofs ------------------------
(***************************************************************************)
(* Proofs about GatewayLifecycle: types, the lock of the loop, what never  *)
(* reaches the runtime and, on a second invariant, what an apply leaves    *)
(* and what a process that is alone applies and renews, for any processes, *)
(* commands and settings.                                                  *)
(***************************************************************************)
EXTENDS GatewayLifecycle, TLAPS

(***************************************************************************)
(* The inductive invariant: one part about the files and GDS, one about    *)
(* each process.                                                           *)
(***************************************************************************)
FilesOK ==
  /\ current \in Nat \ {0} /\ reported \in 0 .. current
  /\ issued \in Nat
  /\ version \in 0 .. current /\ material \in 0 .. current
  /\ enrollment \in Document /\ enrollment.trust <= current
  /\ renewal \in Document /\ renewal.trust <= current
  /\ recorded \in 0 .. issued /\ lock \in Procs \cup {None}
  /\ runtime \in [Stores -> Nat] /\ young \subseteq 1 .. issued
  /\ alone \in BOOLEAN /\ fresh \in Document /\ spoiled \in BOOLEAN
  /\ renewed \subseteq Nat /\ faults \in Nat
  /\ RefusedStaysOut

\* What process p in state r may rely on, when the newest artifact is cur and
\* the lock file is l's: what it holds was published, what it writes was
\* admitted, and if it is the loop the lock is its own.
Sound(p, r, cur, l) ==
  /\ r.doc.trust <= cur /\ r.claim <= cur
  /\ r.at \in Parts => r.doc.trust \notin Refused
  /\ r.cmd = "loop" /\ r.at # "lock" => l = p
  /\ r.at = "sleep" => r.cmd = "loop"

ProcsOK ==
  /\ run \in [Procs -> Process]
  /\ \A p \in Procs : Sound(p, run[p], current, lock)

IInv == FilesOK /\ ProcsOK

(***************************************************************************)
(* Steps of a process.                                                     *)
(***************************************************************************)
LEMMA StartIsProcess ==
  ASSUME NEW s \in Steps, NEW c \in Commands \cup {"loop", "none"}
  PROVE  Start(s, c) \in Process
BY DEF Start, Process, Document, Nothing

\* Where a step may lead to: an apply only continues, and only the loop sleeps.
LEMMA AfterLeads ==
  ASSUME NEW r \in Process, NEW ok \in BOOLEAN, r.at \in Requests \cup Filings \cup {"status"}
  PROVE  /\ After(r, ok) \in Steps \ {"lock"}
         /\ After(r, ok) \in Parts => r.at \in Parts
         /\ After(r, ok) = "sleep" => r.cmd = "loop"
<1> DEFINE Tail == {"idle", "renewal", "status", "load", "record"}
<1>1. AfterTrust(r) \in Tail /\ AfterPull(r) \in Tail /\ AfterApply(r, ok) \in Tail
      /\ AfterApply(r, TRUE) \in Tail /\ AfterApply(r, FALSE) \in Tail
  BY DEF AfterTrust, AfterPull, AfterApply, Checking, Process
<1> HIDE DEF Tail
<1>2. /\ Tail \subseteq Steps \ {"lock", "sleep"}
      /\ Tail \cap Parts = {}
  BY DEF Tail, Steps, Parts, Trust
<1>3. CASE r.at \in Requests
  BY ZenonT(60), <1>1, <1>2, <1>3 DEF After, Requests, Checking, Steps, Parts, Trust
<1>4. CASE r.at \in {"keep_version", "cache", "note", "keep_enrollment", "keep_renewal", "record", "status"}
  BY ZenonT(60), <1>1, <1>2, <1>4 DEF After, Checking, Steps, Parts, Trust
<1>5. CASE r.at \in Parts
  BY <1>1, <1>2, <1>5 DEF After, Checking, Steps, Parts, Trust
<1> QED
  BY <1>3, <1>4, <1>5 DEF Filings

\* A process becomes r, and r is sound: all are.
LEMMA BecomesSound ==
  ASSUME run \in [Procs -> Process],
         NEW p \in Procs, NEW r \in Process, Becomes(p, r),
         NEW cur \in Nat, NEW l,
         \A q \in Procs \ {p} : Sound(q, run[q], cur, l),
         Sound(p, r, cur, l)
  PROVE  /\ run' \in [Procs -> Process]
         /\ \A q \in Procs : Sound(q, run'[q], cur, l)
<1>1. Idle \in Process /\ Start("sleep", "loop") \in Process
  BY StartIsProcess DEF Idle, Steps
<1>2. Sound(p, Idle, cur, l)
  BY DEF Sound, Idle, Start, Nothing, Parts, Trust
<1>3. r.at = "sleep" => Sound(p, Start("sleep", "loop"), cur, l)
  BY DEF Sound, Start, Nothing, Parts, Trust
<1>4. PICK s \in Process : run' = [run EXCEPT ![p] = s] /\ Sound(p, s, cur, l)
  BY <1>1, <1>2, <1>3 DEF Becomes
<1> QED
  BY <1>4

\* A step of a command: the process keeps its command, holds what is published
\* and, in an apply, what it held.
LEMMA CommandStep ==
  ASSUME ProcsOK, current \in Nat,
         NEW p \in Procs, NEW r \in Process, NEW ok \in BOOLEAN,
         Becomes(p, [r EXCEPT !.at = After(r, ok)]),
         r.at = run[p].at, r.cmd = run[p].cmd,
         r.at \in Requests \cup Filings \cup {"status"},
         r.doc.trust <= current, r.claim <= current,
         r.at \in Parts => r.doc = run[p].doc,
         UNCHANGED <<current, lock>>
  PROVE  ProcsOK'
<1> DEFINE s == [r EXCEPT !.at = After(r, ok)]
<1>1. /\ After(r, ok) \in Steps \ {"lock"}
      /\ After(r, ok) \in Parts => r.at \in Parts
      /\ After(r, ok) = "sleep" => r.cmd = "loop"
  BY AfterLeads
<1>2. s \in Process /\ s.at = After(r, ok) /\ s.cmd = r.cmd /\ s.doc = r.doc /\ s.claim = r.claim
  BY <1>1 DEF Process
<1>3. r.at # "lock"
  BY DEF Requests, Filings, Parts, Trust
<1>4. Sound(p, run[p], current, lock)
  BY DEF ProcsOK
<1> HIDE DEF s
<1>5. Sound(p, s, current, lock)
  BY <1>1, <1>2, <1>3, <1>4 DEF Sound
<1>6. Becomes(p, s)
  BY DEF s
<1>7. /\ run' \in [Procs -> Process]
      /\ \A q \in Procs : Sound(q, run'[q], current, lock)
  BY <1>2, <1>5, <1>6, BecomesSound DEF ProcsOK
<1> QED
  BY <1>7 DEF ProcsOK

\* What is read into a process's memory.
LEMMA Payloads ==
  ASSUME FilesOK
  PROVE  \A d \in {TrustPayload, CertificatePayload} : d \in Document /\ d.trust <= current
<1>1. TrustPayload \in Document /\ TrustPayload.trust <= current
  BY DEF FilesOK, TrustPayload, Document
<1>2. CertificatePayload \in {renewal, enrollment, TrustPayload}
  BY DEF CertificatePayload
<1> QED
  BY <1>1, <1>2 DEF FilesOK

\* Only material that is not refused gets to the first part of an apply.
LEMMA LoadStep ==
  ASSUME IInv, NEW p \in Procs, NEW s \in {"load", "load_certificate"},
         NEW d \in Document, d.trust <= current, Load(p, s, d)
  PROVE  IInv'
<1> DEFINE r == [run[p] EXCEPT !.doc = d]
           to == IF (WriteEnabled \/ Checking(r)) /\ Admissible(d) THEN "chain"
                                                                  ELSE AfterApply(r, FALSE)
           n == [r EXCEPT !.at = to]
<1>1. run \in [Procs -> Process] /\ run[p] \in Process /\ Sound(p, run[p], current, lock)
  BY DEF IInv, ProcsOK
<1>2. r \in Process /\ r.doc = d /\ r.cmd = run[p].cmd /\ r.claim = run[p].claim
  BY <1>1 DEF Process
<1>3. AfterApply(r, FALSE) \in {"idle", "renewal", "status"}
  BY DEF AfterApply, AfterTrust
<1>4. to \in Steps \ {"lock", "sleep"} /\ (to \in Parts => d.trust \notin Refused)
  BY <1>3 DEF Admissible, Steps, Parts, Trust
<1> HIDE DEF r, to
<1>5. n \in Process /\ n.at = to /\ n.doc = d /\ n.cmd = run[p].cmd /\ n.claim = run[p].claim
  BY <1>2, <1>4 DEF Process
<1>6. run[p].at = s /\ Becomes(p, n) /\ UNCHANGED <<gds, cache, marks, runtime, history, faults>>
  BY DEF Load, r, to
<1> HIDE DEF n
<1>7. Sound(p, n, current, lock)
  BY <1>1, <1>4, <1>5, <1>6 DEF Sound
<1>8. /\ run' \in [Procs -> Process]
      /\ \A q \in Procs : Sound(q, run'[q], current, lock)
  BY <1>1, <1>5, <1>6, <1>7, BecomesSound DEF IInv, ProcsOK, FilesOK
<1>9. FilesOK'
  BY <1>6 DEF IInv, FilesOK, RefusedStaysOut, gds, cache, marks, history
<1> QED
  BY <1>6, <1>8, <1>9 DEF IInv, ProcsOK, gds, marks

\* A process goes on with r and step s succeeds.
LEMMA StepSound ==
  ASSUME IInv, NEW p \in Procs, NEW r \in Process,
         NEW s \in Requests \cup Filings \cup {"status"}, Step(p, s, r),
         r.at = s, r.cmd = run[p].cmd, r.doc.trust <= current, r.claim <= current,
         s \in Parts => r.doc = run[p].doc,
         UNCHANGED <<current, lock>>
  PROVE  ProcsOK'
BY CommandStep DEF Step, IInv, FilesOK

\* Step s of a process that keeps what it holds.
LEMMA StepInPlace ==
  ASSUME IInv, NEW p \in Procs, NEW s \in Requests \cup Filings \cup {"status"},
         Step(p, s, run[p]), UNCHANGED <<current, lock>>
  PROVE  ProcsOK'
<1>1. run[p] \in Process /\ run[p].at = s /\ Sound(p, run[p], current, lock)
  BY DEF Step, IInv, ProcsOK
<1> QED
  BY <1>1, StepSound DEF Sound

\* The issue of a certificate leaves everything but GDS and its age alone.
LEMMA IssueKeeps ==
  ASSUME FilesOK, Issue, UNCHANGED <<cache, runtime, history>>, faults' \in Nat
  PROVE  FilesOK'
<1>1. young' \subseteq 1 .. issued'
  BY DEF FilesOK, Issue
<1>2. issued' \in Nat
  BY DEF FilesOK, Issue
<1>3. recorded' \in 0 .. issued'
  BY DEF FilesOK, Issue
<1>4. UNCHANGED <<current, reported, recorded, lock>>
  BY DEF Issue
<1>5. RefusedStaysOut'
  BY DEF FilesOK, RefusedStaysOut
<1> QED
  BY <1>1, <1>2, <1>3, <1>4, <1>5 DEF FilesOK, cache, history

LEMMA ObtainSound ==
  ASSUME IInv, NEW p \in Procs, NEW s \in {"enroll", "renew"}, Obtain(p, s)
  PROVE  IInv'
<1> DEFINE r == [run[p] EXCEPT !.doc = [trust |-> current, cert |-> issued + 1]]
<1>1. run[p] \in Process /\ Sound(p, run[p], current, lock) /\ current \in Nat /\ issued \in Nat
  BY DEF IInv, ProcsOK, FilesOK
<1>2. r \in Process /\ r.at = run[p].at /\ r.cmd = run[p].cmd /\ r.claim = run[p].claim
      /\ r.doc.trust = current
  BY <1>1 DEF Process, Document
<1>3. Step(p, s, r) /\ Issue /\ UNCHANGED <<cache, runtime, history, faults>>
  BY DEF Obtain
<1> HIDE DEF r
<1>4. r.at = s /\ r.claim <= current /\ s \in Requests /\ s \notin Parts
  BY <1>1, <1>2, <1>3 DEF Step, Sound, Requests, Parts, Trust
<1>5. ProcsOK'
  BY <1>1, <1>2, <1>3, <1>4, StepSound DEF Issue
<1> QED
  BY <1>3, <1>5, IssueKeeps DEF IInv, FilesOK

(***************************************************************************)
(* The steps of Advance, one by one.                                       *)
(***************************************************************************)
LEMMA QuietStep ==
  ASSUME IInv, ProcsOK',
         UNCHANGED <<gds, cache, marks, runtime, history, faults>>
  PROVE  IInv'
BY DEF IInv, FilesOK, RefusedStaysOut, gds, cache, marks, history

LEMMA FetchSound ==
  ASSUME IInv, NEW p \in Procs, NEW s \in {"version", "pull"}, Fetch(p, s)
  PROVE  IInv'
<1> DEFINE r == [run[p] EXCEPT !.doc = [trust |-> current, cert |-> 0]]
<1>1. run[p] \in Process /\ Sound(p, run[p], current, lock) /\ current \in Nat
  BY DEF IInv, ProcsOK, FilesOK
<1>2. r \in Process /\ r.at = run[p].at /\ r.cmd = run[p].cmd /\ r.claim = run[p].claim
      /\ r.doc.trust = current
  BY <1>1 DEF Process, Document
<1>3. Step(p, s, r) /\ UNCHANGED <<gds, cache, marks, runtime, history, faults>>
  BY DEF Fetch
<1> HIDE DEF r
<1>4. r.at = s /\ r.claim <= current /\ s \in Requests /\ s \notin Parts
  BY <1>1, <1>2, <1>3 DEF Step, Sound, Requests, Parts, Trust
<1>5. ProcsOK'
  BY <1>1, <1>2, <1>3, <1>4, StepSound DEF gds, marks
<1> QED
  BY <1>3, <1>5, QuietStep

LEMMA LifecycleSound ==
  ASSUME IInv, NEW p \in Procs, Lifecycle(p)
  PROVE  IInv'
<1>0. PICK due \in BOOLEAN :
        Step(p, "lifecycle", [run[p] EXCEPT !.update = reported # current, !.due = due])
  BY DEF Lifecycle, DueAnswers
<1> DEFINE r == [run[p] EXCEPT !.update = reported # current, !.due = due]
<1>1. run[p] \in Process /\ Sound(p, run[p], current, lock)
  BY DEF IInv, ProcsOK, FilesOK
<1>2. r \in Process
  BY <1>1 DEF Process
<1>3. r.at = run[p].at /\ r.cmd = run[p].cmd /\ r.claim = run[p].claim /\ r.doc = run[p].doc
  BY <1>1 DEF Process
<1>4. Step(p, "lifecycle", r) /\ UNCHANGED <<gds, cache, marks, runtime, history, faults>>
  BY <1>0 DEF Lifecycle
<1> HIDE DEF r
<1>5. r.at = "lifecycle" /\ r.claim <= current /\ r.doc.trust <= current
  BY <1>1, <1>3, <1>4 DEF Step, Sound
<1>6. ProcsOK'
  BY <1>2, <1>3, <1>4, <1>5, StepSound DEF gds, marks, Requests
<1> QED
  BY <1>4, <1>6, QuietStep

LEMMA ReadStatusSound ==
  ASSUME IInv, NEW p \in Procs, ReadStatus(p)
  PROVE  IInv'
<1> DEFINE v == IF version # 0 THEN version ELSE material
           r == [Start("status", run[p].cmd) EXCEPT !.claim = v]
<1>1. run[p] \in Process /\ v \in Nat /\ v <= current /\ current \in Nat
  BY DEF IInv, ProcsOK, FilesOK
<1>2. Start("status", run[p].cmd) \in Process
  BY <1>1, StartIsProcess DEF Process, Steps
<1> HIDE DEF v
<1>3. r \in Process /\ r.at = "status" /\ r.cmd = run[p].cmd /\ r.claim = v /\ r.doc = Nothing
  BY <1>1, <1>2 DEF Process, Start
<1>4. Step(p, "status", r) /\ UNCHANGED <<gds, cache, marks, runtime, history, faults>>
  BY DEF ReadStatus, v
<1> HIDE DEF r
<1>5. Nothing.trust <= current
  BY <1>1 DEF Nothing
<1>6. ProcsOK'
  BY <1>1, <1>3, <1>4, <1>5, StepSound DEF gds, marks, Parts, Trust
<1> QED
  BY <1>4, <1>6, QuietStep

\* Filing what the process holds in the cache.
LEMMA FilingSound ==
  ASSUME IInv, NEW p \in Procs,
         NoteVersion(p) \/ CacheTrust(p) \/ KeepEnrollment(p) \/ KeepRenewal(p)
  PROVE  IInv'
<1>1. /\ run[p] \in Process /\ Sound(p, run[p], current, lock)
      /\ run[p].doc \in Document /\ run[p].doc.trust \in 0 .. current
  BY DEF IInv, ProcsOK, FilesOK, Process, Document, Sound
<1>2. CASE NoteVersion(p)
  <2>1. PICK s \in {"keep_version", "note"} : Step(p, s, run[p])
    BY <1>2 DEF NoteVersion
  <2>2. /\ version' = run[p].doc.trust
        /\ UNCHANGED <<gds, material, enrollment, renewal, marks, runtime, history, faults>>
    BY <1>2 DEF NoteVersion
  <2>3. ProcsOK'
    BY <2>1, <2>2, StepInPlace DEF Filings, gds, marks
  <2> QED
    BY <1>1, <2>2, <2>3 DEF IInv, FilesOK, RefusedStaysOut, gds, marks, history
<1>3. CASE CacheTrust(p)
  <2>1. ProcsOK'
    BY <1>3, StepInPlace DEF CacheTrust, Filings, gds, marks
  <2> QED
    BY <1>1, <1>3, <2>1 DEF CacheTrust, IInv, FilesOK, RefusedStaysOut, gds, marks
<1>4. CASE KeepEnrollment(p)
  <2>1. ProcsOK'
    BY <1>4, StepInPlace DEF KeepEnrollment, Filings, gds, marks
  <2> QED
    BY <1>1, <1>4, <2>1 DEF KeepEnrollment, IInv, FilesOK, RefusedStaysOut, gds, marks
<1>5. CASE KeepRenewal(p)
  <2> DEFINE b == Checking(run[p])
             r == [run[p] EXCEPT !.renewing = b]
  <2>0. b \in BOOLEAN
    BY Zenon DEF Checking
  <2> HIDE DEF b
  <2>1. r \in Process /\ r.at = run[p].at /\ r.cmd = run[p].cmd /\ r.claim = run[p].claim
        /\ r.doc = run[p].doc
    BY <1>1, <2>0 DEF Process
  <2>2. /\ Step(p, "keep_renewal", r) /\ renewal' = run[p].doc /\ fresh' = run[p].doc
        /\ UNCHANGED <<gds, version, material, enrollment, marks, runtime, alone, spoiled, renewed, faults>>
    BY <1>5 DEF KeepRenewal, b
  <2> HIDE DEF r
  <2>3. ProcsOK'
    BY <1>1, <2>1, <2>2, StepSound DEF Step, Sound, Filings, gds, marks
  <2> QED
    BY <1>1, <2>2, <2>3 DEF IInv, FilesOK, RefusedStaysOut, gds, marks
<1> QED
  BY <1>2, <1>3, <1>4, <1>5

\* A part of the runtime is written.
LEMMA ApplySound ==
  ASSUME IInv, NEW p \in Procs, NEW part \in Parts, Apply(p, part)
  PROVE  IInv'
<1>1. /\ run[p] \in Process /\ Sound(p, run[p], current, lock) /\ run[p].at = part
      /\ run[p].doc \in Document
  BY DEF IInv, ProcsOK, Process, Apply, Step
<1>2. /\ run[p].doc.trust \in Nat /\ run[p].doc.cert \in Nat
      /\ run[p].doc.trust \notin Refused
  BY <1>1 DEF Document, Sound
<1>3. /\ runtime' = [f \in Stores |-> IF f \in Writes(run[p].doc, part)
                                       THEN Content(run[p].doc, f) ELSE runtime[f]]
      /\ UNCHANGED <<gds, cache, marks, alone, fresh, renewed, faults>>
  BY DEF Apply
<1>4. \A f \in Stores : /\ Content(run[p].doc, f) \in Nat
                        /\ f \in Files => Content(run[p].doc, f) \notin Refused
  BY <1>2, GatewayAssumption DEF Content, Stores
<1>5. runtime' \in [Stores -> Nat] /\ RefusedStaysOut'
  BY <1>3, <1>4 DEF IInv, FilesOK, RefusedStaysOut, Stores
<1>6. spoiled' \in BOOLEAN
  BY Zenon DEF Apply, Spoils
<1>7. ProcsOK'
  BY <1>3, StepInPlace DEF Apply, Filings, gds, marks
<1> QED
  BY <1>3, <1>5, <1>6, <1>7 DEF IInv, FilesOK, gds, cache, marks

\* A process goes to a step that is no part of an apply, holding what it held.
LEMMA MoveSound ==
  ASSUME IInv, NEW p \in Procs,
         NEW s \in Steps \ (Parts \cup {"lock", "sleep"}), run[p].at # "lock",
         Becomes(p, [run[p] EXCEPT !.at = s]), UNCHANGED <<current, lock>>
  PROVE  ProcsOK'
<1> DEFINE n == [run[p] EXCEPT !.at = s]
<1>1. run \in [Procs -> Process] /\ run[p] \in Process /\ Sound(p, run[p], current, lock)
  BY DEF IInv, ProcsOK
<1>2. n \in Process /\ n.at = s /\ n.cmd = run[p].cmd /\ n.doc = run[p].doc /\ n.claim = run[p].claim
  BY <1>1 DEF Process
<1> HIDE DEF n
<1>3. Sound(p, n, current, lock)
  BY <1>1, <1>2 DEF Sound
<1>4. Becomes(p, n)
  BY DEF n
<1>5. /\ run' \in [Procs -> Process]
      /\ \A q \in Procs : Sound(q, run'[q], current, lock)
  BY <1>1, <1>2, <1>3, <1>4, BecomesSound DEF IInv, ProcsOK, FilesOK
<1> QED
  BY <1>5 DEF ProcsOK

\* A process starts afresh at a step that is no part of an apply; if it is the
\* loop, it has the lock.
LEMMA RestartSound ==
  ASSUME IInv, NEW p \in Procs,
         NEW s \in Steps \ Parts, NEW c \in Commands \cup {"loop", "none"},
         Becomes(p, Start(s, c)),
         s = "sleep" => c = "loop",
         c = "loop" /\ s # "lock" => lock' = p,
         current' = current,
         \A q \in Procs \ {p} : lock = q => lock' = q
  PROVE  ProcsOK'
<1> DEFINE n == Start(s, c)
<1>1. run \in [Procs -> Process] /\ current \in Nat
  BY DEF IInv, ProcsOK, FilesOK
<1>2. n \in Process /\ n.at = s /\ n.cmd = c /\ n.doc = Nothing /\ n.claim = 0
  BY StartIsProcess DEF Start
<1> HIDE DEF n
<1>3. Sound(p, n, current, lock')
  BY <1>1, <1>2 DEF Sound, Nothing
<1>4. \A q \in Procs \ {p} : Sound(q, run[q], current, lock')
  BY DEF IInv, ProcsOK, Sound
<1>5. Becomes(p, n)
  BY DEF n
<1>6. /\ run' \in [Procs -> Process]
      /\ \A q \in Procs : Sound(q, run'[q], current, lock')
  BY <1>1, <1>2, <1>3, <1>4, <1>5, BecomesSound
<1> QED
  BY <1>6 DEF ProcsOK

LEMMA AdvanceSound ==
  ASSUME IInv, NEW p \in Procs, Advance(p)
  PROVE  IInv'
<1>1. CASE Lifecycle(p)
  BY <1>1, LifecycleSound
<1>2. CASE GetVersion(p) \/ PullTrust(p)
  BY <1>2, FetchSound DEF GetVersion, PullTrust
<1>3. CASE NoteVersion(p) \/ CacheTrust(p) \/ KeepEnrollment(p) \/ KeepRenewal(p)
  BY <1>3, FilingSound
<1>4. CASE ApplyTrust(p) \/ ApplyCertificate(p)
  BY <1>4, Payloads, LoadStep DEF IInv, ApplyTrust, ApplyCertificate
<1>5. CASE \E part \in Parts : Apply(p, part)
  BY <1>5, ApplySound
<1>6. CASE Enroll(p)
  <2>1. CASE issued = 0 /\ Obtain(p, "enroll")
    BY <2>1, ObtainSound
  <2>2. CASE Becomes(p, Idle) /\ UNCHANGED <<gds, cache, marks, runtime, history, faults>>
    <3>1. ProcsOK'
      BY <2>2, RestartSound DEF Idle, Steps, Parts, Trust, gds, marks
    <3> QED
      BY <2>2, <3>1, QuietStep
  <2> QED
    BY <1>6, <2>1, <2>2 DEF Enroll
<1>7. CASE Cooldown(p)
  <2>1. \E s \in {"status", "renew"} : Becomes(p, [run[p] EXCEPT !.at = s])
    BY <1>7 DEF Cooldown
  <2>2. ProcsOK'
    BY <1>7, <2>1, MoveSound DEF Cooldown, Steps, Parts, Trust, gds, marks
  <2> QED
    BY <1>7, <2>2, QuietStep DEF Cooldown
<1>8. CASE Renew(p)
  BY <1>8, ObtainSound DEF Renew
<1>9. CASE RecordRenewal(p)
  <2>1. ProcsOK'
    BY <1>9, StepInPlace DEF RecordRenewal, Filings, gds
  <2>2. recorded' \in 0 .. issued /\ renewed' \subseteq Nat
    <3>1. issued \in Nat /\ renewed \subseteq Nat /\ run[p].doc.cert \in Nat
      BY DEF IInv, FilesOK, ProcsOK, Process, Document
    <3>2. recorded' = issued /\ renewed' = renewed \cup {run[p].doc.cert}
      BY <1>9 DEF RecordRenewal
    <3>3. recorded' \in 0 .. issued
      BY <3>1, <3>2
    <3>4. renewed' \subseteq Nat
      BY Zenon, <3>1, <3>2
    <3> QED
      BY <3>3, <3>4
  <2> QED
    BY <1>9, <2>1, <2>2 DEF RecordRenewal, IInv, FilesOK, RefusedStaysOut, gds, cache
<1>10. CASE ReadStatus(p)
  BY <1>10, ReadStatusSound
<1>11. CASE PostStatus(p)
  <2>1. ProcsOK'
    BY <1>11, StepInPlace DEF PostStatus, Requests, marks
  <2>2. reported' \in 0 .. current
    BY <1>11 DEF PostStatus, IInv, FilesOK, ProcsOK, Sound, Process
  <2> QED
    BY <1>11, <2>1, <2>2 DEF PostStatus, IInv, FilesOK, RefusedStaysOut, cache, marks, history
<1> QED
  BY <1>1, <1>2, <1>3, <1>4, <1>5, <1>6, <1>7, <1>8, <1>9, <1>10, <1>11 DEF Advance

(***************************************************************************)
(* Failures.                                                               *)
(***************************************************************************)
LEMMA FaultIsCounted == ASSUME FilesOK, Fault PROVE faults' \in Nat
BY DEF FilesOK, Fault

LEMMA FailsSound ==
  ASSUME IInv, NEW p \in Procs, NEW steps \in SUBSET (Requests \cup Filings), Fails(p, steps),
         UNCHANGED <<current, lock>>
  PROVE  ProcsOK'
<1>1. run[p] \in Process /\ Sound(p, run[p], current, lock)
      /\ run[p].at \in Requests \cup Filings \cup {"status"}
  BY DEF IInv, ProcsOK, Fails
<1>2. Becomes(p, [run[p] EXCEPT !.at = After(run[p], FALSE)])
  BY DEF Fails
<1> QED
  BY <1>1, <1>2, CommandStep DEF Sound, IInv, FilesOK

\* A file of the runtime is left as it was, truncated or as the process has it.
LEMMA DamagedFiles ==
  ASSUME IInv, NEW p \in Procs, Damage(p)
  PROVE  /\ runtime' \in [Stores -> Nat]
         /\ \A f \in Stores :
              \/ runtime'[f] = runtime[f]
              \/ /\ run[p].at \in Parts /\ f \in Writes(run[p].doc, run[p].at)
                 /\ runtime'[f] \in {0, Content(run[p].doc, f)}
         /\ \/ UNCHANGED <<recorded, renewed>>
            \/ run[p].at = "record" /\ recorded' = 0 /\ renewed' = {}
<1>1. runtime \in [Stores -> Nat]
  BY DEF IInv, FilesOK
<1>2. run[p].doc.trust \in Nat /\ run[p].doc.cert \in Nat
  BY DEF IInv, ProcsOK, Process, Document
<1>3. CASE UNCHANGED <<runtime, recorded, renewed>>
  BY <1>1, <1>3
<1>4. CASE run[p].at = "record" /\ recorded' = 0 /\ renewed' = {} /\ UNCHANGED runtime
  BY <1>1, <1>4
<1>5. CASE /\ run[p].at \in Parts /\ UNCHANGED <<recorded, renewed>>
           /\ \E whole, torn \in SUBSET Writes(run[p].doc, run[p].at) :
                runtime' = [f \in Stores |-> CASE f \in torn -> 0
                                               [] f \in whole \ torn -> Content(run[p].doc, f)
                                               [] OTHER -> runtime[f]]
  <2>1. PICK whole, torn \in SUBSET Writes(run[p].doc, run[p].at) :
          runtime' = [f \in Stores |-> CASE f \in torn -> 0
                                         [] f \in whole \ torn -> Content(run[p].doc, f)
                                         [] OTHER -> runtime[f]]
    BY <1>5
  <2>2. ASSUME NEW f \in Stores
        PROVE  /\ runtime'[f] \in Nat
               /\ \/ runtime'[f] = runtime[f]
                  \/ /\ f \in Writes(run[p].doc, run[p].at)
                     /\ runtime'[f] \in {0, Content(run[p].doc, f)}
    <3>1. Content(run[p].doc, f) \in Nat /\ runtime[f] \in Nat
      BY <1>1, <1>2 DEF Content
    <3>2. CASE f \in torn
      BY <2>1, <3>2
    <3>3. CASE f \in whole \ torn
      BY <2>1, <3>1, <3>3
    <3>4. CASE f \notin whole \cup torn
      BY <2>1, <3>1, <3>4
    <3> QED
      BY <3>2, <3>3, <3>4
  <2>3. runtime' \in [Stores -> Nat]
    BY <2>1, <2>2
  <2> QED
    BY <1>5, <2>2, <2>3
<1> QED
  BY <1>3, <1>4, <1>5 DEF Damage

\* A truncated file is an empty one.
LEMMA DamageKeeps ==
  ASSUME IInv, NEW p \in Procs, LeavesDamage(p), faults' \in Nat
  PROVE  FilesOK'
<1>1. UNCHANGED <<gds, lock, young, alone, fresh>>
  BY DEF LeavesDamage
<1>2. spoiled' \in BOOLEAN
  BY Zenon DEF LeavesDamage
<1>3. /\ runtime' \in [Stores -> Nat]
      /\ \A f \in Stores :
           \/ runtime'[f] = runtime[f]
           \/ run[p].at \in Parts /\ runtime'[f] \in {0, Content(run[p].doc, f)}
      /\ recorded' \in {recorded, 0} /\ renewed' \subseteq renewed
  BY DamagedFiles DEF LeavesDamage
<1>4. run[p].at \in Parts => \A f \in Files : Content(run[p].doc, f) \notin Refused
  BY GatewayAssumption DEF Content, IInv, ProcsOK, Sound
<1>5. RefusedStaysOut'
  BY <1>3, <1>4, GatewayAssumption DEF RefusedStaysOut, IInv, FilesOK, Stores
<1>6. Nothing \in Document /\ Nothing.trust = 0
  BY DEF Nothing, Document
<1>7. /\ version' \in {version, 0} /\ material' \in {material, 0}
      /\ enrollment' \in {enrollment, Nothing} /\ renewal' \in {renewal, Nothing}
  BY DEF LeavesDamage, Damage, cache
<1>8. /\ version' \in 0 .. current /\ material' \in 0 .. current
      /\ enrollment' \in Document /\ enrollment'.trust <= current
      /\ renewal' \in Document /\ renewal'.trust <= current
  BY <1>6, <1>7 DEF IInv, FilesOK
<1> QED
  BY <1>1, <1>2, <1>3, <1>5, <1>8 DEF IInv, FilesOK, gds

LEMMA FailureSound ==
  ASSUME IInv, NEW p \in Procs, RequestFails(p) \/ WriteFails(p) \/ Die(p)
  PROVE  IInv'
<1>1. CASE RequestFails(p)
  <2>1. /\ Fails(p, Requests) /\ faults' \in Nat
        /\ UNCHANGED <<cache, runtime, history>>
    BY <1>1, FaultIsCounted DEF RequestFails, Fails, IInv
  <2>2. UNCHANGED <<gds, marks>> \/ Issue
    BY <1>1 DEF RequestFails
  <2>3. UNCHANGED <<current, lock>>
    BY <2>2 DEF Issue, gds, marks
  <2>4. ProcsOK'
    BY <2>1, <2>3, FailsSound
  <2>5. CASE UNCHANGED <<gds, marks>>
    BY <2>1, <2>4, <2>5 DEF IInv, FilesOK, RefusedStaysOut, gds, marks, cache, history
  <2>6. CASE Issue
    BY <2>1, <2>4, <2>6, IssueKeeps DEF IInv
  <2> QED
    BY <2>2, <2>5, <2>6
<1>2. CASE WriteFails(p)
  <2>1. ProcsOK'
    BY <1>2, FailsSound DEF WriteFails, LeavesDamage, gds
  <2> QED
    BY <1>2, <2>1, FaultIsCounted, DamageKeeps DEF WriteFails, Fails, IInv
<1>3. CASE Die(p)
  <2>1. ProcsOK'
    BY <1>3, RestartSound DEF Die, LeavesDamage, Idle, Steps, Parts, Trust, gds
  <2> QED
    BY <1>3, <2>1, FaultIsCounted, DamageKeeps DEF Die, IInv
<1> QED
  BY <1>1, <1>2, <1>3

(***************************************************************************)
(* GDS, time, and the beginning and end of commands and of the loop.       *)
(***************************************************************************)
LEMMA OutsideSound ==
  ASSUME IInv, Publish \/ CooldownPasses
  PROVE  IInv'
<1>1. CASE Publish
  <2>1. current' = current + 1 /\ current \in Nat /\ current' \in Nat \ {0}
    BY <1>1 DEF Publish, IInv, FilesOK
  <2>2. ProcsOK'
    <3>1. UNCHANGED <<run, lock>>
      BY <1>1 DEF Publish, marks
    <3>2. ASSUME NEW p \in Procs PROVE Sound(p, run[p], current', lock)
      <4>1. Sound(p, run[p], current, lock) /\ run[p].doc.trust \in Nat /\ run[p].claim \in Nat
        BY DEF IInv, ProcsOK, Process, Document
      <4> QED
        BY <2>1, <4>1 DEF Sound
    <3> QED
      BY <3>1, <3>2 DEF IInv, ProcsOK
  <2> QED
    BY <1>1, <2>1, <2>2 DEF Publish, IInv, FilesOK, RefusedStaysOut, Document, cache, marks, history
<1>2. CASE CooldownPasses
  <2>1. ProcsOK'
    BY <1>2 DEF CooldownPasses, IInv, ProcsOK, gds
  <2>2. recorded' \in 0 .. issued /\ young' \subseteq 1 .. issued
    <3>1. issued \in Nat /\ recorded \in 0 .. issued /\ young \subseteq 1 .. issued
      BY DEF IInv, FilesOK
    <3>2. recorded' \in {recorded, 0} /\ young' \subseteq young
      BY <1>2 DEF CooldownPasses
    <3> QED
      BY <3>1, <3>2
  <2> QED
    BY <1>2, <2>1, <2>2 DEF CooldownPasses, IInv, FilesOK, RefusedStaysOut, gds, cache, history
<1> QED
  BY <1>1, <1>2

LEMMA BeginSound ==
  ASSUME IInv, NEW p \in Procs, NEW s \in Steps \ (Parts \cup {"lock", "sleep"}),
         NEW c \in Commands \cup {"loop"}, Begin(p, s, c), c = "loop" => lock = p
  PROVE  IInv'
<1>1. ProcsOK'
  BY RestartSound DEF Begin, gds, marks
<1>2. alone' \in BOOLEAN
  BY Zenon DEF Begin
<1>3. fresh' \in Document
  BY DEF Begin, Nothing, Document
<1> QED
  BY <1>1, <1>2, <1>3 DEF Begin, IInv, FilesOK, RefusedStaysOut, gds, cache, marks

LEMMA ControlSound ==
  ASSUME IInv, NEW p \in Procs,
         \/ \E c \in Commands : Run(p, c)
         \/ "loop" \in Commands /\ RunLoop(p)
         \/ Lock(p) \/ Wake(p) \/ LoopStops(p)
  PROVE  IInv'
<1>1. ASSUME NEW c \in Commands, Run(p, c) PROVE IInv'
  <2>1. FirstStep(c) \in Steps \ (Parts \cup {"lock", "sleep"})
    BY <1>1, GatewayAssumption DEF Run, FirstStep, Steps, Parts, Trust
  <2> QED
    BY <1>1, <2>1, BeginSound DEF Run
<1>2. CASE RunLoop(p)
  <2>1. ProcsOK'
    BY <1>2, RestartSound DEF RunLoop, Steps, Parts, Trust, gds, marks
  <2> QED
    BY <1>2, <2>1, QuietStep DEF RunLoop
<1>3. CASE Lock(p)
  <2>1. UNCHANGED <<gds, cache, recorded, young, runtime, history, faults>>
    BY <1>3 DEF Lock
  <2>2. CASE lock = None /\ lock' = p /\ Becomes(p, Start("sleep", "loop"))
    <3>1. ProcsOK'
      BY <2>1, <2>2, RestartSound, GatewayAssumption DEF Steps, Parts, Trust, gds
    <3> QED
      BY <2>1, <2>2, <3>1 DEF IInv, FilesOK, RefusedStaysOut, gds, cache, history
  <2>3. CASE Becomes(p, Idle) /\ UNCHANGED lock
    <3>1. ProcsOK'
      BY <2>1, <2>3, RestartSound DEF Idle, Steps, Parts, Trust, gds
    <3> QED
      BY <2>1, <2>3, <3>1 DEF IInv, FilesOK, RefusedStaysOut, gds, cache, history
  <2> QED
    BY <1>3, <2>2, <2>3 DEF Lock
<1>4. run[p].at = "sleep" => lock = p
  BY DEF IInv, ProcsOK, Sound
<1>5. CASE Wake(p)
  BY <1>4, <1>5, BeginSound DEF Wake, Steps, Parts, Trust
<1>6. CASE LoopStops(p)
  <2>1. ProcsOK'
    BY <1>4, <1>6, RestartSound DEF LoopStops, Idle, Steps, Parts, Trust, gds
  <2> QED
    BY <1>6, <2>1 DEF LoopStops, IInv, FilesOK, RefusedStaysOut, gds, cache, history
<1> QED
  BY <1>1, <1>2, <1>3, <1>5, <1>6

(***************************************************************************)
(* Theorems.                                                               *)
(***************************************************************************)
LEMMA InitIInv == ASSUME Init PROVE IInv
<1>1. Nothing \in Document /\ Nothing.trust = 0
  BY DEF Nothing, Document
<1>2. FilesOK
  <2>1. alone \in BOOLEAN /\ spoiled \in BOOLEAN
    BY Zenon DEF Init
  <2>2. runtime \in [Stores -> Nat] /\ RefusedStaysOut
    BY GatewayAssumption DEF Init, RefusedStaysOut, Stores
  <2>3. /\ current \in Nat \ {0} /\ reported \in 0 .. current /\ issued \in Nat
        /\ version \in 0 .. current /\ material \in 0 .. current
        /\ recorded \in 0 .. issued /\ young \subseteq 1 .. issued
        /\ renewed \subseteq Nat /\ faults \in Nat
    BY DEF Init
  <2> QED
    BY <1>1, <2>1, <2>2, <2>3 DEF Init, FilesOK
<1>3. Idle \in Process /\ \A p \in Procs : Sound(p, Idle, current, lock)
  BY StartIsProcess DEF Init, Idle, Start, Nothing, Sound, Steps, Parts, Trust
<1> QED
  BY <1>2, <1>3 DEF Init, IInv, ProcsOK

LEMMA NextIInv == ASSUME IInv, [Next]_vars PROVE IInv'
<1>1. CASE UNCHANGED vars
  BY <1>1 DEF vars, IInv, FilesOK, ProcsOK, RefusedStaysOut, gds, cache, marks, history
<1>2. CASE Publish \/ CooldownPasses
  BY <1>2, OutsideSound
<1>3. ASSUME NEW p \in Procs, Advance(p) PROVE IInv'
  BY <1>3, AdvanceSound
<1>4. ASSUME NEW p \in Procs, RequestFails(p) \/ WriteFails(p) \/ Die(p) PROVE IInv'
  BY <1>4, FailureSound
<1>5. ASSUME NEW p \in Procs,
             \/ \E c \in Commands : Run(p, c)
             \/ "loop" \in Commands /\ RunLoop(p)
             \/ Lock(p) \/ Wake(p) \/ LoopStops(p)
      PROVE  IInv'
  BY <1>5, ControlSound
<1> QED
  BY <1>1, <1>2, <1>3, <1>4, <1>5 DEF Next

\* Every step keeps the invariant.
THEOREM Invariance == Spec => []IInv
BY InitIInv, NextIInv, PTL DEF Spec

\* GDS's rows, the cache, the runtime and the processes keep their types, and
\* nothing is of an artifact that has not been published.
THEOREM TypeCorrect == Spec => []TypeOK
<1>1. IInv => TypeOK
  BY DEF IInv, FilesOK, ProcsOK, TypeOK
<1> QED
  BY <1>1, Invariance, PTL

\* The lock file of the lifecycle loop admits one loop.
THEOREM LoopIsAlone == Spec => []OneLoop
<1>1. IInv => OneLoop
  BY DEF IInv, ProcsOK, Sound, OneLoop
<1> QED
  BY <1>1, Invariance, PTL

\* Material that the client refuses never reaches the runtime.
THEOREM RefusedNeverApplied == Spec => []RefusedStaysOut
<1>1. IInv => RefusedStaysOut
  BY DEF IInv, FilesOK
<1> QED
  BY <1>1, Invariance, PTL

(***************************************************************************)
(* The second invariant, on top of the first: where a check is, what a     *)
(* process that is alone may rely on, and how far an apply has come.       *)
(***************************************************************************)
Pausing == {"idle", "lock", "sleep"}
Writing == {"crl", "certs", "own"}

\* While a process is known to be alone, no other is at work.
Solo == alone => \A p, q \in Procs : Working(p) /\ Working(q) => p = q

\* Nothing is of an artifact or certificate that is still to come.
Bounded ==
  /\ \A f \in Files : runtime[f] <= current
  /\ runtime["own"] <= issued
  /\ enrollment.cert <= issued /\ renewal.cert <= issued

\* The record of renewals is as young as the certificates it stands for.
Recent == \A c \in renewed : c <= issued /\ (c \in young => c <= recorded)

\* What a document in hand has, by where it is used.
Course(r) ==
  /\ r.at = "own" => r.doc.cert > 0
  /\ r.at = "cache" => r.doc.cert = 0

Courses == \A p \in Procs : Course(run[p]) /\ run[p].doc.cert <= issued

\* No file of the runtime is newer than the document has it.
NotBehind(d) ==
  /\ \A f \in Files : runtime[f] <= d.trust
  /\ d.cert > 0 => runtime["own"] <= d.cert

\* What a process that is alone relies on: what it has filed last is what it
\* will load, and what the cooldown let it renew is still to be renewed.
Held(r) ==
  /\ r.at \in {"lifecycle", "version", "keep_version", "pull", "cache", "enroll", "keep_enrollment"} =>
       fresh = Nothing
  /\ r.at \in {"cache", "keep_enrollment", "keep_renewal"} => NotBehind(r.doc)
  /\ fresh # Nothing =>
       /\ NotBehind(fresh)
       /\ r.at \in {"note", "load"} => fresh = TrustPayload
       /\ r.at = "load_certificate" => fresh = renewal
       /\ r.at \in Parts => fresh = r.doc
  /\ r.at = "renew" /\ Checking(r) => recorded = 0 /\ runtime["own"] \notin young

Holding == alone => \A p \in Procs : Working(p) => Held(run[p])

\* The files that artifact n has for these steps are of artifact n.
InPlace(n, parts) ==
  \A f \in Files : Kind[f] \in parts /\ (Kind[f] = "crl" \/ <<n, f>> \in Named) => runtime[f] = n

\* How far an apply has come.
Written(r) ==
  /\ r.at = "crl" => InPlace(r.doc.trust, {"chain"})
  /\ r.at = "certs" => InPlace(r.doc.trust, {"chain", "crl"})
  /\ r.at = "own" => InPlace(r.doc.trust, Trust)

OfOneArtifact == \E n \in Nat : InPlace(n, Trust)

Whole ==
  ~ spoiled => /\ \A p \in Procs : Written(run[p])
               /\ (\A p \in Procs : run[p].at \notin Writing) => OfOneArtifact

Strong == IInv /\ Solo /\ Bounded /\ Recent /\ Courses /\ Holding /\ Whole

\* What the types say of one process.
LEMMA Typed ==
  ASSUME IInv, NEW p \in Procs
  PROVE  /\ run \in [Procs -> Process] /\ run[p] \in Process
         /\ run[p].doc \in Document /\ run[p].doc.trust \in Nat /\ run[p].doc.cert \in Nat
         /\ run[p].doc.trust <= current
         /\ current \in Nat /\ issued \in Nat /\ recorded \in 0 .. issued
         /\ young \subseteq 1 .. issued /\ renewed \subseteq Nat
         /\ runtime \in [Stores -> Nat]
         /\ enrollment.cert \in Nat /\ renewal.cert \in Nat
BY DEF IInv, FilesOK, ProcsOK, Sound, Process, Document

\* A process becomes r, or as good as new.
LEMMA Settles ==
  ASSUME run \in [Procs -> Process], NEW p \in Procs, NEW r \in Process, Becomes(p, r)
  PROVE  \E n \in Process :
           /\ run' = [run EXCEPT ![p] = n] /\ n.at = r.at
           /\ r.at \notin {"idle", "sleep"} => n = r
           /\ r.at \in {"idle", "sleep"} => n.doc = Nothing
<1>1. Idle \in Process /\ Start("sleep", "loop") \in Process
  BY StartIsProcess DEF Idle, Steps
<1>2. /\ Idle.at = "idle" /\ Idle.doc = Nothing
      /\ Start("sleep", "loop").at = "sleep" /\ Start("sleep", "loop").doc = Nothing
  BY DEF Idle, Start
<1>3. CASE r.at = "idle"
  BY <1>1, <1>2, <1>3 DEF Becomes
<1>4. CASE r.at = "sleep"
  BY <1>1, <1>2, <1>4 DEF Becomes
<1>5. CASE r.at \notin {"idle", "sleep"}
  BY <1>5 DEF Becomes
<1> QED
  BY <1>3, <1>4, <1>5

\* A step of a process at work, once its own state is accounted for.
LEMMA WorkingStep ==
  ASSUME Strong, NEW p \in Procs, NEW r \in Process, Working(p), Becomes(p, r),
         UNCHANGED alone, issued' \in Nat, issued <= issued',
         Course(r), r.doc.cert <= issued',
         alone /\ r.at \notin Pausing => Held(r)'
  PROVE  Solo' /\ Courses' /\ Holding'
<1>1. PICK n \in Process :
        /\ run' = [run EXCEPT ![p] = n] /\ n.at = r.at
        /\ r.at \notin {"idle", "sleep"} => n = r
        /\ r.at \in {"idle", "sleep"} => n.doc = Nothing
  BY Settles, Typed DEF Strong
<1>2. run' \in [Procs -> Process] /\ run'[p] = n /\ \A q \in Procs \ {p} : run'[q] = run[q]
  BY <1>1, Typed DEF Strong
<1>3. \A q \in Procs \ {p} : alone => ~ Working(q)
  BY DEF Strong, Solo
<1>4. Solo'
  BY <1>2, <1>3 DEF Solo, Working
<1>5. Courses'
  <2>1. Course(n) /\ n.doc.cert <= issued'
    BY <1>1 DEF Course, Nothing, Parts, Trust
  <2>2. ASSUME NEW q \in Procs \ {p} PROVE Course(run[q]) /\ run[q].doc.cert <= issued'
    BY Typed DEF Strong, Courses
  <2> QED
    BY <1>2, <2>1, <2>2 DEF Courses, Course, Checking
<1>6. Holding'
  <2> SUFFICES ASSUME alone, NEW q \in Procs, Working(q)' PROVE Held(run[q])'
    BY DEF Holding
  <2>1. q = p
    BY <1>2, <1>3 DEF Working
  <2>2. n.at \notin Pausing /\ n = r
    BY <1>1, <1>2, <2>1 DEF Working, Pausing
  <2>3. Held(n)'
    BY <1>1, <2>2
  <2> QED
    BY <1>2, <2>1, <2>3 DEF Held, Checking
<1> QED
  BY <1>4, <1>5, <1>6

\* No apply goes on, and the files stay.
LEMMA WholeStays ==
  ASSUME Strong, NEW p \in Procs, NEW r \in Process, Becomes(p, r),
         \/ spoiled'
         \/ /\ UNCHANGED <<runtime, spoiled>>
            /\ r.at \notin Writing /\ run[p].at \notin Writing
  PROVE  Whole'
<1> SUFFICES ASSUME ~ spoiled' PROVE Whole'
  BY DEF Whole
<1>1. PICK n \in Process : run' = [run EXCEPT ![p] = n] /\ n.at = r.at
  BY Settles, Typed DEF Strong
<1>2. run'[p] = n /\ \A q \in Procs \ {p} : run'[q] = run[q]
  BY <1>1, Typed DEF Strong
<1>3. \A q \in Procs : Written(run[q])'
  BY <1>1, <1>2 DEF Strong, Whole, Written, InPlace, Writing
<1>4. (\A q \in Procs : run'[q].at \notin Writing) => OfOneArtifact'
  BY <1>1, <1>2 DEF Strong, Whole, OfOneArtifact, InPlace
<1> QED
  BY <1>3, <1>4 DEF Whole

\* The bounds only rise.
LEMMA BoundedStays ==
  ASSUME Strong, current' \in Nat, current <= current', issued' \in Nat, issued <= issued',
         UNCHANGED <<runtime, enrollment, renewal>>
  PROVE  Bounded'
<1>1. /\ current \in Nat /\ issued \in Nat /\ runtime \in [Stores -> Nat]
      /\ enrollment.cert \in Nat /\ renewal.cert \in Nat
  BY DEF Strong, IInv, FilesOK, Document
<1>2. \A f \in Files : runtime[f] \in Nat /\ runtime[f] <= current'
  BY <1>1 DEF Strong, Bounded, Stores
<1>3. runtime["own"] \in Nat /\ runtime["own"] <= issued'
  BY <1>1 DEF Strong, Bounded, Stores
<1> QED
  BY <1>1, <1>2, <1>3 DEF Strong, Bounded

\* So does the age of what is on record, when nothing is recorded.
LEMMA RecentStays ==
  ASSUME Strong, issued' \in Nat, issued <= issued', young' \subseteq young \cup {issued + 1},
         UNCHANGED <<recorded, renewed>>
  PROVE  Recent'
<1> SUFFICES ASSUME NEW c \in renewed
             PROVE  c <= issued' /\ (c \in young' => c <= recorded)
  BY DEF Recent
<1>1. c \in Nat /\ issued \in Nat /\ c <= issued /\ (c \in young => c <= recorded)
  BY Typed DEF Strong, Recent, IInv, FilesOK
<1> QED
  BY <1>1

Rest == Solo /\ Bounded /\ Recent /\ Courses /\ Holding /\ Whole

\* What the invariant says of a process at work.
LEMMA AtWork ==
  ASSUME Strong, NEW p \in Procs, Working(p)
  PROVE  Course(run[p]) /\ run[p].doc.cert <= issued /\ (alone => Held(run[p]))
BY DEF Strong, Courses, Holding

\* A step that changes no more than the memory of the process.
LEMMA MemoryStep ==
  ASSUME Strong, NEW p \in Procs, NEW r \in Process, Working(p), Becomes(p, r),
         UNCHANGED <<current, issued, material, enrollment, renewal, runtime, recorded, young, history>>,
         Course(r), r.doc.cert <= issued, r.at \notin Writing, run[p].at \notin Writing,
         alone /\ r.at \notin Pausing => Held(r)
  PROVE  Rest'
<1>1. current \in Nat /\ issued \in Nat
  BY Typed DEF Strong
<1>2. UNCHANGED <<alone, fresh, spoiled, renewed>>
  BY DEF history
<1>3. Held(r) => Held(r)'
  BY <1>2 DEF Held, NotBehind, TrustPayload, Checking
<1>4. Solo' /\ Courses' /\ Holding'
  BY <1>1, <1>2, <1>3, WorkingStep
<1>5. Bounded'
  BY <1>1, BoundedStays
<1>6. Whole'
  BY <1>2, WholeStays
<1>7. Recent'
  BY <1>1, <1>2, RecentStays
<1> QED
  BY <1>4, <1>5, <1>6, <1>7 DEF Rest

\* Which step follows trust material, a pull and an apply.
LEMMA Turns ==
  ASSUME NEW r \in Process, NEW ok \in BOOLEAN
  PROVE  /\ AfterPull(r) \in {"idle", "load", "renewal", "status"}
         /\ AfterApply(r, ok) \in {"idle", "renewal", "record", "status"}
BY DEF AfterPull, AfterApply, AfterTrust, Process

\* Asking GDS, and moving on.
LEMMA LifecycleHolds ==
  ASSUME Strong, NEW p \in Procs, Lifecycle(p)
  PROVE  Rest'
<1>1. PICK due \in BOOLEAN :
        Step(p, "lifecycle", [run[p] EXCEPT !.update = reported # current, !.due = due])
  BY DEF Lifecycle, DueAnswers
<1>2. run[p] \in Process /\ run[p].at = "lifecycle" /\ Working(p)
  BY <1>1, Typed DEF Strong, Step, Working
<1>3. Course(run[p]) /\ run[p].doc.cert <= issued /\ (alone => Held(run[p]))
  BY <1>2, AtWork
<1>4. PICK r \in Process :
        r = [run[p] EXCEPT !.update = reported # current, !.due = due, !.at = "version"]
  <2> DEFINE b == reported # current
  <2>1. b \in BOOLEAN
    OBVIOUS
  <2> HIDE DEF b
  <2>2. [run[p] EXCEPT !.update = b, !.due = due, !.at = "version"] \in Process
    BY <1>2, <2>1 DEF Process, Steps
  <2> QED
    BY <2>2 DEF b
<1>5. Becomes(p, r) /\ UNCHANGED <<gds, cache, marks, runtime, history, faults>>
  BY <1>1, <1>2, <1>4 DEF Lifecycle, Step, After, Process
<1>6. r.at = "version" /\ r.doc = run[p].doc
  BY <1>2, <1>4 DEF Process
<1>7. Course(r)
  BY <1>6 DEF Course
<1>8. alone => Held(r)
  BY <1>2, <1>3, <1>6 DEF Held, Parts, Trust
<1> QED
  BY <1>2, <1>3, <1>5, <1>6, <1>7, <1>8, MemoryStep DEF Writing, gds, cache, marks

LEMMA FetchHolds ==
  ASSUME Strong, NEW p \in Procs, NEW s \in {"version", "pull"}, Fetch(p, s)
  PROVE  Rest'
<1>1. run[p] \in Process /\ run[p].at = s /\ Working(p) /\ current \in Nat /\ issued \in Nat
      /\ runtime \in [Stores -> Nat]
  BY Typed DEF Strong, Fetch, Step, Working
<1>2. Course(run[p]) /\ run[p].doc.cert <= issued /\ (alone => Held(run[p]))
  BY <1>1, AtWork
<1> DEFINE to == IF s = "version" THEN "keep_version" ELSE "cache"
<1>3. PICK r \in Process :
        r = [run[p] EXCEPT !.doc = [trust |-> current, cert |-> 0], !.at = to]
  BY <1>1 DEF Process, Steps, Document
<1>4. Becomes(p, r) /\ UNCHANGED <<gds, cache, marks, runtime, history, faults>>
  BY <1>1, <1>3 DEF Fetch, Step, After, Process
<1>5. r.at = to /\ r.cmd = run[p].cmd /\ r.doc = [trust |-> current, cert |-> 0]
  BY <1>1, <1>3 DEF Process
<1>6. Course(r)
  BY <1>1, <1>2, <1>5 DEF Course, Parts, Trust
<1>7. NotBehind(r.doc)
  BY <1>1, <1>5 DEF NotBehind, Strong, Bounded
<1>8. alone => Held(r)
  BY <1>1, <1>2, <1>5, <1>7 DEF Held, Checking, Parts, Trust
<1> QED
  BY <1>1, <1>4, <1>5, <1>6, <1>8, MemoryStep DEF Writing, gds, cache, marks

LEMMA CooldownHolds ==
  ASSUME Strong, NEW p \in Procs, Cooldown(p)
  PROVE  Rest'
<1>1. run[p] \in Process /\ run[p].at = "renewal" /\ Working(p)
  BY Typed DEF Strong, Cooldown, Working
<1>2. Course(run[p]) /\ run[p].doc.cert <= issued /\ (alone => Held(run[p]))
  BY <1>1, AtWork
<1>3. PICK s \in {"status", "renew"} :
        /\ Becomes(p, [run[p] EXCEPT !.at = s])
        /\ s = "renew" => recorded = 0 /\ runtime["own"] \notin young
  <2>1. recorded \in Nat
    BY DEF Strong, IInv, FilesOK
  <2> QED
    BY <2>1 DEF Cooldown, CoolingDown
<1>4. PICK r \in Process : r = [run[p] EXCEPT !.at = s]
  BY <1>1 DEF Process, Steps
<1>5. r.at = s /\ r.cmd = run[p].cmd /\ r.doc = run[p].doc
  BY <1>1, <1>4 DEF Process
<1>6. Course(r)
  BY <1>5 DEF Course
<1>7. alone => Held(r)
  BY <1>1, <1>2, <1>3, <1>5 DEF Held, Parts, Trust
<1> QED
  BY <1>1, <1>2, <1>3, <1>4, <1>5, <1>6, <1>7, MemoryStep DEF Cooldown, Writing, gds, cache, marks

\* Loading what is to be applied.
LEMMA LoadHolds ==
  ASSUME Strong, NEW p \in Procs, ApplyTrust(p) \/ ApplyCertificate(p)
  PROVE  Rest'
<1> DEFINE d == IF run[p].at = "load" THEN TrustPayload ELSE CertificatePayload
<1>1. /\ run[p] \in Process /\ run[p].at \in {"load", "load_certificate"} /\ Working(p)
      /\ Load(p, run[p].at, d)
      /\ issued \in Nat
  BY Typed DEF Strong, ApplyTrust, ApplyCertificate, Load, Working
<1>2. Course(run[p]) /\ run[p].doc.cert <= issued /\ (alone => Held(run[p]))
  BY <1>1, AtWork
<1>3. d \in Document /\ d.cert <= issued
  <2>1. TrustPayload.cert = 0
    BY DEF TrustPayload
  <2>2. CertificatePayload \in {renewal, enrollment, TrustPayload}
    BY DEF CertificatePayload
  <2>3. d \in Document
    BY Payloads DEF Strong, IInv
  <2> QED
    BY <1>1, <2>1, <2>2, <2>3 DEF Strong, Bounded
<1>4. alone /\ fresh # Nothing => fresh = d
  BY <1>1, <1>2 DEF Held, CertificatePayload
<1> HIDE DEF d
<1>5. PICK q \in Process : q = [run[p] EXCEPT !.doc = d]
  BY <1>1, <1>3 DEF Process
<1>6. PICK s \in {"chain", "idle", "renewal", "record", "status"} :
        Becomes(p, [q EXCEPT !.at = s])
  <2>1. AfterApply(q, FALSE) \in {"idle", "renewal", "record", "status"}
    BY Turns
  <2> QED
    BY <1>1, <1>5, <2>1 DEF Load
<1>7. PICK r \in Process : r = [q EXCEPT !.at = s]
  BY DEF Process, Steps, Parts, Trust
<1>8. r.at = s /\ r.cmd = run[p].cmd /\ r.doc = d
  BY <1>1, <1>5, <1>7 DEF Process
<1>9. Course(r)
  BY <1>8 DEF Course
<1>10. alone => Held(r)
  BY <1>1, <1>2, <1>4, <1>8 DEF Held, Parts, Trust
<1> QED
  BY <1>1, <1>3, <1>6, <1>7, <1>8, <1>9, <1>10, MemoryStep DEF Load, Writing, gds, cache, marks

\* The report.
LEMMA ReportHolds ==
  ASSUME Strong, NEW p \in Procs, ReadStatus(p) \/ PostStatus(p)
  PROVE  Rest'
<1>1. run[p] \in Process /\ run[p].at \in {"status", "post"} /\ Working(p)
  BY Typed DEF Strong, ReadStatus, PostStatus, Step, Working
<1>2. Course(run[p]) /\ run[p].doc.cert <= issued /\ (alone => Held(run[p])) /\ issued \in Nat
  BY <1>1, AtWork, Typed DEF Strong
<1>3. PICK r \in Process :
        /\ Becomes(p, r) /\ r.at \in {"post", "idle", "sleep"}
        /\ r.doc.cert <= issued
        /\ UNCHANGED <<current, issued, material, enrollment, renewal, runtime, recorded, young, history>>
  <2>1. CASE PostStatus(p)
    <3> DEFINE to == IF run[p].cmd = "loop" THEN "sleep" ELSE "idle"
    <3>1. [run[p] EXCEPT !.at = to] \in Process
      BY <1>1 DEF Process, Steps
    <3> QED
      BY <1>1, <1>2, <2>1, <3>1 DEF PostStatus, Step, After, Process, cache, marks
  <2>2. CASE ReadStatus(p)
    <3> DEFINE v == IF version # 0 THEN version ELSE material
    <3>1. v \in Nat
      BY DEF Strong, IInv, FilesOK
    <3> HIDE DEF v
    <3>2. PICK q \in Process : q = [Start("status", run[p].cmd) EXCEPT !.claim = v]
      BY <1>1, <3>1 DEF Process, Steps, Start, Document, Nothing
    <3>3. q.at = "status" /\ q.doc = Nothing
      BY <3>2 DEF Start
    <3>4. Becomes(p, [q EXCEPT !.at = "post"])
          /\ UNCHANGED <<gds, cache, marks, runtime, history, faults>>
      BY <2>2, <3>2, <3>3 DEF ReadStatus, Step, After, v
    <3>5. PICK r \in Process : r = [q EXCEPT !.at = "post"]
      BY DEF Process, Steps
    <3>6. r.at = "post" /\ r.doc = Nothing
      BY <3>3, <3>5 DEF Process
    <3>7. Nothing.cert <= issued
      BY <1>2 DEF Nothing
    <3> QED
      BY <3>4, <3>5, <3>6, <3>7 DEF gds, cache, marks
  <2> QED
    BY <2>1, <2>2
<1>4. Course(r)
  BY <1>3 DEF Course, Parts, Trust
<1>5. alone => Held(r)
  BY <1>1, <1>2, <1>3 DEF Held, Parts, Trust
<1> QED
  BY <1>1, <1>3, <1>4, <1>5, MemoryStep DEF Writing

\* Filing in the cache.
LEMMA NoteVersionHolds ==
  ASSUME Strong, NEW p \in Procs, NoteVersion(p)
  PROVE  Rest'
<1>1. run[p] \in Process /\ run[p].at \in {"keep_version", "note"} /\ Working(p)
  BY Typed DEF Strong, NoteVersion, Step, Working
<1>2. Course(run[p]) /\ run[p].doc.cert <= issued /\ (alone => Held(run[p]))
  BY <1>1, AtWork
<1>3. PICK s \in {"pull", "idle", "load", "renewal", "status"} :
        /\ Becomes(p, [run[p] EXCEPT !.at = s])
        /\ s = "pull" => run[p].at = "keep_version"
  BY <1>1, Turns DEF NoteVersion, Step, After
<1>4. PICK r \in Process : r = [run[p] EXCEPT !.at = s]
  BY <1>1 DEF Process, Steps
<1>5. r.at = s /\ r.doc = run[p].doc
  BY <1>1, <1>4 DEF Process
<1>6. Course(r)
  BY <1>5 DEF Course
<1>7. alone => Held(r)
  BY <1>1, <1>2, <1>3, <1>5 DEF Held, Parts, Trust
<1>8. UNCHANGED <<current, issued, material, enrollment, renewal, runtime, recorded, young, history>>
  BY DEF NoteVersion, gds, marks
<1> QED
  BY <1>1, <1>2, <1>3, <1>4, <1>5, <1>6, <1>7, <1>8, MemoryStep DEF Writing

\* Filing of a document to go on with, or to be done with.
LEMMA DocumentHolds ==
  ASSUME Strong, NEW p \in Procs, CacheTrust(p) \/ KeepEnrollment(p) \/ KeepRenewal(p)
  PROVE  Rest'
<1> DEFINE d == run[p].doc
<1>1. /\ run[p] \in Process /\ run[p].at \in {"cache", "keep_enrollment", "keep_renewal"}
      /\ Working(p) /\ current \in Nat /\ issued \in Nat /\ d \in Document
  BY Typed DEF Strong, CacheTrust, KeepEnrollment, KeepRenewal, Step, Working
<1>2. Course(run[p]) /\ d.cert <= issued /\ (alone => Held(run[p]))
  BY <1>1, AtWork
<1>3. /\ fresh' = d /\ enrollment' \in {enrollment, d} /\ renewal' \in {renewal, d}
      /\ UNCHANGED <<current, issued, runtime, recorded, young, alone, spoiled, renewed>>
  BY DEF CacheTrust, KeepEnrollment, KeepRenewal, gds, marks
<1>4. PICK r \in Process :
        /\ Becomes(p, r) /\ r.doc = d
        /\ r.at \in {"note", "load_certificate", "idle"}
        /\ r.at = "note" => run[p].at = "cache" /\ material' = d.trust
        /\ r.at = "load_certificate" => renewal' = d
  <2>1. CASE CacheTrust(p)
    <3>1. PICK r \in Process : r = [run[p] EXCEPT !.at = "note"]
      BY <1>1 DEF Process, Steps
    <3>2. Becomes(p, r) /\ run[p].at = "cache" /\ material' = d.trust
      BY <2>1, <3>1 DEF CacheTrust, Step, After
    <3> QED
      BY <1>1, <3>1, <3>2 DEF Process
  <2>2. CASE KeepEnrollment(p)
    <3>1. PICK r \in Process : r = [run[p] EXCEPT !.at = "idle"]
      BY <1>1 DEF Process, Steps
    <3>2. Becomes(p, r)
      BY <2>2, <3>1 DEF KeepEnrollment, Step, After
    <3> QED
      BY <1>1, <3>1, <3>2 DEF Process
  <2>3. CASE KeepRenewal(p)
    <3> DEFINE b == Checking(run[p])
    <3>1. b \in BOOLEAN
      BY Zenon DEF Checking
    <3>2. PICK q \in Process : q = [run[p] EXCEPT !.renewing = b]
      <4> HIDE DEF b
      <4> QED
        BY <1>1, <3>1 DEF Process
    <3>3. q.at = run[p].at /\ q.doc = d
      BY <1>1, <3>2 DEF Process
    <3>4. run[p].at = "keep_renewal" /\ Becomes(p, [q EXCEPT !.at = After(q, TRUE)])
          /\ renewal' = d
      BY <2>3, <3>2 DEF KeepRenewal, Step
    <3>5. PICK s \in {"load_certificate", "idle"} : s = After(q, TRUE)
      BY <3>3, <3>4 DEF After
    <3>6. PICK r \in Process : r = [q EXCEPT !.at = s]
      BY DEF Process, Steps
    <3>7. r.at = s /\ r.doc = d
      BY <3>3, <3>6 DEF Process
    <3> QED
      BY <3>4, <3>5, <3>6, <3>7
  <2> QED
    BY <2>1, <2>2, <2>3
<1>5. Course(r)
  BY <1>4 DEF Course
<1>6. alone /\ r.at \notin Pausing => Held(r)'
  <2> SUFFICES ASSUME alone, r.at \in {"note", "load_certificate"} PROVE Held(r)'
    BY <1>4 DEF Pausing
  <2>1. NotBehind(d)
    BY <1>1, <1>2 DEF Held
  <2>2. NotBehind(fresh)'
    BY <1>3, <2>1 DEF NotBehind
  <2>3. r.at = "note" => fresh' = TrustPayload'
    BY <1>1, <1>2, <1>3, <1>4 DEF TrustPayload, Document, Course
  <2> QED
    BY <1>3, <1>4, <2>2, <2>3 DEF Held, Parts, Trust
<1>7. Solo' /\ Courses' /\ Holding'
  BY <1>1, <1>2, <1>3, <1>4, <1>5, <1>6, WorkingStep
<1>8. Bounded'
  BY <1>2, <1>3 DEF Strong, Bounded
<1>9. Whole'
  BY <1>1, <1>3, <1>4, WholeStays DEF Writing
<1>10. Recent'
  BY <1>1, <1>3, RecentStays
<1> QED
  BY <1>7, <1>8, <1>9, <1>10 DEF Rest

\* A renewal goes on record: every certificate there is now is as old.
LEMMA RecordHolds ==
  ASSUME Strong, NEW p \in Procs, RecordRenewal(p)
  PROVE  Rest'
<1>1. /\ run[p] \in Process /\ run[p].at = "record" /\ Working(p)
      /\ current \in Nat /\ issued \in Nat /\ run[p].doc.cert \in Nat
  BY Typed DEF Strong, RecordRenewal, Step, Working
<1>2. run[p].doc.cert <= issued /\ (alone => Held(run[p]))
  BY <1>1, AtWork
<1>3. PICK r \in Process : r = [run[p] EXCEPT !.at = "status"]
  BY <1>1 DEF Process, Steps
<1>4. Becomes(p, r) /\ r.at = "status" /\ r.doc = run[p].doc
  BY <1>1, <1>3 DEF RecordRenewal, Step, After, Process
<1>5. /\ recorded' = issued /\ renewed' = renewed \cup {run[p].doc.cert}
      /\ UNCHANGED <<current, issued, material, enrollment, renewal, runtime, young, alone, fresh, spoiled>>
  BY DEF RecordRenewal, gds, cache
<1>6. alone => Held(r)'
  BY <1>1, <1>2, <1>4, <1>5 DEF Held, NotBehind, Parts, Trust
<1>7. Solo' /\ Courses' /\ Holding'
  BY <1>1, <1>2, <1>4, <1>5, <1>6, WorkingStep DEF Course
<1>8. Bounded'
  BY <1>1, <1>5, BoundedStays
<1>9. Recent'
  BY <1>1, <1>2, <1>5 DEF Strong, Recent
<1>10. Whole'
  BY <1>1, <1>4, <1>5, WholeStays DEF Writing
<1> QED
  BY <1>7, <1>8, <1>9, <1>10 DEF Rest

\* Which of a document a step of an apply writes.
LEMMA WhatIsWritten ==
  ASSUME NEW d \in Document, NEW part \in Parts
  PROVE  /\ Writes(d, part) \subseteq Stores
         /\ ("own" \in Writes(d, part)) <=> (part = "own")
         /\ Content(d, "own") = d.cert
         /\ \A f \in Files :
              /\ Content(d, f) = d.trust
              /\ (f \in Writes(d, part)) <=>
                   (part # "own" /\ Kind[f] = part /\ (part = "crl" \/ <<d.trust, f>> \in Named))
<1>1. "own" \notin Files
  BY GatewayAssumption
<1>2. CASE part = "own"
  BY <1>1, <1>2 DEF Writes, Content, Stores
<1>3. CASE part # "own"
  BY <1>1, <1>3 DEF Writes, Content, Stores
<1> QED
  BY <1>2, <1>3

\* A step of an apply puts its files in place, next to those that are.
LEMMA InPlaceGrows ==
  ASSUME NEW d \in Document, NEW part \in Trust, NEW before \in SUBSET Trust,
         part = "chain" \/ InPlace(d.trust, before), part = "chain" => before = {},
         runtime' = [f \in Stores |-> IF f \in Writes(d, part) THEN Content(d, f) ELSE runtime[f]]
  PROVE  InPlace(d.trust, before \cup {part})'
<1> SUFFICES ASSUME NEW f \in Files, Kind[f] \in before \cup {part},
                    Kind[f] = "crl" \/ <<d.trust, f>> \in Named
             PROVE  runtime'[f] = d.trust
  BY DEF InPlace
<1>1. /\ part \in Parts /\ part # "own" /\ f \in Stores
  BY DEF Parts, Trust, Stores
<1>2. CASE Kind[f] = part
  <2>1. f \in Writes(d, part) /\ Content(d, f) = d.trust
    BY <1>1, <1>2, WhatIsWritten
  <2> QED
    BY <1>1, <2>1
<1>3. CASE Kind[f] # part
  <2>1. f \notin Writes(d, part) /\ runtime[f] = d.trust
    BY <1>1, <1>3, WhatIsWritten DEF InPlace
  <2> QED
    BY <1>1, <2>1
<1> QED
  BY <1>2, <1>3

\* The files of one step of an apply are written.
LEMMA ApplyHolds ==
  ASSUME Strong, NEW p \in Procs, NEW part \in Parts, Apply(p, part)
  PROVE  Rest'
<1> DEFINE d == run[p].doc
<1>1. /\ run \in [Procs -> Process] /\ run[p] \in Process /\ run[p].at = part /\ Working(p)
      /\ current \in Nat /\ issued \in Nat /\ d \in Document /\ d.trust \in Nat /\ d.cert \in Nat
      /\ d.trust <= current /\ runtime \in [Stores -> Nat]
  BY Typed DEF Strong, Apply, Step, Working, Parts, Trust
<1>2. Course(run[p]) /\ d.cert <= issued /\ (alone => Held(run[p]))
  BY <1>1, AtWork
<1>3. /\ runtime' = [f \in Stores |-> IF f \in Writes(d, part) THEN Content(d, f) ELSE runtime[f]]
      /\ spoiled' = \/ ~ alone
                    \/ part = "chain" /\ d.trust \in NoLists
                    \/ spoiled /\ part # "chain"
      /\ UNCHANGED <<current, issued, material, enrollment, renewal, recorded, young, alone, fresh, renewed>>
  BY DEF Apply, Spoils, gds, cache, marks
<1>4. PICK s \in Steps :
        /\ Becomes(p, [run[p] EXCEPT !.at = s])
        /\ \/ s \in {"idle", "renewal", "record", "status"}
              /\ (part = "chain" => d.trust \in NoLists) /\ part # "crl"
           \/ part = "chain" /\ s = "crl"
           \/ part = "crl" /\ s = "certs"
           \/ part = "certs" /\ s = "own" /\ d.cert > 0
  <2>1. \A ok \in BOOLEAN : AfterApply(run[p], ok) \in {"idle", "renewal", "record", "status"}
    BY <1>1, Turns
  <2>2. Becomes(p, [run[p] EXCEPT !.at = After(run[p], TRUE)])
    BY DEF Apply, Step
  <2>3. CASE part = "chain"
    BY <1>1, <2>1, <2>2, <2>3 DEF After, Steps, Parts, Trust
  <2>4. CASE part = "crl"
    BY <1>1, <2>1, <2>2, <2>4 DEF After, Steps, Parts, Trust
  <2>5. CASE part = "certs"
    BY <1>1, <2>1, <2>2, <2>5 DEF After, Steps, Parts, Trust
  <2>6. CASE part = "own"
    BY <1>1, <2>1, <2>2, <2>6 DEF After, Steps, Parts, Trust
  <2> QED
    BY <2>3, <2>4, <2>5, <2>6 DEF Parts, Trust
<1>5. PICK r \in Process : r = [run[p] EXCEPT !.at = s]
  BY <1>1 DEF Process
<1>6. r.at = s /\ r.doc = d /\ Becomes(p, r)
  BY <1>1, <1>4, <1>5 DEF Process
<1>7. Course(r)
  BY <1>4, <1>6 DEF Course
<1>8. /\ \A f \in Files : runtime'[f] \in {runtime[f], d.trust}
      /\ runtime'["own"] = IF part = "own" THEN d.cert ELSE runtime["own"]
  <2>1. "own" \in Stores /\ Files \subseteq Stores
    BY DEF Stores
  <2> QED
    BY <1>1, <1>3, <2>1, WhatIsWritten
<1>9. alone => Held(r)'
  <2> SUFFICES ASSUME alone PROVE Held(r)'
    OBVIOUS
  <2>1. fresh # Nothing => fresh = d /\ NotBehind(fresh)
    BY <1>1, <1>2 DEF Held
  <2>2. fresh # Nothing => NotBehind(fresh)'
    BY <1>1, <1>3, <1>8, <2>1 DEF NotBehind
  <2> QED
    BY <1>1, <1>3, <1>4, <1>6, <2>1, <2>2 DEF Held, Parts, Trust
<1>10. Solo' /\ Courses' /\ Holding'
  <2>1. r.doc.cert <= issued' /\ issued' \in Nat /\ issued <= issued' /\ UNCHANGED alone
    BY <1>1, <1>2, <1>3, <1>6
  <2> QED
    BY <1>1, <1>6, <1>7, <1>9, <2>1, WorkingStep
<1>11. Bounded'
  BY <1>1, <1>2, <1>3, <1>8 DEF Strong, Bounded
<1>12. Whole'
  <2> SUFFICES ASSUME ~ spoiled' PROVE Whole'
    BY DEF Whole
  <2>1. PICK n \in Process : run' = [run EXCEPT ![p] = n] /\ n.at = s /\ (s \in Writing => n = r)
    BY <1>1, <1>6, Settles DEF Writing
  <2>2. run'[p] = n /\ \A q \in Procs \ {p} : run'[q] = run[q] /\ run[q].at \notin Writing
    BY <1>1, <1>3, <2>1 DEF Strong, Solo, Working, Writing
  <2>3. part # "chain" => Written(run[p])
    BY <1>3 DEF Strong, Whole
  <2>0. /\ r.doc \in Document
        /\ runtime' = [f \in Stores |-> IF f \in Writes(r.doc, part) THEN Content(r.doc, f) ELSE runtime[f]]
    BY <1>1, <1>3, <1>6
  <2>4. /\ part = "chain" => InPlace(r.doc.trust, {"chain"})'
        /\ part = "crl" => InPlace(r.doc.trust, {"chain", "crl"})'
        /\ part \in {"certs", "own"} => InPlace(r.doc.trust, Trust)'
    <3>1. CASE part = "chain"
      <4>1. InPlace(r.doc.trust, {} \cup {part})'
        BY <2>0, <3>1, InPlaceGrows DEF Trust
      <4> QED
        BY <3>1, <4>1
    <3>2. CASE part = "crl"
      <4>1. InPlace(r.doc.trust, {"chain"} \cup {part})'
        BY <1>1, <1>6, <2>0, <2>3, <3>2, InPlaceGrows DEF Written, Trust
      <4>2. {"chain"} \cup {part} = {"chain", "crl"}
        BY <3>2
      <4> QED
        BY <3>2, <4>1, <4>2
    <3>3. CASE part = "certs"
      <4>1. InPlace(r.doc.trust, {"chain", "crl"} \cup {part})'
        BY <1>1, <1>6, <2>0, <2>3, <3>3, InPlaceGrows DEF Written, Trust
      <4>2. {"chain", "crl"} \cup {part} = Trust
        BY <3>3 DEF Trust
      <4> QED
        BY <3>3, <4>1, <4>2
    <3>4. CASE part = "own"
      <4>1. InPlace(r.doc.trust, Trust)
        BY <1>1, <1>6, <2>3, <3>4 DEF Written
      <4>2. \A f \in Files : runtime'[f] = runtime[f]
        BY <1>1, <1>3, <3>4, WhatIsWritten DEF Stores
      <4> QED
        BY <3>4, <4>1, <4>2 DEF InPlace
    <3> QED
      BY <3>1, <3>2, <3>3, <3>4 DEF Parts, Trust
  <2>5. Written(r)'
    BY <1>4, <1>6, <2>4 DEF Written
  <2>6. \A q \in Procs : Written(run[q])'
    BY <2>1, <2>2, <2>5 DEF Written, Writing
  <2>7. s \notin Writing => OfOneArtifact'
    <3>1. s \notin Writing => part \in {"certs", "own"}
      BY <1>3, <1>4 DEF Writing, Parts, Trust
    <3> QED
      BY <1>1, <1>6, <2>4, <3>1 DEF OfOneArtifact
  <2> QED
    BY <2>1, <2>2, <2>6, <2>7 DEF Whole
<1>13. Recent'
  BY <1>1, <1>3, RecentStays
<1> QED
  BY <1>10, <1>11, <1>12, <1>13 DEF Rest

\* GDS issues a certificate, and the answer arrives.
LEMMA ObtainHolds ==
  ASSUME Strong, NEW p \in Procs, NEW s \in {"enroll", "renew"}, Obtain(p, s)
  PROVE  Rest'
<1>1. /\ run[p] \in Process /\ run[p].at = s /\ Working(p) /\ current \in Nat /\ issued \in Nat
      /\ runtime \in [Stores -> Nat]
  BY Typed DEF Strong, Obtain, Step, Working
<1>2. Course(run[p]) /\ (alone => Held(run[p]))
  BY <1>1, AtWork
<1>3. issued' = issued + 1
      /\ young' = young \cup {issued + 1}
      /\ UNCHANGED <<current, material, enrollment, renewal, runtime, recorded, alone, fresh, spoiled, renewed>>
  BY DEF Obtain, Issue, cache, history
<1> DEFINE d == [trust |-> current, cert |-> issued + 1]
           to == IF s = "enroll" THEN "keep_enrollment" ELSE "keep_renewal"
<1>4. PICK r \in Process : r = [run[p] EXCEPT !.doc = d, !.at = to]
  <2>1. d \in Document /\ to \in Steps
    BY <1>1 DEF Document, Steps
  <2> HIDE DEF d, to
  <2> QED
    BY <1>1, <2>1 DEF Process
<1>5. /\ Becomes(p, r) /\ r.at = to /\ r.doc = d
  BY <1>1, <1>4 DEF Obtain, Step, After, Process
<1>6. Course(r) /\ r.doc.cert <= issued'
  BY <1>1, <1>3, <1>5 DEF Course
<1>7. NotBehind(r.doc)'
  <2>1. runtime["own"] \in Nat
    BY <1>1 DEF Stores
  <2> QED
    BY <1>1, <1>3, <1>5, <2>1 DEF NotBehind, Strong, Bounded
<1>8. alone => Held(r)'
  <2>1. alone /\ fresh # Nothing => NotBehind(fresh)'
    BY <1>1, <1>2, <1>3 DEF Held, NotBehind
  <2>2. alone /\ r.at = "keep_enrollment" => fresh' = Nothing
    BY <1>1, <1>2, <1>3, <1>5 DEF Held
  <2>3. r.at \in {"keep_enrollment", "keep_renewal"}
    BY <1>5
  <2> QED
    BY <1>3, <1>7, <2>1, <2>2, <2>3 DEF Held, Parts, Trust
<1>9. Solo' /\ Courses' /\ Holding'
  BY <1>1, <1>3, <1>5, <1>6, <1>8, WorkingStep
<1>10. Bounded'
  BY <1>1, <1>3, BoundedStays
<1>11. Whole'
  BY <1>1, <1>3, <1>5, WholeStays DEF Writing
<1>12. Recent'
  BY <1>1, <1>3, RecentStays
<1> QED
  BY <1>9, <1>10, <1>11, <1>12 DEF Rest

\* A process that is not at work starts or stops waiting.
LEMMA PausedStep ==
  ASSUME Strong, NEW p \in Procs, ~ Working(p),
         NEW s \in Pausing, NEW c \in Commands \cup {"loop", "none"}, Becomes(p, Start(s, c)),
         UNCHANGED <<current, issued, material, enrollment, renewal, runtime, recorded, young, history>>
  PROVE  Rest'
<1>1. run \in [Procs -> Process] /\ current \in Nat /\ issued \in Nat
  BY Typed DEF Strong
<1>2. PICK r \in Process : r = Start(s, c)
  BY StartIsProcess DEF Pausing, Steps
<1>3. r.at = s /\ r.doc = Nothing
  BY <1>2 DEF Start
<1>4. PICK n \in Process : run' = [run EXCEPT ![p] = n] /\ n.at = s /\ n.doc = Nothing
  BY <1>1, <1>2, <1>3, Settles
<1>5. run'[p] = n /\ \A q \in Procs \ {p} : run'[q] = run[q]
  BY <1>1, <1>4
<1>6. UNCHANGED <<alone, fresh, spoiled, renewed>>
  BY DEF history
<1>7. \A q \in Procs : Working(q)' => q # p /\ Working(q)
  BY <1>4, <1>5 DEF Working, Pausing
<1>8. Solo'
  BY <1>6, <1>7 DEF Strong, Solo
<1>9. Courses'
  <2>1. Course(n) /\ n.doc.cert <= issued
    BY <1>1, <1>4 DEF Course, Nothing, Pausing
  <2> QED
    BY <1>5, <2>1 DEF Strong, Courses, Course
<1>10. Holding'
  BY <1>5, <1>6, <1>7 DEF Strong, Holding, Held, NotBehind, TrustPayload, Checking
<1>11. Bounded'
  BY <1>1, BoundedStays
<1>12. Whole'
  BY <1>2, <1>3, <1>6, WholeStays DEF Working, Writing, Pausing
<1>13. Recent'
  BY <1>1, <1>6, RecentStays
<1> QED
  BY <1>8, <1>9, <1>10, <1>11, <1>12, <1>13 DEF Rest

\* A command or a round begins: the process knows nothing yet.
LEMMA BeginHolds ==
  ASSUME Strong, NEW p \in Procs, ~ Working(p), NEW c \in Commands \cup {"loop"},
         NEW s \in {"lifecycle", "pull", "enroll", "renew", "load", "load_certificate"},
         Begin(p, s, c), c \in {"once", "loop"} => s = "lifecycle"
  PROVE  Rest'
<1>1. run \in [Procs -> Process] /\ current \in Nat /\ issued \in Nat
  BY Typed DEF Strong
<1>2. PICK r \in Process : r = Start(s, c)
  BY StartIsProcess DEF Steps
<1>3. r.at = s /\ r.cmd = c /\ r.doc = Nothing
  BY <1>2 DEF Start
<1>4. /\ run' = [run EXCEPT ![p] = r]
      /\ alone' = \A q \in Procs \ {p} : ~ Working(q)
      /\ fresh' = Nothing
      /\ UNCHANGED <<current, issued, material, enrollment, renewal, runtime, recorded, young, spoiled, renewed>>
  <2>1. Becomes(p, r)
    BY <1>2 DEF Begin
  <2> QED
    BY <1>1, <1>3, <2>1, Settles DEF Begin, gds, cache, marks
<1>5. run'[p] = r /\ \A q \in Procs \ {p} : run'[q] = run[q]
  BY <1>1, <1>4
<1>6. alone' => \A q \in Procs : Working(q)' => q = p
  BY <1>4, <1>5 DEF Working
<1>7. Solo'
  BY <1>6 DEF Solo
<1>8. Courses'
  <2>1. Course(r) /\ r.doc.cert <= issued
    BY <1>1, <1>3 DEF Course, Nothing
  <2> QED
    BY <1>4, <1>5, <2>1 DEF Strong, Courses, Course
<1>9. Holding'
  <2>1. Held(r)'
    BY <1>3, <1>4 DEF Held, Checking, Parts, Trust
  <2> QED
    BY <1>5, <1>6, <2>1 DEF Holding, Held, Checking
<1>10. Bounded'
  BY <1>1, <1>4, BoundedStays
<1>11. Whole'
  BY <1>2, <1>3, <1>4, WholeStays DEF Begin, Working, Writing
<1>12. Recent'
  BY <1>1, <1>4, RecentStays
<1> QED
  BY <1>7, <1>8, <1>9, <1>10, <1>11, <1>12 DEF Rest

\* A request that fails, or whose answer is lost.
LEMMA RequestFailsHolds ==
  ASSUME Strong, NEW p \in Procs, RequestFails(p)
  PROVE  Rest'
<1>1. /\ run[p] \in Process /\ run[p].at \in Requests /\ Working(p)
      /\ current \in Nat /\ issued \in Nat
  BY Typed DEF Strong, RequestFails, Fails, Requests, Working
<1>2. Course(run[p]) /\ run[p].doc.cert <= issued /\ (alone => Held(run[p]))
  BY <1>1, AtWork
<1>3. /\ Becomes(p, [run[p] EXCEPT !.at = After(run[p], FALSE)])
      /\ UNCHANGED <<material, enrollment, renewal, runtime, alone, fresh, spoiled, renewed>>
  BY DEF RequestFails, Fails, cache, history
<1>4. /\ current' = current /\ issued' \in Nat /\ issued <= issued'
      /\ recorded' = recorded /\ young' \subseteq young \cup {issued + 1}
  BY <1>1 DEF RequestFails, Issue, gds, marks
<1>5. PICK s \in {"idle", "load", "renewal", "status", "sleep"} :
        /\ s = After(run[p], FALSE)
        /\ s \in {"load", "renewal"} => run[p].at = "pull"
  BY Zenon, <1>1, Turns DEF After, Requests
<1>6. PICK r \in Process : r = [run[p] EXCEPT !.at = s]
  BY <1>1 DEF Process, Steps
<1>7. Becomes(p, r) /\ r.at = s /\ r.doc = run[p].doc
  BY <1>1, <1>3, <1>5, <1>6 DEF Process
<1>8. Course(r) /\ r.doc.cert <= issued'
  <2>1. r.doc.cert <= issued'
    BY <1>1, <1>2, <1>4, <1>7, Typed DEF Strong
  <2> QED
    BY <1>5, <1>7, <2>1 DEF Course
<1>9. alone => Held(r)'
  <2>1. alone /\ fresh' # Nothing => NotBehind(fresh)'
    BY <1>2, <1>3 DEF Held, NotBehind
  <2>2. alone /\ s \in {"load", "renewal"} => fresh' = Nothing
    BY <1>2, <1>3, <1>5 DEF Held
  <2> QED
    BY <1>5, <1>7, <2>1, <2>2 DEF Held, Parts, Trust
<1>10. Solo' /\ Courses' /\ Holding'
  BY <1>1, <1>3, <1>4, <1>7, <1>8, <1>9, WorkingStep
<1>11. Bounded'
  BY <1>1, <1>3, <1>4, BoundedStays
<1>12. Whole'
  BY <1>1, <1>3, <1>5, <1>7, WholeStays DEF Writing, Requests
<1>13. Recent'
  BY <1>1, <1>3, <1>4, RecentStays
<1> QED
  BY <1>10, <1>11, <1>12, <1>13 DEF Rest

\* What is left of a file that was being written is no newer than it was or
\* than the document has it, and an apply that leaves one is known to be cut short.
LEMMA DamageHolds ==
  ASSUME Strong, NEW p \in Procs, LeavesDamage(p)
  PROVE  /\ \A f \in Stores :
              \/ runtime'[f] = runtime[f]
              \/ run[p].at \in Parts /\ runtime'[f] \in {0, Content(run[p].doc, f)}
         /\ Bounded' /\ Recent'
         /\ run[p].at \in Parts => spoiled'
         /\ run[p].at \notin Parts => UNCHANGED <<runtime, spoiled>>
         /\ run[p].at # "cache" => material' = material
         /\ run[p].at # "keep_enrollment" => enrollment' = enrollment
         /\ run[p].at # "keep_renewal" => renewal' = renewal
         /\ run[p].at # "record" => UNCHANGED <<recorded, renewed>>
         /\ recorded' = recorded \/ recorded' = 0
         /\ UNCHANGED <<current, issued, young, alone, fresh>>
<1>1. /\ current \in Nat /\ issued \in Nat /\ runtime \in [Stores -> Nat]
      /\ run[p].doc.trust \in Nat /\ run[p].doc.cert \in Nat
      /\ run[p].doc.trust <= current /\ run[p].doc.cert <= issued
  BY Typed DEF Strong, Courses
<1>2. Damage(p) /\ spoiled' = (spoiled \/ run[p].at \in Parts)
  BY DEF LeavesDamage
<1>3. UNCHANGED <<current, issued, young, alone, fresh>>
  BY DEF LeavesDamage, gds
<1>4. \A f \in Stores :
        \/ runtime'[f] = runtime[f]
        \/ run[p].at \in Parts /\ runtime'[f] \in {0, Content(run[p].doc, f)}
  BY <1>2, DamagedFiles DEF Strong
<1>5. /\ material' = material \/ run[p].at = "cache"
      /\ enrollment' = enrollment \/ (run[p].at = "keep_enrollment" /\ enrollment' = Nothing)
      /\ renewal' = renewal \/ (run[p].at = "keep_renewal" /\ renewal' = Nothing)
      /\ runtime' = runtime \/ run[p].at \in Parts
  BY <1>2 DEF Damage, cache
<1>6. \/ UNCHANGED <<recorded, renewed>>
      \/ run[p].at = "record" /\ recorded' = 0 /\ renewed' = {}
  BY <1>2, DamagedFiles DEF Strong
<1>7. Bounded'
  <2>1. /\ \A f \in Files : f \in Stores /\ Content(run[p].doc, f) = run[p].doc.trust
        /\ "own" \in Stores /\ Content(run[p].doc, "own") = run[p].doc.cert
    BY GatewayAssumption DEF Content, Stores
  <2>2. \A f \in Files : runtime'[f] <= current
    BY <1>1, <1>4, <2>1 DEF Strong, Bounded
  <2>3. runtime'["own"] <= issued
    BY <1>1, <1>4, <2>1 DEF Strong, Bounded
  <2>4. enrollment'.cert <= issued /\ renewal'.cert <= issued
    BY <1>1, <1>5 DEF Strong, Bounded, Nothing
  <2> QED
    BY <1>3, <2>2, <2>3, <2>4 DEF Bounded
<1>8. Recent'
  <2>1. CASE UNCHANGED <<recorded, renewed>>
    BY <1>1, <1>3, <2>1, RecentStays
  <2>2. CASE renewed' = {}
    BY <2>2 DEF Recent
  <2> QED
    BY <1>6, <2>1, <2>2
<1>9. /\ run[p].at \in Parts => spoiled'
      /\ run[p].at \notin Parts => runtime' = runtime /\ spoiled' = spoiled
  <2>1. spoiled \in BOOLEAN
    BY DEF Strong, IInv, FilesOK
  <2> QED
    BY <1>2, <1>5, <2>1
<1> QED
  BY <1>3, <1>4, <1>5, <1>6, <1>7, <1>8, <1>9

\* A write that fails: the process goes on, an apply too.
LEMMA WriteFailsHolds ==
  ASSUME Strong, NEW p \in Procs, WriteFails(p)
  PROVE  Rest'
<1>1. /\ run[p] \in Process /\ run[p].at \in Filings /\ Working(p) /\ LeavesDamage(p)
      /\ Becomes(p, [run[p] EXCEPT !.at = After(run[p], FALSE)])
      /\ issued \in Nat /\ runtime \in [Stores -> Nat] /\ recorded \in Nat
  BY Typed DEF Strong, WriteFails, Fails, Filings, Parts, Trust, Working
<1>2. Course(run[p]) /\ run[p].doc.cert <= issued /\ (alone => Held(run[p]))
  BY <1>1, AtWork
<1>3. /\ \A f \in Stores :
           \/ runtime'[f] = runtime[f]
           \/ run[p].at \in Parts /\ runtime'[f] \in {0, Content(run[p].doc, f)}
      /\ Bounded' /\ Recent'
      /\ run[p].at \in Parts => spoiled'
      /\ run[p].at \notin Parts => UNCHANGED <<runtime, spoiled>>
      /\ run[p].at # "cache" => material' = material
      /\ UNCHANGED <<current, issued, young, alone, fresh>>
  BY <1>1, DamageHolds
<1> DEFINE Filing == {"keep_version", "cache", "note"}
           s == After(run[p], FALSE)
<1>4. /\ s \in {"idle", "pull", "load", "renewal", "record", "status"} \cup Writing
      /\ s = "pull" => run[p].at = "keep_version"
      /\ s = "load" => run[p].at \in Filing
      /\ s = "record" => run[p].at \in Parts
      /\ s \in Writing => run[p].at \in Parts
      /\ s = "own" => run[p].doc.cert > 0
  <2>1. /\ AfterPull(run[p]) \in {"idle", "load", "renewal", "status"}
        /\ \A ok \in BOOLEAN : AfterApply(run[p], ok) \in {"idle", "renewal", "record", "status"}
    BY <1>1, Turns
  <2>2. CASE run[p].at \in Filing
    BY <2>1, <2>2 DEF After, Writing, Parts, Trust
  <2>3. CASE run[p].at \in {"keep_enrollment", "keep_renewal", "record"}
    BY <2>3 DEF After, Writing
  <2>4. CASE run[p].at \in Parts
    BY <2>1, <2>4 DEF After, Writing, Parts, Trust
  <2> QED
    BY <1>1, <2>2, <2>3, <2>4 DEF Filings
<1> HIDE DEF Filing, s
<1>5. PICK r \in Process : r = [run[p] EXCEPT !.at = s]
  BY <1>1, <1>4 DEF Process, Steps, Writing, Parts, Trust
<1>6. Becomes(p, r) /\ r.at = s /\ r.doc = run[p].doc
  BY <1>1, <1>4, <1>5 DEF Process, s
<1>7. Course(r)
  BY <1>4, <1>6 DEF Course, Writing
<1>8. alone => Held(r)'
  <2> SUFFICES ASSUME alone PROVE Held(r)'
    OBVIOUS
  <2>1. fresh # Nothing => NotBehind(fresh)'
    <3>1. fresh # Nothing => NotBehind(fresh)
      BY <1>2 DEF Held
    <3>2. fresh.trust \in Nat /\ fresh.cert \in Nat
      BY DEF Strong, IInv, FilesOK, Document
    <3>3. run[p].at \in Parts /\ fresh # Nothing => fresh = run[p].doc
      BY <1>2 DEF Held
    <3>4. fresh # Nothing => \A f \in Files : runtime'[f] <= fresh.trust
      <4>1. \A f \in Files : f \in Stores /\ Content(run[p].doc, f) = run[p].doc.trust
        BY GatewayAssumption DEF Content, Stores
      <4> QED
        BY <1>1, <1>3, <3>1, <3>2, <3>3, <4>1 DEF NotBehind
    <3>5. fresh # Nothing /\ fresh.cert > 0 => runtime'["own"] <= fresh.cert
      <4>1. "own" \in Stores /\ Content(run[p].doc, "own") = run[p].doc.cert
        BY DEF Content, Stores
      <4> QED
        BY <1>1, <1>3, <3>1, <3>2, <3>3, <4>1 DEF NotBehind
    <3> QED
      BY <1>3, <3>4, <3>5 DEF NotBehind
  <2>2. s = "pull" => fresh = Nothing
    BY <1>2, <1>4 DEF Held
  <2>3. s = "load" /\ fresh # Nothing => fresh = TrustPayload'
    BY <1>2, <1>3, <1>4 DEF Held, TrustPayload, Filing
  <2>4. s \in Writing /\ fresh # Nothing => fresh = r.doc
    BY <1>2, <1>4, <1>6 DEF Held
  <2> QED
    BY <1>3, <1>4, <1>6, <2>1, <2>2, <2>3, <2>4 DEF Held, Writing, Parts, Trust
<1>9. Solo' /\ Courses' /\ Holding'
  BY <1>1, <1>2, <1>3, <1>6, <1>7, <1>8, WorkingStep
<1>10. Whole'
  BY <1>1, <1>3, <1>4, <1>6, WholeStays DEF Writing, Parts, Trust
<1> QED
  BY <1>3, <1>9, <1>10 DEF Rest

\* A process dies, at work or waiting.
LEMMA DieHolds ==
  ASSUME Strong, NEW p \in Procs, Die(p)
  PROVE  Rest'
<1>1. /\ LeavesDamage(p) /\ Becomes(p, Start("idle", "none")) /\ issued \in Nat
  BY Typed DEF Strong, Die, Idle
<1>2. /\ Bounded' /\ Recent'
      /\ run[p].at \in Parts => spoiled'
      /\ run[p].at \notin Parts => UNCHANGED <<runtime, spoiled>>
      /\ run[p].at # "cache" => material' = material
      /\ run[p].at # "keep_enrollment" => enrollment' = enrollment
      /\ run[p].at # "keep_renewal" => renewal' = renewal
      /\ run[p].at # "record" => UNCHANGED <<recorded, renewed>>
      /\ UNCHANGED <<current, issued, young, alone, fresh>>
  BY <1>1, DamageHolds
<1>3. CASE ~ Working(p)
  BY <1>1, <1>2, <1>3, PausedStep DEF Working, Pausing, history, Parts, Trust
<1>4. CASE Working(p)
  <2>1. PICK r \in Process : r = Start("idle", "none")
    BY StartIsProcess DEF Steps
  <2>2. r.at = "idle" /\ r.doc = Nothing
    BY <2>1 DEF Start
  <2>3. Course(r) /\ r.doc.cert <= issued
    BY <1>1, <2>2 DEF Course, Nothing
  <2>4. Solo' /\ Courses' /\ Holding'
    BY <1>1, <1>2, <1>4, <2>1, <2>2, <2>3, WorkingStep DEF Pausing
  <2>5. Whole'
    BY <1>1, <1>2, <2>1, <2>2, WholeStays DEF Writing, Parts, Trust
  <2> QED
    BY <1>2, <2>4, <2>5 DEF Rest
<1> QED
  BY <1>3, <1>4

\* GDS and time.
LEMMA OutsideHolds ==
  ASSUME Strong, Publish \/ CooldownPasses
  PROVE  Rest'
<1>1. /\ current \in Nat /\ issued \in Nat /\ current' \in Nat /\ current <= current'
      /\ young' \subseteq young /\ recorded' \in {recorded, 0}
      /\ recorded' # recorded => \A c \in young' : c > recorded
      /\ UNCHANGED <<issued, material, enrollment, renewal, runtime, run, alone, fresh, spoiled, renewed>>
  <2>1. current \in Nat /\ issued \in Nat
    BY Typed DEF Strong, IInv, FilesOK
  <2>2. CASE Publish
    BY <2>1, <2>2 DEF Publish, cache, marks, history
  <2>3. CASE CooldownPasses
    BY <2>1, <2>3 DEF CooldownPasses, gds, cache, history
  <2> QED
    BY <2>2, <2>3
<1>2. Bounded'
  BY <1>1, BoundedStays
<1>3. Solo' /\ Courses'
  BY <1>1 DEF Strong, Solo, Courses, Course, Working
<1>4. Holding'
  BY <1>1 DEF Strong, Holding, Held, NotBehind, TrustPayload, Working, Checking
<1>5. Whole'
  BY <1>1 DEF Strong, Whole, Written, OfOneArtifact, InPlace
<1>6. Recent'
  <2> SUFFICES ASSUME NEW c \in renewed
               PROVE  c <= issued /\ (c \in young' => c <= recorded')
    BY <1>1 DEF Recent
  <2>1. c \in Nat /\ recorded \in Nat /\ c <= issued /\ (c \in young => c <= recorded)
    BY DEF Strong, Recent, IInv, FilesOK
  <2> QED
    BY <1>1, <2>1
<1> QED
  BY <1>2, <1>3, <1>4, <1>5, <1>6 DEF Rest

\* The beginning and end of commands and of the loop.
LEMMA ControlHolds ==
  ASSUME Strong, NEW p \in Procs,
         \/ \E c \in Commands : Run(p, c)
         \/ "loop" \in Commands /\ RunLoop(p)
         \/ Lock(p) \/ Wake(p) \/ LoopStops(p)
  PROVE  Rest'
<1>1. ASSUME NEW c \in Commands, Run(p, c) PROVE Rest'
  <2>1. /\ FirstStep(c) \in {"lifecycle", "pull", "enroll", "renew", "load", "load_certificate"}
        /\ c \in {"once", "loop"} => FirstStep(c) = "lifecycle"
    BY <1>1, GatewayAssumption DEF Run, FirstStep
  <2> QED
    BY <1>1, <2>1, BeginHolds DEF Run, Working
<1>2. CASE RunLoop(p)
  BY <1>2, PausedStep DEF RunLoop, Working, Pausing, gds, cache, marks
<1>3. CASE Lock(p)
  BY <1>3, PausedStep DEF Lock, Idle, Working, Pausing, gds, cache, marks
<1>4. CASE Wake(p)
  BY <1>4, BeginHolds DEF Wake, Working
<1>5. CASE LoopStops(p)
  BY <1>5, PausedStep DEF LoopStops, Idle, Working, Pausing, gds, cache, marks
<1> QED
  BY <1>1, <1>2, <1>3, <1>4, <1>5

\* The steps of Advance together.
LEMMA AdvanceHolds ==
  ASSUME Strong, NEW p \in Procs, Advance(p)
  PROVE  Rest'
<1>1. CASE GetVersion(p) \/ PullTrust(p)
  BY <1>1, FetchHolds DEF GetVersion, PullTrust
<1>2. CASE Enroll(p)
  <2>1. CASE Obtain(p, "enroll")
    BY <2>1, ObtainHolds
  <2>2. CASE /\ run[p].at = "enroll" /\ Becomes(p, Start("idle", "none"))
             /\ UNCHANGED <<gds, cache, marks, runtime, history, faults>>
    <3>1. PICK r \in Process : r = Start("idle", "none")
      BY StartIsProcess DEF Steps
    <3>2. r.at = "idle" /\ r.doc = Nothing /\ Nothing.cert = 0
      BY <3>1 DEF Start, Nothing
    <3>3. Working(p) /\ Course(r) /\ r.doc.cert <= issued
      BY <2>2, <3>2, Typed DEF Strong, Working, Course
    <3> QED
      BY <2>2, <3>1, <3>2, <3>3, MemoryStep DEF Writing, Pausing, gds, cache, marks
  <2> QED
    BY <1>2, <2>1, <2>2 DEF Enroll, Idle
<1>3. CASE Renew(p)
  BY <1>3, ObtainHolds DEF Renew
<1>4. CASE \E part \in Parts : Apply(p, part)
  BY <1>4, ApplyHolds
<1> QED
  BY <1>1, <1>2, <1>3, <1>4, LifecycleHolds, NoteVersionHolds, DocumentHolds, LoadHolds,
     CooldownHolds, ReportHolds, RecordHolds DEF Advance

\* Every step keeps the second invariant too.
THEOREM StrongInvariance == Spec => []Strong
<1>1. Init => Strong
  <2> SUFFICES ASSUME Init PROVE Strong
    OBVIOUS
  <2>1. \A p \in Procs : run[p].at = "idle" /\ run[p].doc = Nothing
    BY Zenon DEF Init, Idle, Start
  <2>2. Solo /\ Holding
    BY <2>1 DEF Solo, Holding, Working
  <2>3. Bounded
    BY DEF Init, Bounded, Nothing, Stores
  <2>4. Courses
    <3>1. ASSUME NEW p \in Procs PROVE run[p].doc.cert <= issued
      <4>1. issued = 0
        BY DEF Init
      <4>2. run[p].doc.cert = 0
        BY <2>1 DEF Nothing
      <4> QED
        BY <4>1, <4>2
    <3>2. \A p \in Procs : Course(run[p])
      BY Zenon, <2>1 DEF Course
    <3> QED
      BY Zenon, <3>1, <3>2 DEF Courses
  <2>5. Whole
    <3>1. \A p \in Procs : Written(run[p])
      BY Zenon, <2>1 DEF Written
    <3>2. InPlace(0, Trust)
      BY GatewayAssumption DEF Init, InPlace, Stores
    <3> QED
      BY <3>1, <3>2 DEF Whole, OfOneArtifact
  <2>6. Recent
    BY DEF Init, Recent
  <2> QED
    BY InitIInv, <2>2, <2>3, <2>4, <2>5, <2>6 DEF Strong
<1>2. Strong /\ [Next]_vars => Strong'
  <2> SUFFICES ASSUME Strong, [Next]_vars PROVE Strong'
    OBVIOUS
  <2>1. IInv'
    BY NextIInv DEF Strong
  <2>2. CASE UNCHANGED vars
    BY <2>1, <2>2 DEF vars, gds, cache, marks, history, Strong, Solo, Bounded, Recent, Courses, Course,
         Holding, Held, NotBehind, TrustPayload, Whole, Written, InPlace, OfOneArtifact, Working, Checking
  <2>3. CASE Publish \/ CooldownPasses
    BY <2>1, <2>3, OutsideHolds DEF Rest, Strong
  <2>4. ASSUME NEW p \in Procs, Advance(p) PROVE Strong'
    BY <2>1, <2>4, AdvanceHolds DEF Rest, Strong
  <2>5. ASSUME NEW p \in Procs, RequestFails(p) \/ WriteFails(p) \/ Die(p) PROVE Strong'
    BY <2>1, <2>5, RequestFailsHolds, WriteFailsHolds, DieHolds DEF Rest, Strong
  <2>6. ASSUME NEW p \in Procs,
               \/ \E c \in Commands : Run(p, c)
               \/ "loop" \in Commands /\ RunLoop(p)
               \/ Lock(p) \/ Wake(p) \/ LoopStops(p)
        PROVE  Strong'
    BY <2>1, <2>6, ControlHolds DEF Rest, Strong
  <2> QED
    BY <2>2, <2>3, <2>4, <2>5, <2>6 DEF Next
<1> QED
  BY <1>1, <1>2, PTL DEF Spec

\* Outside an apply the lists of the runtime and every file of their artifact come
\* from that artifact, but for what an apply without lists, a crash or an overlap
\* leaves; what the artifact does not name is not spoken of.
THEOREM RuntimeIsOfOneArtifact == Spec => []RuntimeIsWhole
<1>1. Strong => RuntimeIsWhole
  <2> SUFFICES ASSUME Strong, \A p \in Procs : run[p].at \notin Parts, ~ spoiled,
                      NEW list \in Files, NEW f \in Files,
                      Kind[list] = "crl", Kind[f] = "crl" \/ <<runtime[list], f>> \in Named
               PROVE  runtime[f] = runtime[list]
    BY DEF RuntimeIsWhole
  <2>1. PICK n \in Nat : InPlace(n, Trust)
    BY DEF Strong, Whole, OfOneArtifact, Writing, Parts, Trust
  <2>2. Kind[f] \in Trust /\ "crl" \in Trust
    BY GatewayAssumption DEF Trust
  <2>3. runtime[list] = n
    BY <2>1, <2>2 DEF InPlace
  <2> QED
    BY <2>1, <2>2, <2>3 DEF InPlace
<1> QED
  BY <1>1, StrongInvariance, PTL

\* Where the runtime changes.
LEMMA RuntimeChanges ==
  ASSUME IInv, [Next]_vars, NEW f \in Stores, runtime'[f] # runtime[f]
  PROVE  \E p \in Procs : /\ run[p].at \in Parts /\ f \in Writes(run[p].doc, run[p].at)
                          /\ runtime'[f] \in {0, Content(run[p].doc, f)}
<1>1. \/ \E p \in Procs : \/ \E part \in Parts : Apply(p, part)
                          \/ WriteFails(p) \/ Die(p)
  <2>1. ASSUME NEW p \in Procs, Advance(p) PROVE \E part \in Parts : Apply(p, part)
    BY <2>1 DEF Advance, Lifecycle, GetVersion, NoteVersion, PullTrust, Fetch, CacheTrust,
         ApplyTrust, ApplyCertificate, Load, Enroll, Obtain, KeepEnrollment, Cooldown, Renew,
         KeepRenewal, RecordRenewal, ReadStatus, PostStatus
  <2>2. ASSUME NEW p \in Procs, RequestFails(p) PROVE FALSE
    BY <2>2 DEF RequestFails
  <2>3. ASSUME NEW p \in Procs,
               \/ \E c \in Commands : Run(p, c)
               \/ RunLoop(p) \/ Lock(p) \/ Wake(p) \/ LoopStops(p)
        PROVE  FALSE
    BY <2>3 DEF Run, RunLoop, Begin, Lock, Wake, LoopStops
  <2> QED
    BY <2>1, <2>2, <2>3 DEF Next, vars, Publish, CooldownPasses
<1>2. ASSUME NEW p \in Procs, NEW part \in Parts, Apply(p, part)
      PROVE  /\ run[p].at = part /\ f \in Writes(run[p].doc, part)
             /\ runtime'[f] = Content(run[p].doc, f)
  <2>1. /\ run[p].at = part
        /\ runtime' = [g \in Stores |-> IF g \in Writes(run[p].doc, part)
                                        THEN Content(run[p].doc, g) ELSE runtime[g]]
    BY <1>2 DEF Apply, Step
  <2> QED
    BY <2>1
<1>3. ASSUME NEW p \in Procs, WriteFails(p) \/ Die(p)
      PROVE  /\ run[p].at \in Parts /\ f \in Writes(run[p].doc, run[p].at)
             /\ runtime'[f] \in {0, Content(run[p].doc, f)}
  BY <1>3, DamagedFiles DEF WriteFails, Die, LeavesDamage
<1> QED
  BY <1>1, <1>2, <1>3

\* What a process that is alone has itself fetched is what it applies, and no
\* file of the runtime goes back.
THEOREM WhatIsFetchedIsApplied == Spec => FreshIsApplied
<1> DEFINE A(f) == alone /\ fresh # Nothing /\ runtime'[f] # runtime[f] =>
                     /\ runtime'[f] \in {0, Content(fresh, f)}
                     /\ runtime[f] <= Content(fresh, f)
<1>1. Strong /\ [Next]_vars => \A f \in Stores : A(f)
  <2> SUFFICES ASSUME Strong, [Next]_vars, NEW f \in Stores,
                      alone, fresh # Nothing, runtime'[f] # runtime[f]
               PROVE  /\ runtime'[f] \in {0, Content(fresh, f)}
                      /\ runtime[f] <= Content(fresh, f)
    OBVIOUS
  <2>1. PICK p \in Procs : /\ run[p].at \in Parts /\ f \in Writes(run[p].doc, run[p].at)
                           /\ runtime'[f] \in {0, Content(run[p].doc, f)}
    BY RuntimeChanges DEF Strong
  <2>2. Working(p)
    BY <2>1 DEF Working, Parts, Trust
  <2>3. Course(run[p]) /\ fresh = run[p].doc /\ NotBehind(fresh)
    BY <2>1, <2>2, AtWork DEF Held
  <2>4. runtime[f] <= Content(fresh, f)
    <3>1. CASE f = "own"
      <4>1. run[p].at = "own"
        BY <2>1, <3>1, WhatIsWritten, Typed DEF Strong
      <4> QED
        BY <2>3, <3>1, <4>1 DEF Course, NotBehind, Content
    <3>2. CASE f # "own"
      BY <2>3, <3>2 DEF NotBehind, Content, Stores
    <3> QED
      BY <3>1, <3>2
  <2> QED
    BY <2>1, <2>3, <2>4
<1> QED
  BY <1>1, StrongInvariance, PTL DEF FreshIsApplied, Spec

\* A check that is alone renews only when the certificate in the runtime, and all
\* whose renewal is on record, have outlived the cooldown, whatever GDS answers.
THEOREM RenewalsArePaced == Spec => RenewalIsPaced
<1> DEFINE A(p) == run[p].at = "renew" /\ Checking(run[p]) /\ alone /\ issued' # issued =>
                     young \cap (renewed \cup {runtime["own"]}) = {}
<1>1. Strong => \A p \in Procs : A(p)
  <2> SUFFICES ASSUME Strong, NEW p \in Procs,
                      run[p].at = "renew", Checking(run[p]), alone
               PROVE  young \cap (renewed \cup {runtime["own"]}) = {}
    OBVIOUS
  <2>1. recorded = 0 /\ runtime["own"] \notin young
    BY AtWork DEF Held, Working
  <2>2. \A c \in renewed : c \notin young
    BY <2>1 DEF Strong, Recent, IInv, FilesOK
  <2> QED
    BY <2>1, <2>2
<1> QED
  BY <1>1, StrongInvariance, PTL DEF RenewalIsPaced, Spec
===============================================================================
