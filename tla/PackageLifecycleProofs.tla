------------------------ MODULE PackageLifecycleProofs ------------------------
(***************************************************************************)
(* Proofs about the lifecycle of certificate packages: for any number of   *)
(* packages, certificates and request threads.                             *)
(***************************************************************************)
EXTENDS PackageLifecycle, TLAPS

\* The states the endpoint admits: all that is ever asked for.
Reported == {"PULLED", "VERIFIED", "STAGED", "APPROVED", "ACTIVATED",
             "ROLLED_BACK", "REVOKED", "EXPIRED"}

\* A request that writes has a stored package, and the state it has read was
\* recorded in the history before it wrote.
WriterInv(r) ==
  /\ r.requested \in Reported
  /\ r.at \in {"select", "update"} => r.op \in {"report", "revoke"}
  /\ r.at \in {"select", "update"} => r.package \in Stored
  /\ r.at = "update" => r.seen \in events[r.package] \cup {"PACKAGED"}

\* A revocation has marked the certificate before it visits the packages, and
\* the packages it has left behind.
RevokerInv(r) ==
  /\ r.at \in {"list", "vault", "mark", "visit"} => r.op = "revoke" /\ r.cert \in Certs
  /\ r.op = "revoke" => r.cert \in Certs
  /\ r.op = "revoke" => r.found \subseteq Stored /\ r.left \subseteq r.found
  /\ r.at = "list" => r.found = {}
  /\ r.at = "vault" \/ r.at = "mark" => r.left = r.found
  /\ r.op = "revoke" /\ r.at \in {"visit", "select", "update"} =>
       certStatus[r.cert] = "revoked"
  /\ r.op = "revoke" /\ r.at \in {"visit", "select", "update"} =>
       \A p \in r.found \ r.left :
         \/ status[p] = "revoked"
         \/ "EXPIRED" \in events[p]
         \/ r.at \in {"select", "update"} /\ p = r.package

\* A lookup knows only revocations that have been answered.
LookupInv(r) ==
  /\ r.at \in {"activated", "check", "answered"} => r.op = "lookup"
  /\ r.before \subseteq revokedOk
  /\ r.at = "answered" => r.cert \notin r.before

RequestInv(r) == WriterInv(r) /\ RevokerInv(r) /\ LookupInv(r)

RequestsInv == \A t \in Threads : RequestInv(req[t])

HistoryInv == \A p \in Packages : events[p] \subseteq Reported

AnsweredInv == \A c \in revokedOk : certStatus[c] = "revoked"

IInv ==
  /\ HistoryExplainsState
  /\ RevocationSticks
  /\ covered \subseteq Stored
  /\ HistoryInv
  /\ AnsweredInv
  /\ RequestsInv

-------------------------------------------------------------------------------
(***************************************************************************)
(* Type correctness.                                                       *)
(***************************************************************************)
LEMMA IdleType == Idle \in Request
BY DEF Idle, Request, Steps, States, Order

\* A lifecycle update writes a lifecycle state.
LEMMA TargetType ==
  ASSUME NEW s \in States \cup {"absent"}, NEW a \in States
  PROVE  Target(s, a) \in States \cup {"absent"}
BY DEF Target

LEMMA ReportedStates ==
  /\ "PULLED" \in States /\ "VERIFIED" \in States /\ "STAGED" \in States
  /\ "ACTIVATED" \in States /\ "REVOKED" \in States /\ "PACKAGED" \in States
BY DEF States, Order

LEMMA PostableReported == Postable \subseteq Reported /\ Reported \subseteq States
BY DEF Postable, States, Order, Reported

LEMMA SyncReportType ==
  ASSUME NEW i \in 1 .. Len(SyncReports)
  PROVE  SyncReports[i] \in {"PULLED", "VERIFIED", "STAGED"}
BY DEF SyncReports

\* A writing request has a package, a revoking one a certificate.
WriteType == \A t \in Threads :
  /\ req[t].at \in {"select", "update"} => req[t].package \in Packages
  /\ req[t].at \in {"list", "vault", "mark", "visit"} => req[t].cert \in Certs

LEMMA RequestsWriteType == TypeOK /\ RequestsInv => WriteType
BY DEF TypeOK, RequestsInv, RequestInv, WriterInv, RevokerInv, WriteType, Stored

\* The package and the read state of a writer, whatever it writes.
LEMMA WriteTypes ==
  ASSUME TypeOK, NEW p \in Packages, NEW s \in States \cup {"absent"},
         NEW a \in States, Write(p, s, a)
  PROVE  /\ state' \in [Packages -> States \cup {"absent"}]
         /\ status' \in [Packages -> {"active", "revoked"}]
         /\ events' \in [Packages -> SUBSET States]
<1>1. Target(s, a) \in States \cup {"absent"}
  BY TargetType
<1>2. StatusAfter(status[p], Target(s, a)) \in {"active", "revoked"}
  BY DEF StatusAfter, TypeOK
<1> QED
  BY <1>1, <1>2 DEF Write, TypeOK

\* Everything but the requests keeps its type.
RestOK ==
  /\ certStatus \in [Certs -> {"absent", "active", "revoked"}]
  /\ state \in [Packages -> States \cup {"absent"}]
  /\ status \in [Packages -> {"active", "revoked"}]
  /\ events \in [Packages -> SUBSET States]
  /\ next \in [Packages -> 1 .. Len(SyncReports)]
  /\ waiting \in [Packages -> Threads \cup {None}]
  /\ cached \subseteq Packages
  /\ revokedOk \subseteq Certs
  /\ covered \subseteq Packages

LEMMA RestOfType == TypeOK <=> RestOK /\ req \in [Threads -> Request]
BY DEF TypeOK, RestOK

LEMMA RestUnchanged ==
  RestOK /\ UNCHANGED <<database, agent, outcome>> => RestOK'
BY DEF RestOK, database, agent, outcome

LEMMA BecomesType ==
  ASSUME req \in [Threads -> Request], NEW t \in Threads, NEW r \in Request,
         Becomes(t, r)
  PROVE  req' \in [Threads -> Request]
BY DEF Becomes

\* A step of a request that only changes the request.
LEMMA LocalStep ==
  ASSUME TypeOK, NEW t \in Threads, NEW r \in Request, Becomes(t, r),
         UNCHANGED <<database, agent, outcome>>
  PROVE  TypeOK'
<1>1. RestOK' /\ req' \in [Threads -> Request]
  BY RestOfType, RestUnchanged, BecomesType
<1> QED BY <1>1 DEF TypeOK, RestOK

LEMMA TypeStep == TypeOK /\ WriteType /\ [Next]_vars => TypeOK'
<1> SUFFICES ASSUME TypeOK, WriteType, [Next]_vars PROVE TypeOK'
  OBVIOUS
<1> USE LifecycleAssumption
<1>r. RestOK /\ req \in [Threads -> Request]
  BY RestOfType
<1>t. \A t \in Threads : req[t] \in Request
  BY <1>r
<1>1. CASE UNCHANGED vars
  BY <1>1 DEF TypeOK, vars, database, agent, outcome
<1>2. ASSUME NEW c \in Certs, IssueCertificate(c) PROVE TypeOK'
  BY <1>2 DEF TypeOK, IssueCertificate, agent, outcome
<1>3. ASSUME NEW p \in Packages, StorePackage(p) PROVE TypeOK'
  BY <1>3, ReportedStates DEF TypeOK, StorePackage, agent, outcome
<1>4. ASSUME NEW p \in Packages, SyncReportFails(p) \/ CycleAborts(p) PROVE TypeOK'
  <2>1. waiting' \in [Packages -> Threads \cup {None}]
    BY <1>4 DEF CycleAborts, SyncReportFails, Advance, TypeOK
  <2>2. next' \in [Packages -> 1 .. Len(SyncReports)]
    BY <1>4 DEF CycleAborts, SyncReportFails, Advance, TypeOK, SyncReports
  <2>3. cached' \subseteq Packages
    BY <1>4 DEF CycleAborts, SyncReportFails, Cache, TypeOK
  <2> QED BY <1>4, <2>1, <2>2, <2>3 DEF CycleAborts, SyncReportFails, TypeOK, database, outcome
<1>5. ASSUME NEW t \in Threads, NEW p \in Packages,
             SyncReport(t, p) \/ ActivationReport(t, p) \/ PostEvent(t, p)
      PROVE  TypeOK'
  <2>1. ASSUME NEW a \in States, Report(t, p, a) PROVE req' \in [Threads -> Request]
    <3>1. [Idle EXCEPT !.at = "select", !.op = "report", !.package = p,
                       !.requested = a] \in Request
      BY DEF Idle, Request, Steps, States, Order
    <3> QED BY <1>r, <2>1, <3>1, BecomesType DEF Report
  <2>2. CASE SyncReport(t, p)
    <3>1. SyncReports[next[p]] \in States
      BY SyncReportType, ReportedStates DEF TypeOK
    <3>2. req' \in [Threads -> Request]
      BY <2>1, <2>2, <3>1 DEF SyncReport
    <3>3. waiting' \in [Packages -> Threads \cup {None}] /\ cached' \subseteq Packages
      BY <2>2 DEF SyncReport, Cache, TypeOK
    <3> QED BY <2>2, <3>2, <3>3 DEF SyncReport, TypeOK, database, outcome
  <2>3. CASE ActivationReport(t, p)
    <3>1. RestOK' /\ req' \in [Threads -> Request]
      BY <1>r, <2>1, <2>3, ReportedStates, RestUnchanged DEF ActivationReport
    <3> QED BY <3>1 DEF TypeOK, RestOK
  <2>4. CASE PostEvent(t, p)
    <3>1. PICK a \in States : Report(t, p, a) /\ UNCHANGED <<database, agent, outcome>>
      BY <2>4, PostedAssumption, PostableReported DEF PostEvent
    <3>2. RestOK' /\ req' \in [Threads -> Request]
      BY <1>r, <2>1, <3>1, RestUnchanged
    <3> QED BY <3>2 DEF TypeOK, RestOK
  <2> QED BY <1>5, <2>2, <2>3, <2>4
<1>6. ASSUME NEW t \in Threads, NEW c \in Certs, RevokeRequest(t, c) PROVE TypeOK'
  <2>1. [Idle EXCEPT !.at = "list", !.op = "revoke", !.cert = c,
                     !.already = (certStatus[c] = "revoked")] \in Request
    BY DEF Idle, Request, Steps, States, Order
  <2> QED BY <1>6, <2>1, LocalStep DEF RevokeRequest
<1>7. ASSUME NEW t \in Threads, LookupRequest(t) PROVE TypeOK'
  <2>1. [Idle EXCEPT !.at = "activated", !.op = "lookup", !.before = revokedOk]
          \in Request
    BY DEF Idle, Request, Steps, States, Order, TypeOK
  <2> QED BY <1>7, <2>1, LocalStep DEF LookupRequest
<1>8. ASSUME NEW t \in Threads, Handle(t) PROVE TypeOK'
  <2>r. req[t] \in Request
    BY <1>t
  <2>1. CASE Select(t)
    <3>1. state[req[t].package] \in States \cup {"absent"}
      BY <2>1 DEF Select, WriteType, TypeOK
    <3>2. [req[t] EXCEPT !.at = "update", !.seen = state[req[t].package]] \in Request
      BY <2>r, <3>1 DEF Request, Steps
    <3> QED BY <2>1, <3>2, LocalStep DEF Select
  <2>2. CASE UpdateReport(t)
    <3>1. /\ req[t].package \in Packages /\ req[t].seen \in States \cup {"absent"}
          /\ req[t].requested \in States
      BY <2>2, <2>r DEF UpdateReport, WriteType, Request
    <3>2. /\ next' \in [Packages -> 1 .. Len(SyncReports)]
          /\ waiting' \in [Packages -> Threads \cup {None}]
      BY <2>2, <3>1 DEF UpdateReport, Advance, TypeOK, SyncReports
    <3>3. req' \in [Threads -> Request]
      BY <2>2, <1>r, IdleType, BecomesType DEF UpdateReport
    <3>4. /\ state' \in [Packages -> States \cup {"absent"}]
          /\ status' \in [Packages -> {"active", "revoked"}]
          /\ events' \in [Packages -> SUBSET States]
      BY <2>2, <3>1, WriteTypes DEF UpdateReport
    <3> QED BY <2>2, <3>2, <3>3, <3>4 DEF UpdateReport, TypeOK, outcome
  <2>3. CASE UpdateRevoked(t)
    <3>1. req[t].package \in Packages /\ req[t].seen \in States \cup {"absent"}
      BY <2>3, <2>r DEF UpdateRevoked, WriteType, Request
    <3>2. [req[t] EXCEPT !.at = "visit", !.seen = "absent", !.package = None] \in Request
      BY <2>r DEF Request, Steps
    <3>3. req' \in [Threads -> Request]
      BY <2>3, <1>r, <3>2, BecomesType DEF UpdateRevoked
    <3>4. /\ state' \in [Packages -> States \cup {"absent"}]
          /\ status' \in [Packages -> {"active", "revoked"}]
          /\ events' \in [Packages -> SUBSET States]
      BY <2>3, <3>1, WriteTypes, ReportedStates DEF UpdateRevoked
    <3> QED BY <2>3, <3>3, <3>4 DEF UpdateRevoked, TypeOK, agent, outcome
  <2>4. CASE RevokeList(t)
    <3> DEFINE packages == {p \in Stored : CertOf[p] = req[t].cert}
    <3>1. packages \subseteq Packages
      BY DEF Stored
    <3> HIDE DEF packages
    <3>2. [req[t] EXCEPT !.at = "vault", !.found = packages, !.left = packages]
            \in Request
      BY <2>r, <3>1 DEF Request, Steps
    <3> QED BY <2>4, <3>2, LocalStep DEF RevokeList, packages
  <2>5. CASE RevokeInVault(t)
    <3>1. [req[t] EXCEPT !.at = "mark"] \in Request
      BY <2>r DEF Request, Steps
    <3> QED BY <2>5, <3>1, IdleType, LocalStep DEF RevokeInVault
  <2>6. CASE RevokeMark(t)
    <3>1. [req[t] EXCEPT !.at = "visit", !.already = FALSE] \in Request
      BY <2>r DEF Request, Steps
    <3>2. req' \in [Threads -> Request]
      BY <2>6, <1>r, <3>1, BecomesType DEF RevokeMark
    <3> QED BY <2>6, <3>2 DEF RevokeMark, TypeOK, agent, outcome
  <2>7. CASE RevokeVisit(t)
    <3>1. PICK p \in Newest(req[t].left) :
            Becomes(t, [req[t] EXCEPT !.at = "select", !.package = p,
                                      !.left = @ \ {p}])
      BY <2>7 DEF RevokeVisit
    <3>2. [req[t] EXCEPT !.at = "select", !.package = p, !.left = @ \ {p}] \in Request
      BY <2>r DEF Newest, Request, Steps
    <3> QED BY <2>7, <3>1, <3>2, LocalStep DEF RevokeVisit
  <2>8. CASE RevokeAnswer(t)
    <3>1. /\ revokedOk' \subseteq Certs
          /\ covered' \subseteq Packages
      BY <2>8, <2>r DEF RevokeAnswer, TypeOK, WriteType, Request, outcome
    <3>2. req' \in [Threads -> Request]
      BY <2>8, <1>r, IdleType, BecomesType DEF RevokeAnswer
    <3> QED BY <2>8, <3>1, <3>2 DEF RevokeAnswer, TypeOK, database, agent
  <2>9. CASE LookupActivated(t)
    <3> DEFINE inUse == {p \in Stored : state[p] = "ACTIVATED" /\ status[p] = "active"}
    <3>1. inUse \subseteq Packages
      BY DEF Stored
    <3> HIDE DEF inUse
    <3>2. [req[t] EXCEPT !.at = "check", !.left = inUse] \in Request
      BY <2>r, <3>1 DEF Request, Steps
    <3> QED BY <2>9, <3>2, LocalStep DEF LookupActivated, inUse
  <2>10. CASE LookupCheck(t)
    <3>1. PICK p \in Newest(req[t].left) :
            Becomes(t, IF Presentable(CertOf[p])
                         THEN [req[t] EXCEPT !.at = "answered", !.cert = CertOf[p],
                                             !.left = {}]
                         ELSE [req[t] EXCEPT !.left = @ \ {p}])
      BY <2>10 DEF LookupCheck
    <3>2. CertOf[p] \in Certs
      BY <2>r DEF Newest, Request
    <3>3. /\ [req[t] EXCEPT !.at = "answered", !.cert = CertOf[p], !.left = {}] \in Request
          /\ [req[t] EXCEPT !.left = @ \ {p}] \in Request
      BY <2>r, <3>2 DEF Request, Steps
    <3> QED BY <2>10, <3>1, <3>3, LocalStep DEF LookupCheck
  <2>11. CASE LookupFallback(t)
    <3>1. PICK c \in Certs \cup {None} :
            Becomes(t, [req[t] EXCEPT !.at = "answered", !.cert = c])
      BY <2>11 DEF LookupFallback, Newest
    <3>2. [req[t] EXCEPT !.at = "answered", !.cert = c] \in Request
      BY <2>r DEF Request, Steps
    <3> QED BY <2>11, <3>1, <3>2, LocalStep DEF LookupFallback
  <2>12. CASE LookupAnswer(t)
    BY <2>12, IdleType, LocalStep DEF LookupAnswer
  <2> QED
    BY <1>8, <2>1, <2>2, <2>3, <2>4, <2>5, <2>6, <2>7, <2>8, <2>9, <2>10, <2>11, <2>12
       DEF Handle
<1>9. CASE Restart
  BY <1>9, IdleType DEF Restart, TypeOK, database, outcome
<1> QED
  BY <1>1, <1>2, <1>3, <1>4, <1>5, <1>6, <1>7, <1>8, <1>9 DEF Next

-------------------------------------------------------------------------------
(***************************************************************************)
(* What no step takes back.                                                *)
(***************************************************************************)
Mono ==
  /\ Stored \subseteq Stored'
  /\ \A p \in Packages : /\ events[p] \subseteq events'[p]
                         /\ status[p] = "revoked" => status'[p] = "revoked"
  /\ \A c \in Certs : certStatus[c] = "revoked" => certStatus'[c] = "revoked"
  /\ revokedOk \subseteq revokedOk'

LEMMA MonoUnchanged == UNCHANGED <<database, outcome>> => Mono
BY DEF Mono, Stored, database, outcome

\* An update never loses an event or the mark of a revoked package, and puts
\* the package in a state its history explains.
LEMMA MonoWrite ==
  ASSUME TypeOK, HistoryInv, NEW p \in Stored, NEW s \in events[p] \cup {"PACKAGED"},
         NEW a \in Reported, Write(p, s, a), UNCHANGED certStatus, UNCHANGED revokedOk
  PROVE  /\ Mono
         /\ HistoryInv'
         /\ state'[p] \in events'[p] \cup {"PACKAGED"}
         /\ a = "REVOKED" => status'[p] = "revoked" \/ "EXPIRED" \in events[p]
         /\ \A q \in Packages \ {p} : state'[q] = state[q] /\ status'[q] = status[q]
         /\ Stored' = Stored
<1>1. p \in Packages /\ events[p] \subseteq Reported
  BY DEF Stored, HistoryInv
<1>2. Target(s, a) \in {s, a}
  BY DEF Target
<1>3. s \in Reported \cup {"PACKAGED"}
  BY <1>1
<1>4. a = "REVOKED" /\ s # "EXPIRED" => Target(s, a) = "REVOKED"
  <2> SUFFICES ASSUME a = "REVOKED", s # "EXPIRED" PROVE Target(s, a) = a
    OBVIOUS
  <2> QED BY <1>3 DEF Target, Order, Reported
<1>5. /\ state'[p] = Target(s, a)
      /\ status'[p] = StatusAfter(status[p], Target(s, a))
      /\ events'[p] = events[p] \cup {a}
      /\ \A q \in Packages \ {p} : /\ state'[q] = state[q] /\ status'[q] = status[q]
                                   /\ events'[q] = events[q]
  BY <1>1 DEF Write, TypeOK
<1>6. state'[p] \in events'[p] \cup {"PACKAGED"}
  BY <1>2, <1>5
<1>7. state'[p] # "absent"
  BY <1>2, <1>3, <1>5 DEF Reported
<1>8. Stored' = Stored
  BY <1>5, <1>7 DEF Stored
<1>9. Mono
  BY <1>5, <1>8 DEF Mono, StatusAfter
<1>10. HistoryInv'
  BY <1>5 DEF HistoryInv
<1>11. a = "REVOKED" => status'[p] = "revoked" \/ "EXPIRED" \in events[p]
  BY <1>1, <1>4, <1>5 DEF StatusAfter
<1> QED
  BY <1>5, <1>6, <1>8, <1>9, <1>10, <1>11

\* What a request has established stays established.
LEMMA Frame ==
  ASSUME Mono, NEW r \in Request, RequestInv(r)
  PROVE  RequestInv(r)'
<1>1. WriterInv(r)'
  BY DEF Mono, RequestInv, WriterInv, Stored
<1>2. RevokerInv(r)'
  <2>1. \A p \in Stored : p \in Packages
    BY DEF Stored
  <2> QED BY <2>1 DEF Mono, RequestInv, RevokerInv
<1>3. LookupInv(r)'
  BY DEF Mono, RequestInv, LookupInv
<1> QED BY <1>1, <1>2, <1>3 DEF RequestInv

\* One request changes, the others keep what they had.
LEMMA OneRequest ==
  ASSUME TypeOK, RequestsInv, Mono, NEW t \in Threads, NEW n \in Request,
         req' = [req EXCEPT ![t] = n], RequestInv(n)'
  PROVE  RequestsInv'
<1> SUFFICES ASSUME NEW u \in Threads PROVE RequestInv(req[u])'
  BY DEF RequestsInv
<1>1. CASE u = t
  <2>1. req'[u] = n
    BY <1>1 DEF TypeOK
  <2> QED BY <2>1 DEF RequestInv, WriterInv, RevokerInv, LookupInv
<1>2. CASE u # t
  <2>1. PICK r \in Request : r = req[u]
    BY DEF TypeOK
  <2>2. req'[u] = r
    BY <1>2, <2>1 DEF TypeOK
  <2>3. RequestInv(r)'
    BY <2>1, Frame DEF RequestsInv
  <2> QED BY <2>2, <2>3 DEF RequestInv, WriterInv, RevokerInv, LookupInv
<1> QED BY <1>1, <1>2

LEMMA RequestsFrame == TypeOK /\ RequestsInv /\ Mono /\ req' = req => RequestsInv'
<1> SUFFICES ASSUME TypeOK, RequestsInv, Mono, req' = req, NEW u \in Threads
             PROVE  RequestInv(req[u])'
  BY DEF RequestsInv
<1>1. PICK r \in Request : r = req[u]
  BY DEF TypeOK
<1>2. RequestInv(r)'
  BY <1>1, Frame DEF RequestsInv
<1> QED BY <1>1, <1>2 DEF RequestInv, WriterInv, RevokerInv, LookupInv

LEMMA IdleInv == RequestInv(Idle)'
BY DEF RequestInv, WriterInv, RevokerInv, LookupInv, Idle, Reported

\* A step that leaves the database and the outcome alone keeps the invariants
\* of the database.
DataInv ==
  /\ HistoryExplainsState
  /\ RevocationSticks
  /\ covered \subseteq Stored
  /\ HistoryInv
  /\ AnsweredInv

LEMMA DataFrame == DataInv /\ UNCHANGED <<database, outcome>> => DataInv'
BY DEF DataInv, HistoryExplainsState, RevocationSticks, HistoryInv, AnsweredInv,
       Stored, database, outcome

\* A local step of thread t, whose request becomes n.
LEMMA LocalInv ==
  ASSUME TypeOK, IInv, NEW t \in Threads, NEW n \in Request, Becomes(t, n),
         UNCHANGED <<database, outcome>>, RequestInv(n)'
  PROVE  IInv'
<1>1. RequestsInv'
  BY OneRequest, MonoUnchanged DEF IInv, Becomes
<1>2. DataInv'
  BY DataFrame DEF IInv, DataInv
<1> QED BY <1>1, <1>2 DEF IInv, DataInv

-------------------------------------------------------------------------------
(***************************************************************************)
(* The inductive invariant.                                                *)
(***************************************************************************)
LEMMA InitInv == Init => TypeOK /\ IInv
<1> SUFFICES ASSUME Init PROVE TypeOK /\ IInv
  OBVIOUS
<1>1. TypeOK
  BY IdleType DEF Init, TypeOK, SyncReports
<1>2. DataInv
  BY DEF Init, DataInv, HistoryExplainsState, RevocationSticks, HistoryInv,
         AnsweredInv, Stored
<1>3. RequestsInv
  BY DEF Init, RequestsInv, RequestInv, WriterInv, RevokerInv, LookupInv, Idle, Reported
<1> QED
  BY <1>1, <1>2, <1>3 DEF IInv, DataInv

\* An update keeps the invariants of the database.
LEMMA DataWrite ==
  ASSUME TypeOK, DataInv, NEW p \in Stored, NEW s \in events[p] \cup {"PACKAGED"},
         NEW a \in Reported, Write(p, s, a), UNCHANGED <<certStatus, outcome>>
  PROVE  DataInv'
<1>1. /\ Mono /\ HistoryInv' /\ Stored' = Stored
      /\ state'[p] \in events'[p] \cup {"PACKAGED"}
      /\ \A q \in Packages \ {p} : state'[q] = state[q]
  BY MonoWrite DEF DataInv, outcome
<1>2. HistoryExplainsState'
  BY <1>1 DEF DataInv, HistoryExplainsState, Mono, Stored
<1>3. RevocationSticks' /\ (covered \subseteq Stored)'
  BY <1>1 DEF DataInv, RevocationSticks, Mono, outcome, TypeOK
<1>4. AnsweredInv'
  BY DEF DataInv, AnsweredInv, outcome
<1> QED
  BY <1>1, <1>2, <1>3, <1>4 DEF DataInv

LEMMA InvStep == TypeOK /\ IInv /\ [Next]_vars => IInv'
<1> SUFFICES ASSUME TypeOK, IInv, [Next]_vars PROVE IInv'
  OBVIOUS
<1>d. DataInv /\ RequestsInv
  BY DEF IInv, DataInv
<1>i. DataInv' /\ RequestsInv' => IInv'
  BY DEF IInv, DataInv
<1>1. CASE UNCHANGED vars
  BY <1>1, <1>d, <1>i, DataFrame, RequestsFrame, MonoUnchanged DEF vars
<1>2. ASSUME NEW c \in Certs, IssueCertificate(c) PROVE IInv'
  <2>1. Mono
    BY <1>2 DEF IssueCertificate, Mono, Stored, outcome, TypeOK
  <2>2. DataInv'
    BY <1>2, <1>d DEF IssueCertificate, outcome, DataInv, HistoryExplainsState,
                      RevocationSticks, HistoryInv, AnsweredInv, Stored, TypeOK
  <2> QED BY <1>2, <1>d, <1>i, <2>1, <2>2, RequestsFrame DEF IssueCertificate
<1>3. ASSUME NEW p \in Packages, StorePackage(p) PROVE IInv'
  <2>1. Mono
    BY <1>3 DEF StorePackage, Mono, Stored, outcome, TypeOK
  <2>2. DataInv'
    BY <1>3, <1>d DEF StorePackage, outcome, DataInv, HistoryExplainsState,
                      RevocationSticks, HistoryInv, AnsweredInv, Stored, TypeOK
  <2> QED BY <1>3, <1>d, <1>i, <2>1, <2>2, RequestsFrame DEF StorePackage
<1>4. ASSUME NEW p \in Packages, SyncReportFails(p) \/ CycleAborts(p) PROVE IInv'
  BY <1>4, <1>d, <1>i, DataFrame, RequestsFrame, MonoUnchanged DEF SyncReportFails, CycleAborts
<1>5. ASSUME NEW t \in Threads, NEW p \in Packages,
             SyncReport(t, p) \/ ActivationReport(t, p) \/ PostEvent(t, p)
      PROVE  IInv'
  <2>1. PICK a \in Reported : Report(t, p, a) /\ UNCHANGED <<database, outcome>>
    <3>1. CASE SyncReport(t, p) \/ ActivationReport(t, p)
      BY <3>1, SyncReportType DEF SyncReport, ActivationReport, Reported, TypeOK
    <3>2. CASE PostEvent(t, p)
      BY <3>2, PostedAssumption, PostableReported DEF PostEvent
    <3> QED BY <1>5, <3>1, <3>2
  <2>2. PICK n : n = [Idle EXCEPT !.at = "select", !.op = "report",
                                  !.package = p, !.requested = a]
    OBVIOUS
  <2>3. n \in Request
    BY <2>2 DEF Idle, Request, Steps, States, Order, Reported
  <2>4. Stored' = Stored
    BY <2>1 DEF Stored, database
  <2>5. RequestInv(n)'
    BY <2>1, <2>2, <2>4 DEF Report, Idle, RequestInv, WriterInv, RevokerInv, LookupInv
  <2> QED BY <2>1, <2>2, <2>3, <2>5, LocalInv DEF Report
<1>6. ASSUME NEW t \in Threads, NEW c \in Certs, RevokeRequest(t, c) PROVE IInv'
  <2>1. PICK b \in BOOLEAN : b = (certStatus[c] = "revoked")
    OBVIOUS
  <2>2. PICK n : n = [Idle EXCEPT !.at = "list", !.op = "revoke", !.cert = c,
                                  !.already = b]
    OBVIOUS
  <2>3. n \in Request
    BY <2>2 DEF Idle, Request, Steps, States, Order
  <2>4. RequestInv(n)'
    BY <2>2 DEF Idle, RequestInv, WriterInv, RevokerInv, LookupInv, Reported
  <2>5. Becomes(t, n) /\ UNCHANGED <<database, outcome>>
    BY <1>6, <2>1, <2>2 DEF RevokeRequest
  <2> QED BY <2>3, <2>4, <2>5, LocalInv
<1>7. ASSUME NEW t \in Threads, LookupRequest(t) PROVE IInv'
  <2>1. PICK b \in SUBSET Certs : b = revokedOk
    BY DEF TypeOK
  <2>2. PICK n : n = [Idle EXCEPT !.at = "activated", !.op = "lookup", !.before = b]
    OBVIOUS
  <2>3. n \in Request
    BY <2>2 DEF Idle, Request, Steps, States, Order
  <2>4. Becomes(t, n) /\ UNCHANGED <<database, outcome>>
    BY <1>7, <2>1, <2>2 DEF LookupRequest
  <2>5. RequestInv(n)'
    BY <2>1, <2>2, <2>4 DEF Idle, RequestInv, WriterInv, RevokerInv, LookupInv,
                            Reported, outcome
  <2> QED BY <2>3, <2>4, <2>5, LocalInv
<1>9. CASE Restart
  <2>1. Mono /\ DataInv'
    BY <1>9, <1>d, MonoUnchanged, DataFrame DEF Restart
  <2>2. RequestsInv'
    <3> SUFFICES ASSUME NEW u \in Threads PROVE RequestInv(req[u])'
      BY DEF RequestsInv
    <3>1. req'[u] = Idle
      BY <1>9 DEF Restart
    <3> QED BY <3>1 DEF RequestInv, WriterInv, RevokerInv, LookupInv, Idle, Reported
  <2> QED BY <1>i, <2>1, <2>2
<1>8. ASSUME NEW t \in Threads, Handle(t) PROVE IInv'
  <2>o. PICK o \in Request : o = req[t]
    BY DEF TypeOK
  <2>v. RequestInv(o)
    BY <2>o, <1>d DEF RequestsInv
  <2>f. UNCHANGED <<database, outcome>> => RequestInv(o)' /\ Stored' = Stored
    BY <2>v, MonoUnchanged, Frame DEF Stored, database
  <2>1. CASE Select(t)
    <3>1. o.package \in Stored /\ o.at = "select" /\ Becomes(t, [o EXCEPT !.at = "update", !.seen = state[o.package]])
          /\ UNCHANGED <<database, outcome>>
      BY <2>1, <2>o, <2>v DEF Select, RequestInv, WriterInv
    <3>2. PICK s \in States \cup {"absent"} : s = state[o.package]
      BY <3>1 DEF TypeOK, Stored
    <3>3. PICK n : n = [o EXCEPT !.at = "update", !.seen = s]
      OBVIOUS
    <3>4. n \in Request
      BY <3>3 DEF Request, Steps
    <3>5. s \in events'[o.package] \cup {"PACKAGED"}
      BY <1>d, <3>1, <3>2 DEF DataInv, HistoryExplainsState, database
    <3>6. RequestInv(n)'
      BY <2>f, <3>1, <3>3, <3>5 DEF RequestInv, WriterInv, RevokerInv, LookupInv, Request
    <3> QED BY <3>1, <3>2, <3>3, <3>4, <3>6, LocalInv
  <2>2. CASE UpdateReport(t)
    <3>1. /\ o.package \in Stored /\ o.seen \in events[o.package] \cup {"PACKAGED"}
          /\ o.requested \in Reported
          /\ Write(o.package, o.seen, o.requested) /\ UNCHANGED <<certStatus, outcome>>
      BY <2>2, <2>o, <2>v DEF UpdateReport, RequestInv, WriterInv
    <3>2. Mono /\ DataInv'
      BY <1>d, <3>1, MonoWrite, DataWrite DEF DataInv, outcome
    <3>3. req' = [req EXCEPT ![t] = Idle]
      BY <2>2 DEF UpdateReport, Becomes
    <3> QED BY <1>d, <1>i, <3>2, <3>3, IdleType, IdleInv, OneRequest
  <2>3. CASE UpdateRevoked(t)
    <3>1. /\ o.package \in Stored /\ o.seen \in events[o.package] \cup {"PACKAGED"}
          /\ o.at = "update" /\ o.op = "revoke"
          /\ Write(o.package, o.seen, "REVOKED") /\ UNCHANGED <<certStatus, outcome>>
      BY <2>3, <2>o, <2>v DEF UpdateRevoked, RequestInv, WriterInv
    <3>2. /\ Mono /\ DataInv'
          /\ status'[o.package] = "revoked" \/ "EXPIRED" \in events'[o.package]
      BY <1>d, <3>1, MonoWrite, DataWrite DEF DataInv, outcome, Reported, Mono, Stored
    <3>3. PICK n : n = [o EXCEPT !.at = "visit", !.seen = "absent", !.package = None]
      OBVIOUS
    <3>4. n \in Request
      BY <3>3 DEF Request, Steps
    <3>5. RequestInv(o)'
      BY <2>v, <3>2, Frame
    <3>6. RequestInv(n)'
      BY <3>1, <3>2, <3>3, <3>5 DEF RequestInv, WriterInv, RevokerInv, LookupInv, Request
    <3>7. req' = [req EXCEPT ![t] = n]
      BY <2>3, <2>o, <3>3 DEF UpdateRevoked, Becomes
    <3> QED BY <1>d, <1>i, <3>2, <3>4, <3>6, <3>7, OneRequest
  <2>4. CASE RevokeList(t)
    <3>1. PICK P \in SUBSET Packages : P = {p \in Stored : CertOf[p] = req[t].cert}
      BY DEF Stored
    <3>2. PICK n : n = [o EXCEPT !.at = "vault", !.found = P, !.left = P]
      OBVIOUS
    <3>3. n \in Request
      BY <3>2 DEF Request, Steps
    <3>4. Becomes(t, n) /\ UNCHANGED <<database, outcome>> /\ o.at = "list"
      BY <2>4, <2>o, <3>1, <3>2 DEF RevokeList
    <3>5. P \subseteq Stored'
      BY <2>f, <3>1, <3>4
    <3>6. RequestInv(n)'
      BY <2>f, <3>2, <3>4, <3>5 DEF RequestInv, WriterInv, RevokerInv, LookupInv, Request
    <3> QED BY <3>3, <3>4, <3>6, LocalInv
  <2>5. CASE RevokeInVault(t)
    <3>1. CASE Becomes(t, [req[t] EXCEPT !.at = "mark"])
      <4>1. PICK n : n = [o EXCEPT !.at = "mark"]
        OBVIOUS
      <4>2. n \in Request
        BY <4>1 DEF Request, Steps
      <4>3. Becomes(t, n) /\ UNCHANGED <<database, outcome>> /\ o.at = "vault"
        BY <2>5, <2>o, <3>1, <4>1 DEF RevokeInVault
      <4>4. RequestInv(n)'
        BY <2>f, <4>1, <4>3 DEF RequestInv, WriterInv, RevokerInv, LookupInv, Request
      <4> QED BY <4>2, <4>3, <4>4, LocalInv
    <3>2. CASE Becomes(t, Idle)
      BY <2>5, <3>2, IdleType, IdleInv, LocalInv DEF RevokeInVault
    <3> QED BY <2>5, <3>1, <3>2 DEF RevokeInVault
  <2>6. CASE RevokeMark(t)
    <3>1. /\ o.at = "mark" /\ o.cert \in Certs
          /\ certStatus' = [certStatus EXCEPT ![o.cert] = "revoked"]
          /\ UNCHANGED <<state, status, events, outcome>>
      BY <2>6, <2>o, <2>v DEF RevokeMark, RequestInv, RevokerInv
    <3>2. Mono
      BY <3>1 DEF Mono, Stored, outcome, TypeOK
    <3>3. DataInv'
      BY <1>d, <3>1 DEF DataInv, HistoryExplainsState, RevocationSticks, HistoryInv,
                        AnsweredInv, Stored, TypeOK, outcome
    <3>4. PICK n : n = [o EXCEPT !.at = "visit", !.already = FALSE]
      OBVIOUS
    <3>5. n \in Request
      BY <3>4 DEF Request, Steps
    <3>6. RequestInv(o)' /\ certStatus'[o.cert] = "revoked"
      BY <2>v, <3>1, <3>2, Frame DEF TypeOK
    <3>7. RequestInv(n)'
      BY <3>1, <3>4, <3>6 DEF RequestInv, WriterInv, RevokerInv, LookupInv, Request
    <3>8. req' = [req EXCEPT ![t] = n]
      BY <2>6, <2>o, <3>4 DEF RevokeMark, Becomes
    <3> QED BY <1>d, <1>i, <3>2, <3>3, <3>5, <3>7, <3>8, OneRequest
  <2>7. CASE RevokeVisit(t)
    <3>1. PICK p \in Newest(o.left) :
            Becomes(t, [o EXCEPT !.at = "select", !.package = p, !.left = @ \ {p}])
      BY <2>7, <2>o DEF RevokeVisit
    <3>2. PICK n : n = [o EXCEPT !.at = "select", !.package = p, !.left = @ \ {p}]
      OBVIOUS
    <3>3. p \in o.left /\ o.at = "visit" /\ UNCHANGED <<database, outcome>>
      BY <2>7, <2>o, <3>1 DEF RevokeVisit, Newest
    <3>4. n \in Request
      BY <3>2, <3>3 DEF Request, Steps
    <3>5. RequestInv(n)'
      BY <2>f, <3>2, <3>3 DEF RequestInv, WriterInv, RevokerInv, LookupInv, Request
    <3> QED BY <3>1, <3>2, <3>3, <3>4, <3>5, LocalInv
  <2>8. CASE RevokeAnswer(t)
    <3>1. /\ o.at = "visit" /\ o.left = {} /\ o.op = "revoke"
          /\ certStatus[o.cert] = "revoked" /\ o.cert \in Certs
          /\ \A p \in o.found : status[p] = "revoked" \/ "EXPIRED" \in events[p]
          /\ o.found \subseteq Stored
      BY <2>8, <2>o, <2>v DEF RevokeAnswer, RequestInv, RevokerInv
    <3>2. /\ UNCHANGED database
          /\ \/ /\ revokedOk' = revokedOk \cup {o.cert}
                /\ covered' = covered \cup {p \in o.found : "EXPIRED" \notin events[p]}
             \/ UNCHANGED outcome
      BY <2>8, <2>o DEF RevokeAnswer
    <3>3. Mono
      BY <3>2 DEF Mono, Stored, database, outcome
    <3>4. DataInv'
      BY <1>d, <3>1, <3>2 DEF DataInv, HistoryExplainsState, RevocationSticks, HistoryInv,
                        AnsweredInv, Stored, database, outcome
    <3>5. req' = [req EXCEPT ![t] = Idle]
      BY <2>8 DEF RevokeAnswer, Becomes
    <3> QED BY <1>d, <1>i, <3>3, <3>4, <3>5, IdleType, IdleInv, OneRequest
  <2>9. CASE LookupActivated(t)
    <3>1. PICK P \in SUBSET Packages :
            P = {p \in Stored : state[p] = "ACTIVATED" /\ status[p] = "active"}
      BY DEF Stored
    <3>2. PICK n : n = [o EXCEPT !.at = "check", !.left = P]
      OBVIOUS
    <3>3. n \in Request
      BY <3>2 DEF Request, Steps
    <3>4. Becomes(t, n) /\ UNCHANGED <<database, outcome>> /\ o.at = "activated"
      BY <2>9, <2>o, <3>1, <3>2 DEF LookupActivated
    <3>5. RequestInv(n)'
      BY <2>f, <3>2, <3>4 DEF RequestInv, WriterInv, RevokerInv, LookupInv, Request
    <3> QED BY <3>3, <3>4, <3>5, LocalInv
  <2>10. CASE LookupCheck(t)
    <3>1. PICK p \in Newest(o.left) :
            Becomes(t, IF Presentable(CertOf[p])
                         THEN [o EXCEPT !.at = "answered", !.cert = CertOf[p], !.left = {}]
                         ELSE [o EXCEPT !.left = @ \ {p}])
      BY <2>10, <2>o DEF LookupCheck
    <3>2. /\ p \in Packages /\ o.at = "check" /\ o.op = "lookup"
          /\ UNCHANGED <<database, outcome>> /\ CertOf[p] \in Certs
      BY <2>10, <2>o, <2>v, <3>1, LifecycleAssumption
         DEF LookupCheck, Newest, Request, RequestInv, LookupInv
    <3>3. CASE Presentable(CertOf[p])
      <4>1. PICK n : n = [o EXCEPT !.at = "answered", !.cert = CertOf[p], !.left = {}]
        OBVIOUS
      <4>2. n \in Request
        BY <3>2, <4>1 DEF Request, Steps
      <4>3. CertOf[p] \notin revokedOk
        BY <1>d, <3>3 DEF Presentable, DataInv, AnsweredInv
      <4>4. RequestInv(n)'
        BY <2>f, <2>v, <3>2, <4>1, <4>3 DEF RequestInv, WriterInv, RevokerInv, LookupInv, Request
      <4> QED BY <3>1, <3>2, <3>3, <4>1, <4>2, <4>4, LocalInv
    <3>4. CASE ~ Presentable(CertOf[p])
      <4>1. PICK n : n = [o EXCEPT !.left = @ \ {p}]
        OBVIOUS
      <4>2. n \in Request
        BY <4>1 DEF Request, Steps
      <4>3. RequestInv(n)'
        BY <2>f, <3>2, <4>1 DEF RequestInv, WriterInv, RevokerInv, LookupInv, Request
      <4> QED BY <3>1, <3>2, <3>4, <4>1, <4>2, <4>3, LocalInv
    <3> QED BY <3>3, <3>4
  <2>11. CASE LookupFallback(t)
    <3>1. PICK c \in Certs \cup {None} :
            /\ c = None \/ certStatus[c] = "active"
            /\ Becomes(t, [o EXCEPT !.at = "answered", !.cert = c])
      BY <2>11, <2>o DEF LookupFallback, Newest
    <3>2. PICK n : n = [o EXCEPT !.at = "answered", !.cert = c]
      OBVIOUS
    <3>3. n \in Request
      BY <3>2 DEF Request, Steps
    <3>4. o.at = "check" /\ o.op = "lookup" /\ UNCHANGED <<database, outcome>>
      BY <2>11, <2>o, <2>v DEF LookupFallback, RequestInv, LookupInv
    <3>5. c \notin revokedOk
      BY <1>d, <3>1, LifecycleAssumption DEF DataInv, AnsweredInv, TypeOK
    <3>6. RequestInv(n)'
      BY <2>f, <2>v, <3>2, <3>4, <3>5 DEF RequestInv, WriterInv, RevokerInv, LookupInv, Request
    <3> QED BY <3>1, <3>2, <3>3, <3>4, <3>6, LocalInv
  <2>12. CASE LookupAnswer(t)
    BY <2>12, IdleType, IdleInv, LocalInv DEF LookupAnswer
  <2> QED
    BY <1>8, <2>1, <2>2, <2>3, <2>4, <2>5, <2>6, <2>7, <2>8, <2>9, <2>10, <2>11, <2>12
       DEF Handle
<1> QED
  BY <1>1, <1>2, <1>3, <1>4, <1>5, <1>6, <1>7, <1>8, <1>9 DEF Next

-------------------------------------------------------------------------------
(***************************************************************************)
(* The theorems.                                                           *)
(***************************************************************************)
\* Every reachable state is well typed and satisfies the inductive invariant:
\* whatever packages, certificates and request threads there are.
THEOREM Invariance == Spec => [](TypeOK /\ IInv)
<1>1. TypeOK /\ IInv /\ [Next]_vars => (TypeOK /\ IInv)'
  BY TypeStep, InvStep, RequestsWriteType DEF IInv
<1> QED
  BY <1>1, InitInv, PTL DEF Spec

\* The database and the requests keep their types.
THEOREM TypeCorrect == Spec => []TypeOK
BY Invariance, PTL

\* Whatever order the lifecycle updates commit in, package_events explains the
\* package's state.
THEOREM HistoryExplained == Spec => []HistoryExplainsState
<1>1. IInv => HistoryExplainsState
  BY DEF IInv
<1> QED BY <1>1, Invariance, PTL

\* A package that a successful revocation found, and that had not been reported
\* EXPIRED by then, stays marked revoked, whatever states clients post.
THEOREM RevocationStays == Spec => []RevocationSticks
<1>1. IInv => RevocationSticks
  BY DEF IInv
<1> QED BY <1>1, Invariance, PTL

\* No lookup answers with a certificate whose revocation was answered before
\* the lookup began.
THEOREM LookupHonours == Spec => []LookupHonoursRevocation
<1>1. IInv => LookupHonoursRevocation
  BY DEF IInv, RequestsInv, RequestInv, LookupInv, LookupHonoursRevocation
<1> QED BY <1>1, Invariance, PTL

\* A write that was not overtaken keeps the order of the states.
LEMMA WriteOrder ==
  ASSUME TypeOK, NEW p \in Stored, NEW s, NEW a \in Reported, Write(p, s, a),
         s \in States, state[p] \in States
  PROVE  \A q \in Stored :
           Order[state'[q]] < Order[state[q]] => q = p /\ s # state[p]
<1> SUFFICES ASSUME NEW q \in Stored, Order[state'[q]] < Order[state[q]]
             PROVE  q = p /\ s # state[p]
  OBVIOUS
<1>1. \A x \in States : Order[x] \in Nat
  BY DEF States, Order
<1>2. q \in Packages /\ p \in Packages
  BY DEF Stored
<1>3. CASE q # p
  <2>1. state'[q] = state[q]
    BY <1>2, <1>3 DEF Write, TypeOK
  <2>2. state[q] \in States
    BY DEF TypeOK, Stored
  <2> QED BY <1>1, <2>1, <2>2
<1>4. CASE q = p /\ s = state[p]
  <2>1. state'[p] = Target(s, a)
    BY <1>2 DEF Write, TypeOK
  <2>2. a \in States
    BY PostableReported
  <2>3. Order[s] \in Nat /\ Order[a] \in Nat
    BY <1>1, <2>2
  <2>4. ~ (Order[Target(s, a)] < Order[s])
    BY <2>3 DEF Target
  <2> QED BY <1>4, <2>1, <2>4
<1> QED BY <1>3, <1>4

LEMMA OvertakenStep ==
  ASSUME TypeOK, IInv, [Next]_vars, NEW p \in Stored,
         Order[state'[p]] < Order[state[p]]
  PROVE  \E t \in Threads : /\ req[t].at = "update" /\ req'[t].at # "update"
                            /\ req[t].package = p
                            /\ req[t].seen # state[p]
<1>1. state' # state
  <2>1. Order[state[p]] \in Nat
    BY DEF TypeOK, Stored, States, Order
  <2> QED BY <2>1
<1>2. ASSUME NEW q \in Packages, StorePackage(q) PROVE FALSE
  <2>1. state'[p] = state[p]
    BY <1>2 DEF StorePackage, TypeOK, Stored
  <2>2. Order[state[p]] \in Nat
    BY DEF TypeOK, Stored, States, Order
  <2> QED BY <2>1, <2>2
<1>3. PICK t \in Threads : UpdateReport(t) \/ UpdateRevoked(t)
  <2>1. PICK t \in Threads : Handle(t)
    BY <1>1, <1>2 DEF Next, vars, database, IssueCertificate, SyncReportFails,
       CycleAborts,
       SyncReport, ActivationReport, PostEvent, RevokeRequest, LookupRequest, Restart
  <2>2. UpdateReport(t) \/ UpdateRevoked(t)
    BY <1>1, <2>1 DEF Handle, database, Select, RevokeList, RevokeInVault, RevokeMark,
       RevokeVisit, RevokeAnswer, LookupActivated, LookupCheck, LookupFallback,
       LookupAnswer
  <2> QED BY <2>2
<1>4. /\ req[t].at = "update" /\ req[t].package \in Stored
      /\ req[t].seen \in events[req[t].package] \cup {"PACKAGED"}
      /\ req[t].requested \in Reported
  BY <1>3 DEF UpdateReport, UpdateRevoked, IInv, RequestsInv, RequestInv, WriterInv
<1>5. PICK a \in Reported : Write(req[t].package, req[t].seen, a)
  BY <1>3, <1>4 DEF UpdateReport, UpdateRevoked, Reported
<1>6. req[t].seen \in States /\ state[req[t].package] \in States
  BY <1>4, ReportedStates DEF TypeOK, Stored
<1>7. req[t].package = p /\ req[t].seen # state[p]
  BY <1>4, <1>5, <1>6, WriteOrder
<1>8. req'[t].at # "update"
  <2>1. CASE UpdateReport(t)
    <3>1. req'[t] = Idle
      BY <2>1 DEF UpdateReport, Becomes, TypeOK
    <3> QED BY <3>1 DEF Idle
  <2>2. CASE UpdateRevoked(t)
    <3>1. req'[t] = [req[t] EXCEPT !.at = "visit", !.seen = "absent", !.package = None]
      BY <2>2 DEF UpdateRevoked, Becomes, TypeOK
    <3>2. req[t] \in Request
      BY DEF TypeOK
    <3> QED BY <3>1, <3>2 DEF Request
  <2> QED BY <1>3, <2>1, <2>2
<1> QED BY <1>4, <1>7, <1>8

\* A package moves backwards only when the request that writes was overtaken
\* since its SELECT: with a locking read the documented order would hold.
THEOREM RegressionNeedsOvertaking == Spec => OnlyOvertakenWritesRegress
<1>1. TypeOK /\ IInv /\ [Next]_vars =>
        [\A p \in Stored :
           Order[state'[p]] < Order[state[p]] =>
             \E t \in Threads : /\ req[t].at = "update" /\ req'[t].at # "update"
                                /\ req[t].package = p
                                /\ req[t].seen # state[p]]_vars
  BY OvertakenStep
<1> QED
  BY <1>1, Invariance, PTL DEF Spec, OnlyOvertakenWritesRegress
===============================================================================
