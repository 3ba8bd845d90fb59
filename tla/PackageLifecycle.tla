--------------------------- MODULE PackageLifecycle ---------------------------
(***************************************************************************)
(* The lifecycle of a certificate package in the GDS database: the OT      *)
(* agent's sync loop reports PULLED, VERIFIED and STAGED in every cycle,   *)
(* its activation command reports ACTIVATED, any authorised client may     *)
(* post a later state such as EXPIRED, a revocation writes REVOKED, and    *)
(* component lookups resolve the certificate in use from the packages.     *)
(*                                                                         *)
(* The lifecycle update is one transaction at READ COMMITTED: a SELECT     *)
(* without FOR UPDATE, then an UPDATE of the value computed from it and    *)
(* the event row, then the commit.  Another request's update may commit    *)
(* between the SELECT and the UPDATE.                                      *)
(***************************************************************************)
EXTENDS Naturals, FiniteSets, Sequences

CONSTANTS
  Packages,  \* rows of certificate_packages of one application, by generation
  Certs,     \* its certificates, numbered in order of creation
  CertOf,    \* certificate_packages.certificate_id
  Configured,\* the package ids in the agent's configuration
  Posted,    \* the states other authorised clients post to the event endpoint
  Threads,   \* request threads of the API
  None

ASSUME LifecycleAssumption ==
  /\ Certs \subseteq Nat
  /\ Packages \subseteq Nat
  /\ CertOf \in [Packages -> Certs]
  /\ Configured \subseteq Packages
  /\ None \notin Certs \cup Packages \cup Threads

\* The order of the lifecycle states: EXPIRED comes after REVOKED.
Order == [ISSUED |-> 10, PACKAGED |-> 20, PULLED |-> 30, VERIFIED |-> 40,
          STAGED |-> 50, APPROVED |-> 60, ACTIVATED |-> 70,
          ROLLED_BACK |-> 80, REVOKED |-> 90, EXPIRED |-> 100]

States == DOMAIN Order

\* The states the event endpoint's body admits.
Postable == States \ {"ISSUED", "PACKAGED"}

ASSUME PostedAssumption == Posted \subseteq Postable

\* The reports of one sync cycle, in the order the agent sends them.
SyncReports == <<"PULLED", "VERIFIED", "STAGED">>

VARIABLES
  \* the database
  certStatus,  \* certificates.status
  state,       \* certificate_packages.lifecycle_state, "absent" before the insert
  status,      \* certificate_packages.status
  events,      \* the lifecycle events of the package in package_events
  \* request threads: the step each is at and its local variables
  req,
  \* the agent
  next,        \* the next report of the package's sync cycle
  waiting,     \* the request the sync loop is waiting for
  cached,      \* the packages in the agent's cache
  \* accounting
  revokedOk,   \* certificates whose revocation was answered with 200
  covered      \* the packages those revocations had found, but for the expired

database == <<certStatus, state, status, events>>
agent    == <<next, waiting, cached>>
outcome  == <<revokedOk, covered>>
vars     == <<database, req, agent, outcome>>

Steps == {"idle", "select", "update", "list", "vault", "mark", "visit",
          "activated", "check", "answered"}

Request ==
  [at        : Steps,
   op        : {"none", "report", "revoke", "lookup"},
   package   : Packages \cup {None},  \* the package to write
   requested : States,                \* the lifecycle state asked for
   seen      : States \cup {"absent"},\* the state its SELECT returned
   cert      : Certs \cup {None},     \* to revoke, or the answer of a lookup
   already   : BOOLEAN,               \* the certificate was read as revoked
   found     : SUBSET Packages,       \* the packages the request has listed
   left      : SUBSET Packages,       \* those of them it has not visited
   before    : SUBSET Certs]          \* revocations answered before a lookup

Idle == [at |-> "idle", op |-> "none", package |-> None, requested |-> "REVOKED",
         seen |-> "absent", cert |-> None, already |-> FALSE, found |-> {},
         left |-> {}, before |-> {}]

TypeOK ==
  /\ certStatus \in [Certs -> {"absent", "active", "revoked"}]
  /\ state \in [Packages -> States \cup {"absent"}]
  /\ status \in [Packages -> {"active", "revoked"}]
  /\ events \in [Packages -> SUBSET States]
  /\ req \in [Threads -> Request]
  /\ next \in [Packages -> 1 .. Len(SyncReports)]
  /\ waiting \in [Packages -> Threads \cup {None}]
  /\ cached \subseteq Packages
  /\ revokedOk \subseteq Certs
  /\ covered \subseteq Packages

Stored == {p \in Packages : state[p] # "absent"}

Init ==
  /\ certStatus = [c \in Certs |-> "absent"]
  /\ state = [p \in Packages |-> "absent"]
  /\ status = [p \in Packages |-> "active"]
  /\ events = [p \in Packages |-> {}]
  /\ req = [t \in Threads |-> Idle]
  /\ next = [p \in Packages |-> 1]
  /\ waiting = [p \in Packages |-> None]
  /\ cached = {}
  /\ revokedOk = {}
  /\ covered = {}

\* The thread's request is now r.
Becomes(t, r) == req' = [req EXCEPT ![t] = r]

(***************************************************************************)
(* Issuance stores the certificate and, some transactions later, its       *)
(* package; ids and generations grow.                                      *)
(***************************************************************************)
IssueCertificate(c) ==
  /\ certStatus[c] = "absent"
  /\ \A d \in Certs : d < c => certStatus[d] # "absent"
  /\ certStatus' = [certStatus EXCEPT ![c] = "active"]
  /\ UNCHANGED <<state, status, events, req, agent, outcome>>

StorePackage(p) ==
  /\ p \notin Stored
  /\ \A q \in Packages : q < p => q \in Stored
  /\ certStatus[CertOf[p]] # "absent"
  /\ state' = [state EXCEPT ![p] = "PACKAGED"]
  /\ UNCHANGED <<certStatus, status, events, req, agent, outcome>>

(***************************************************************************)
(* The lifecycle update.                                                   *)
(***************************************************************************)
\* Mutant: the comparison is forgotten.
TargetUnordered(current, asked) == asked

\* The comparison with the state that was read.
Target(current, asked) ==
  IF Order[asked] < Order[current] THEN current ELSE asked

\* Mutant: the status is derived from the state written.
StatusDerived(old, written) == IF written = "REVOKED" THEN "revoked" ELSE "active"

\* A package that is marked revoked stays so.
StatusAfter(old, written) == IF written = "REVOKED" THEN "revoked" ELSE old

Select(t) ==
  /\ req[t].at = "select"
  /\ Becomes(t, [req[t] EXCEPT !.at = "update", !.seen = state[req[t].package]])
  /\ UNCHANGED <<database, agent, outcome>>

\* UPDATE, event row and commit.
Write(p, current, asked) ==
  LET written == Target(current, asked)
  IN  /\ state' = [state EXCEPT ![p] = written]
      /\ status' = [status EXCEPT ![p] = StatusAfter(@, written)]
      /\ events' = [events EXCEPT ![p] = @ \cup {asked}]

\* Mutant: the cycle does not start over.
AdvanceOnly(p) ==
  /\ waiting' = [waiting EXCEPT ![p] = None]
  /\ next' = [next EXCEPT ![p] = @ + 1]

\* The sync loop goes on with the next report, or the next cycle.
Advance(p) ==
  /\ waiting' = [waiting EXCEPT ![p] = None]
  /\ next' = [next EXCEPT ![p] = IF @ = Len(SyncReports) THEN 1 ELSE @ + 1]

\* The report is answered, to the sync loop if it still waits.
UpdateReport(t) ==
  /\ req[t].at = "update"
  /\ req[t].op = "report"
  /\ Write(req[t].package, req[t].seen, req[t].requested)
  /\ Becomes(t, Idle)
  /\ IF waiting[req[t].package] = t
       THEN Advance(req[t].package)
       ELSE UNCHANGED <<next, waiting>>
  /\ UNCHANGED <<certStatus, cached, outcome>>

UpdateRevoked(t) ==
  /\ req[t].at = "update"
  /\ req[t].op = "revoke"
  /\ Write(req[t].package, req[t].seen, "REVOKED")
  /\ Becomes(t, [req[t] EXCEPT !.at = "visit", !.seen = "absent", !.package = None])
  /\ UNCHANGED <<certStatus, agent, outcome>>

(***************************************************************************)
(* The agent.                                                              *)
(***************************************************************************)
Report(t, p, asked) ==
  /\ req[t].at = "idle"
  /\ p \in Stored
  /\ Becomes(t, [Idle EXCEPT !.at = "select", !.op = "report", !.package = p,
                             !.requested = asked])

\* The package is verified and cached before VERIFIED is reported.
Cache(p) == cached' = IF next[p] > 1 THEN cached \cup {p} ELSE cached

SyncReport(t, p) ==
  /\ p \in Configured
  /\ waiting[p] = None
  /\ Report(t, p, SyncReports[next[p]])
  /\ waiting' = [waiting EXCEPT ![p] = t]
  /\ Cache(p)
  /\ UNCHANGED <<database, next, outcome>>

\* The report is lost, or its 10 second timeout expires while the request is
\* still being handled: the loop goes on with the next one.
SyncReportFails(p) ==
  /\ p \in Configured \cap Stored
  /\ Advance(p)
  /\ Cache(p)
  /\ UNCHANGED <<database, req, outcome>>

\* The package does not verify, or the agent is restarted: the next cycle
\* begins at PULLED, and no one waits for the report under way.
CycleAborts(p) ==
  /\ next[p] > 1 \/ waiting[p] # None
  /\ next' = [next EXCEPT ![p] = 1]
  /\ waiting' = [waiting EXCEPT ![p] = None]
  /\ UNCHANGED <<database, req, cached, outcome>>

\* The activation command, a process of its own, works on the cached package.
\* When it fails it posts package_activation_failed, an event that is recorded
\* and changes no lifecycle state.
ActivationReport(t, p) ==
  /\ p \in cached
  /\ Report(t, p, "ACTIVATED")
  /\ UNCHANGED <<database, agent, outcome>>

\* The endpoint takes every postable state, in any order and from any client
\* that may update packages.
PostEvent(t, p) ==
  /\ \E asked \in Posted : Report(t, p, asked)
  /\ UNCHANGED <<database, agent, outcome>>

(***************************************************************************)
(* Revocation.                                                             *)
(***************************************************************************)
\* The certificate's row is read once, at the start.
RevokeRequest(t, c) ==
  /\ req[t].at = "idle"
  /\ certStatus[c] # "absent"
  /\ Becomes(t, [Idle EXCEPT !.at = "list", !.op = "revoke", !.cert = c,
                             !.already = (certStatus[c] = "revoked")])
  /\ UNCHANGED <<database, agent, outcome>>

RevokeList(t) ==
  /\ req[t].at = "list"
  /\ LET packages == {p \in Stored : CertOf[p] = req[t].cert}
     IN  Becomes(t, [req[t] EXCEPT !.at = "vault", !.found = packages,
                                   !.left = packages])
  /\ UNCHANGED <<database, agent, outcome>>

\* Vault revokes, or the call fails; a revoked certificate needs no call.
RevokeInVault(t) ==
  /\ req[t].at = "vault"
  /\ \/ Becomes(t, [req[t] EXCEPT !.at = "mark"])
     \/ ~ req[t].already /\ Becomes(t, Idle)
  /\ UNCHANGED <<database, agent, outcome>>

RevokeMark(t) ==
  /\ req[t].at = "mark"
  /\ certStatus' = [certStatus EXCEPT ![req[t].cert] = "revoked"]
  /\ Becomes(t, [req[t] EXCEPT !.at = "visit", !.already = FALSE])
  /\ UNCHANGED <<state, status, events, agent, outcome>>

\* ORDER BY generation DESC
Newest(P) == {p \in P : \A q \in P : q <= p}

RevokeVisit(t) ==
  /\ req[t].at = "visit"
  /\ \E p \in Newest(req[t].left) :
       Becomes(t, [req[t] EXCEPT !.at = "select", !.package = p,
                                 !.left = @ \ {p}])
  /\ UNCHANGED <<database, agent, outcome>>

\* The trust list, the artifact and the CRL follow, and may fail.  The answer
\* is 200 also when the update of an expired package was ignored.
RevokeAnswer(t) ==
  /\ req[t].at = "visit"
  /\ req[t].left = {}
  /\ Becomes(t, Idle)
  /\ \/ /\ revokedOk' = revokedOk \cup {req[t].cert}
        /\ covered' = covered \cup {p \in req[t].found : "EXPIRED" \notin events[p]}
     \/ UNCHANGED outcome
  /\ UNCHANGED <<database, agent>>

(***************************************************************************)
(* resolve_component_active_certificate.                                   *)
(***************************************************************************)
LookupRequest(t) ==
  /\ req[t].at = "idle"
  /\ Becomes(t, [Idle EXCEPT !.at = "activated", !.op = "lookup",
                             !.before = revokedOk])
  /\ UNCHANGED <<database, agent, outcome>>

LookupActivated(t) ==
  /\ req[t].at = "activated"
  /\ LET inUse == {p \in Stored : state[p] = "ACTIVATED" /\ status[p] = "active"}
     IN  Becomes(t, [req[t] EXCEPT !.at = "check", !.left = inUse])
  /\ UNCHANGED <<database, agent, outcome>>

\* Mutant: the package's own status is taken to be enough.
PresentableByPackage(c) == TRUE

Presentable(c) == certStatus[c] = "active"

LookupCheck(t) ==
  /\ req[t].at = "check"
  /\ \E p \in Newest(req[t].left) :
       Becomes(t, IF Presentable(CertOf[p])
                    THEN [req[t] EXCEPT !.at = "answered", !.cert = CertOf[p],
                                        !.left = {}]
                    ELSE [req[t] EXCEPT !.left = @ \ {p}])
  /\ UNCHANGED <<database, agent, outcome>>

\* No activated package: the newest active certificate, if there is one.
LookupFallback(t) ==
  /\ req[t].at = "check"
  /\ req[t].left = {}
  /\ LET active == {c \in Certs : certStatus[c] = "active"}
     IN  \E c \in IF active = {} THEN {None} ELSE Newest(active) :
           Becomes(t, [req[t] EXCEPT !.at = "answered", !.cert = c])
  /\ UNCHANGED <<database, agent, outcome>>

LookupAnswer(t) ==
  /\ req[t].at = "answered"
  /\ Becomes(t, Idle)
  /\ UNCHANGED <<database, agent, outcome>>

(***************************************************************************)
(* The process restarts: every request is lost, uncommitted updates with   *)
(* it, and the sync loop's report fails.                                   *)
(***************************************************************************)
Restart ==
  /\ req # [t \in Threads |-> Idle]
  /\ req' = [t \in Threads |-> Idle]
  /\ waiting' = [p \in Packages |-> None]
  /\ UNCHANGED <<database, next, cached, outcome>>

Handle(t) ==
  \/ Select(t) \/ UpdateReport(t) \/ UpdateRevoked(t)
  \/ RevokeList(t) \/ RevokeInVault(t) \/ RevokeMark(t)
  \/ RevokeVisit(t) \/ RevokeAnswer(t)
  \/ LookupActivated(t) \/ LookupCheck(t) \/ LookupFallback(t) \/ LookupAnswer(t)

Next ==
  \/ \E c \in Certs : IssueCertificate(c)
  \/ \E p \in Packages : StorePackage(p) \/ SyncReportFails(p) \/ CycleAborts(p)
  \/ \E t \in Threads :
       \/ \E p \in Packages : SyncReport(t, p) \/ ActivationReport(t, p)
                              \/ PostEvent(t, p)
       \/ \E c \in Certs : RevokeRequest(t, c)
       \/ LookupRequest(t)
       \/ Handle(t)
  \/ Restart

Spec == Init /\ [][Next]_vars

(***************************************************************************)
(* Properties.                                                             *)
(***************************************************************************)
\* What the documentation promises: no report moves a package backwards.
\* The unlocked SELECT breaks it.
NonRegressive ==
  [][\A p \in Stored : Order[state'[p]] >= Order[state[p]]]_vars

\* The most the update guarantees: a package moves backwards only when the
\* request that writes was overtaken, that is, its SELECT read a state that
\* another request has replaced since.
OnlyOvertakenWritesRegress ==
  [][\A p \in Stored :
       Order[state'[p]] < Order[state[p]] =>
         \E t \in Threads : /\ req[t].at = "update" /\ req'[t].at # "update"
                            /\ req[t].package = p
                            /\ req[t].seen # state[p]]_vars

\* Whatever order the updates commit in, the package's history holds the event
\* that put it in its state: update and event row are one transaction.
HistoryExplainsState ==
  \A p \in Stored : state[p] \in events[p] \cup {"PACKAGED"}

\* A package that a successful revocation found, and that had not been reported
\* EXPIRED by then, stays marked revoked, whatever is reported late: EXPIRED
\* too, or a state that overwrites REVOKED.  (A package already EXPIRED is left
\* 'active' by a revocation that answers 200.)
RevocationSticks == \A p \in covered : status[p] = "revoked"

\* A lookup never answers with a certificate whose revocation had been
\* answered before the lookup began, although the certificate's package may
\* have been stored after the revocation listed the packages, or been put back
\* to ACTIVATED by a late report.
LookupHonoursRevocation ==
  \A t \in Threads : req[t].at = "answered" => req[t].cert \notin req[t].before
===============================================================================
