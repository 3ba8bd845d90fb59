--------------------------- MODULE TrustPublication ---------------------------
(***************************************************************************)
(* The GDS control plane's publication of trust: applications and their    *)
(* certificates, the versioned trust list of each (zone, role) target, the *)
(* signed artifact of each target, and certificate revocation.             *)
(*                                                                         *)
(* Requests run on the threads of one FastAPI process over a PostgreSQL    *)
(* database; every db.py function is a transaction of its own, so a        *)
(* request is a sequence of atomic steps between which other requests run. *)
(* The artifact scan thread runs the same code on every target.            *)
(***************************************************************************)
EXTENDS Naturals, FiniteSets

CONSTANTS
  Targets,      \* the (zone, role) pairs that have a trust list
  Rank,         \* ORDER BY zone, role: the order of the scan loop's sweep
  Apps,         \* rows of table applications
  Home,         \* an application's own (zone, role) when the process starts
  Consumes,     \* the (zone, role) pairs whose applications a target trusts
  Certs,        \* rows of table certificates, numbered in order of creation
  Owner,        \* a certificate's application
  Filed,        \* certificate_packages.created_at: the order of the packages
  Seeded,       \* the certificates the start-up inventory import registers
  Published,    \* the targets already published when the process starts
  Threads,      \* request threads of the API
  Scheduler,    \* the artifact scan thread
  None,
  MaxRequests,  \* bound: calls and events from outside
  MaxFaults     \* bound: Vault errors and process restarts

Procs == Threads \cup {Scheduler}

ASSUME ConstantsAssumption ==
  /\ Certs \subseteq Nat
  /\ Seeded \subseteq Certs
  /\ Published \subseteq Targets
  /\ Home \in [Apps -> Targets]
  /\ Consumes \in [Targets -> SUBSET Targets]
  /\ Owner \in [Certs -> Apps]
  /\ Filed \in [Certs -> Nat]
  /\ \A c, d \in Certs : Filed[c] = Filed[d] => c = d
  /\ Rank \in [Targets -> Nat]
  /\ \A t, u \in Targets : Rank[t] = Rank[u] => t = u
  /\ Scheduler \notin Threads
  /\ None \notin Procs
  /\ MaxRequests \in Nat
  /\ MaxFaults \in Nat

VARIABLES
  \* the database
  certStatus,   \* certificates.status
  pkg,          \* the lifecycle of the certificate's package
  activeApps,   \* the applications with status 'active'
  home,         \* applications.zone, applications.role
  list,         \* the newest committed trust list of each target
  pending,      \* the process holding an uncommitted row of trust_lists
  artifact,     \* the newest row of trust_artifacts of each target
  \* Vault
  vaultRevoked, \* the serials on Vault's CRL
  \* process memory
  regenLock,    \* ARTIFACT_REGEN_LOCK
  throttled,    \* targets regenerated less than the minimum interval ago
  ttlLow,       \* targets whose artifact is below the TTL threshold
  pc, op, after, target, cert, want, nextVersion, held, revision, crl, todo,
  \* accounting
  revokedOk,    \* the revocations answered with 200, and the target each rebuilt
  requests, faults

applications == <<activeApps, home>>
database == <<certStatus, pkg, applications, list, pending, artifact>>
locals   == <<op, after, target, cert, want, nextVersion, held, revision, crl, todo>>
memory   == <<regenLock, throttled, ttlLow>>
bounds   == <<requests, faults>>
vars     == <<database, vaultRevoked, memory, pc, locals, revokedOk, bounds>>

Revocation  == [cert : Certs, target : Targets]
ListRow     == [version : Nat, members : SUBSET Certs]
ArtifactRow == [version : Nat, members : SUBSET Certs,
                revision : Nat, signed : Nat, crl : SUBSET Certs]

Calls == {"read", "rebuild", "build", "first", "revoke", "sweep"}
Steps == {"idle", "ensure", "compare", "max", "insert", "commit", "fetch",
          "peek", "enter", "sign", "publish", "vault", "mark", "packages",
          "refresh"}

DatabaseTypes ==
  /\ certStatus \in [Certs -> {"absent", "active", "revoked"}]
  /\ pkg \in [Certs -> {"none", "issued", "activated", "rolled_back", "revoked"}]
  /\ activeApps \subseteq Apps
  /\ home \in [Apps -> Targets]
  /\ list \in [Targets -> ListRow]
  /\ pending \in [Targets -> Procs \cup {None}]
  /\ artifact \in [Targets -> ArtifactRow]

MemoryTypes ==
  /\ vaultRevoked \subseteq Certs
  /\ regenLock \in Procs \cup {None}
  /\ throttled \subseteq Targets
  /\ ttlLow \subseteq Targets
  /\ revokedOk \subseteq Revocation
  /\ requests \in Nat
  /\ faults \in Nat

\* A process at work has a target; a revocation also has its certificate.
ControlTypes ==
  /\ pc \in [Procs -> Steps]
  /\ op \in [Procs -> Calls]
  /\ after \in [Procs -> {"ensure", "fetch"}]
  /\ target \in [Procs -> Targets \cup {None}]
  /\ cert \in [Procs -> Certs \cup {None}]
  /\ \A p \in Procs : pc[p] # "idle" => target[p] \in Targets
  /\ \A p \in Procs : op[p] = "revoke" => cert[p] \in Certs /\ target[p] \in Targets
  /\ \A p \in Procs : pc[p] \in {"vault", "mark", "packages", "refresh"}
                         => op[p] = "revoke"

LocalTypes ==
  /\ want \in [Procs -> SUBSET Certs]
  /\ nextVersion \in [Procs -> Nat]
  /\ held \in [Procs -> ListRow]
  /\ revision \in [Procs -> Nat]
  /\ crl \in [Procs -> SUBSET Certs]
  /\ todo \subseteq Targets

TypeOK == DatabaseTypes /\ MemoryTypes /\ ControlTypes /\ LocalTypes

(***************************************************************************)
(* What a target should trust, computed from the database.                 *)
(***************************************************************************)
Usable(a) == {c \in Certs : Owner[c] = a /\ certStatus[c] = "active"}

\* An application's own certificate: of its ACTIVATED packages the one stored
\* last, else the newest of its active certificates.
ActiveCertificate(a) ==
  LET activated == {c \in Usable(a) : pkg[c] = "activated"}
  IN  IF activated # {}
      THEN {c \in activated : \A d \in activated : Filed[d] <= Filed[c]}
      ELSE {c \in Usable(a) : \A d \in Usable(a) : d <= c}

\* ... of every active application the target consumes.
Desired(t) ==
  UNION {ActiveCertificate(a) : a \in {b \in activeApps : home[b] \in Consumes[t]}}

\* The inventory import has run; the database of an earlier process may hold
\* lists and artifacts.
Init ==
  /\ certStatus = [c \in Certs |-> IF c \in Seeded THEN "active" ELSE "absent"]
  /\ pkg = [c \in Certs |-> "none"]
  /\ activeApps = Apps
  /\ home = Home
  /\ list = [t \in Targets |->
       IF t \in Published THEN [version |-> 1, members |-> Desired(t)]
                          ELSE [version |-> 0, members |-> {}]]
  /\ pending = [t \in Targets |-> None]
  /\ artifact = [t \in Targets |->
       [version |-> list[t].version, members |-> list[t].members,
        revision |-> list[t].version, signed |-> list[t].version, crl |-> {}]]
  /\ vaultRevoked = {}
  /\ regenLock = None
  /\ throttled = {}
  /\ ttlLow = {}
  /\ pc = [p \in Procs |-> "idle"]
  /\ op = [p \in Procs |-> "read"]
  /\ after = [p \in Procs |-> "fetch"]
  /\ target = [p \in Procs |-> None]
  /\ cert = [p \in Procs |-> None]
  /\ want = [p \in Procs |-> {}]
  /\ nextVersion = [p \in Procs |-> 0]
  /\ held = [p \in Procs |-> [version |-> 0, members |-> {}]]
  /\ revision = [p \in Procs |-> 0]
  /\ crl = [p \in Procs |-> {}]
  /\ todo = {}
  /\ revokedOk = {}
  /\ requests = 0
  /\ faults = 0

Forced(p) == op[p] \in {"rebuild", "first", "revoke"}

\* _regeneration_reason, for the list the request holds
NeedsRegeneration(p, t) ==
  \/ Forced(p)                                    \* force_rebuild
  \/ artifact[t].revision = 0                     \* cache_miss
  \/ artifact[t].version # held[p].version        \* version_changed
  \/ t \in ttlLow                                 \* ttl_threshold, ttl_refresh

(***************************************************************************)
(* Bookkeeping of a process.                                               *)
(***************************************************************************)
Goto(p, s) == pc' = [pc EXCEPT ![p] = s]

At(p, s) == pc[p] = s

\* A call that ends forgets its locals: they are its stack.
Forget(p) ==
  /\ after' = [after EXCEPT ![p] = "fetch"]
  /\ want' = [want EXCEPT ![p] = {}]
  /\ nextVersion' = [nextVersion EXCEPT ![p] = 0]
  /\ held' = [held EXCEPT ![p] = [version |-> 0, members |-> {}]]
  /\ revision' = [revision EXCEPT ![p] = 0]
  /\ crl' = [crl EXCEPT ![p] = {}]

End(p) ==
  /\ Goto(p, "idle")
  /\ op' = [op EXCEPT ![p] = "read"]
  /\ target' = [target EXCEPT ![p] = None]
  /\ cert' = [cert EXCEPT ![p] = None]
  /\ Forget(p)

First(t, S) == t \in S /\ \A u \in S : Rank[t] <= Rank[u]

\* _get_or_regenerate_signed_artifact returns: a revocation goes on to read
\* the CRL, the sweep goes on to its next target, any other request answers.
Return(p) ==
  \/ /\ op[p] = "revoke"
     /\ Goto(p, "refresh")
     /\ Forget(p)
     /\ UNCHANGED <<op, target, cert, todo>>
  \/ /\ op[p] # "revoke"
     /\ p # Scheduler \/ todo = {}
     /\ End(p)
     /\ UNCHANGED todo
  \/ /\ p = Scheduler
     /\ \E t \in Targets :
          /\ First(t, todo)
          /\ target' = [target EXCEPT ![p] = t]
          /\ todo' = todo \ {t}
     /\ Goto(p, "ensure")
     /\ Forget(p)
     /\ UNCHANGED <<op, cert>>

\* An exception ends the request, or the whole iteration of the scan loop.
Raise(p) ==
  /\ End(p)
  /\ todo' = IF p = Scheduler THEN {} ELSE todo

(***************************************************************************)
(* Calls and events from outside.                                          *)
(***************************************************************************)
Request == requests < MaxRequests /\ requests' = requests + 1

\* Mutant: the certificate the request selects is not kept.
StartCallUnresolved(p, o, t, c, first, cont) ==
  /\ At(p, "idle")
  /\ Goto(p, first)
  /\ op' = [op EXCEPT ![p] = o]
  /\ after' = [after EXCEPT ![p] = cont]
  /\ target' = [target EXCEPT ![p] = t]
  /\ UNCHANGED <<cert, want, nextVersion, held, revision, crl>>
  /\ UNCHANGED <<database, vaultRevoked, memory, revokedOk, faults>>

StartCall(p, o, t, c, first, cont) ==
  /\ At(p, "idle")
  /\ Goto(p, first)
  /\ op' = [op EXCEPT ![p] = o]
  /\ after' = [after EXCEPT ![p] = cont]
  /\ target' = [target EXCEPT ![p] = t]
  /\ cert' = [cert EXCEPT ![p] = c]
  /\ UNCHANGED <<want, nextVersion, held, revision, crl>>
  /\ UNCHANGED <<database, vaultRevoked, memory, revokedOk, faults>>

\* GET .../artifact, .../artifact/status, component trust material
Read(p, t) ==
  p \in Threads /\ Request /\ StartCall(p, "read", t, None, "ensure", "fetch")
  /\ UNCHANGED todo

\* POST .../artifact/rebuild, and the rebuild of the affected consumer's
\* artifact after an enrollment or a renewal
Rebuild(p, t) ==
  p \in Threads /\ Request /\ StartCall(p, "rebuild", t, None, "ensure", "fetch")
  /\ UNCHANGED todo

\* POST /api/v1/trustlists/build
Build(p, t) ==
  p \in Threads /\ Request /\ StartCall(p, "build", t, None, "max", "ensure")
  /\ UNCHANGED todo

\* GET trust version of a component whose target has no artifact yet
FirstVersion(p, t) ==
  /\ p \in Threads
  /\ artifact[t].revision = 0
  /\ Request
  /\ StartCall(p, "first", t, None, "max", "ensure")
  /\ UNCHANGED todo

\* POST /api/v1/certificates/revoke; a certificate whose row already says
\* revoked skips Vault.  The target is the application's of that moment.
Revoke(p, c) ==
  /\ p \in Threads
  /\ certStatus[c] # "absent"
  /\ Request
  /\ StartCall(p, "revoke", home[Owner[c]], c,
               IF certStatus[c] = "revoked" THEN "mark" ELSE "vault", "ensure")
  /\ UNCHANGED todo

\* One iteration of _artifact_scan_loop over the targets that have a list.
Sweep ==
  \E t \in Targets :
    LET targets == {u \in Targets : list[u].version > 0}
    IN  /\ First(t, targets)
        /\ StartCall(Scheduler, "sweep", t, None, "ensure", "fetch")
        /\ todo' = targets \ {t}
        /\ UNCHANGED requests

\* A certificate is stored active: an issued one, or an imported one.
Issue(c) ==
  /\ certStatus[c] = "absent"
  /\ \A d \in Certs : d < c => certStatus[d] # "absent"
  /\ Request
  /\ certStatus' = [certStatus EXCEPT ![c] = "active"]
  /\ UNCHANGED <<pkg, applications, list, pending, artifact>>
  /\ UNCHANGED <<vaultRevoked, memory, pc, locals, revokedOk, faults>>

\* The package of an issued certificate is stored by a later transaction;
\* concurrent issuances may store theirs in another order.
Package(c) ==
  /\ certStatus[c] # "absent"
  /\ c \notin Seeded
  /\ pkg[c] = "none"
  /\ \A d \in Certs : pkg[d] # "none" => Filed[d] < Filed[c]
  /\ pkg' = [pkg EXCEPT ![c] = "issued"]
  /\ UNCHANGED <<certStatus, applications, list, pending, artifact>>
  /\ UNCHANGED <<vaultRevoked, memory, pc, locals, revokedOk, bounds>>

\* An agent reports a package ACTIVATED; a REVOKED package stays REVOKED.
ReportActivated(c) ==
  /\ pkg[c] = "issued"
  /\ Request
  /\ pkg' = [pkg EXCEPT ![c] = "activated"]
  /\ UNCHANGED <<certStatus, applications, list, pending, artifact>>
  /\ UNCHANGED <<vaultRevoked, memory, pc, locals, revokedOk, faults>>

\* ROLLED_BACK ranks above ACTIVATED, and EXPIRED does: such a package does
\* not count any more.
ReportRolledBack(c) ==
  /\ pkg[c] \in {"issued", "activated"}
  /\ Request
  /\ pkg' = [pkg EXCEPT ![c] = "rolled_back"]
  /\ UNCHANGED <<certStatus, applications, list, pending, artifact>>
  /\ UNCHANGED <<vaultRevoked, memory, pc, locals, revokedOk, faults>>

\* Registration writes the status, zone and role it is given.
RegisterApplication(a, active, t) ==
  /\ active # (a \in activeApps) \/ t # home[a]
  /\ Request
  /\ home' = [home EXCEPT ![a] = t]
  /\ activeApps' = IF active THEN activeApps \cup {a} ELSE activeApps \ {a}
  /\ UNCHANGED <<certStatus, pkg, list, pending, artifact>>
  /\ UNCHANGED <<vaultRevoked, memory, pc, locals, revokedOk, faults>>

\* A heartbeat makes the application active, whatever its status was.
Heartbeat(a) == RegisterApplication(a, TRUE, home[a])

\* The artifact of a target falls below the TTL threshold.
AgeArtifact(t) ==
  /\ artifact[t].revision > 0
  /\ t \notin ttlLow
  /\ Request
  /\ ttlLow' = ttlLow \cup {t}
  /\ UNCHANGED <<database, vaultRevoked, regenLock, throttled, pc, locals>>
  /\ UNCHANGED <<revokedOk, faults>>

\* The minimum regeneration interval of a target passes.
IntervalPasses(t) ==
  /\ t \in throttled
  /\ throttled' = throttled \ {t}
  /\ UNCHANGED <<database, vaultRevoked, regenLock, ttlLow, pc, locals>>
  /\ UNCHANGED <<revokedOk, bounds>>

(***************************************************************************)
(* ensure_trust_list_current and build_trust_list.                         *)
(***************************************************************************)
EnsureDesired(p) ==
  /\ At(p, "ensure")
  /\ want' = [want EXCEPT ![p] = Desired(target[p])]
  /\ Goto(p, "compare")
  /\ UNCHANGED <<op, after, target, cert, nextVersion, held, revision, crl, todo>>
  /\ UNCHANGED <<database, vaultRevoked, memory, revokedOk, bounds>>

\* Mutant: a target that has a list is not compared with what it should hold.
EnsureCompareExists(p) ==
  /\ At(p, "compare")
  /\ IF list[target[p]].version > 0
     THEN Goto(p, "fetch") /\ UNCHANGED after
     ELSE Goto(p, "max") /\ after' = [after EXCEPT ![p] = "fetch"]
  /\ want' = [want EXCEPT ![p] = {}]
  /\ UNCHANGED <<op, target, cert, nextVersion, held, revision, crl, todo>>
  /\ UNCHANGED <<database, vaultRevoked, memory, revokedOk, bounds>>

EnsureCompare(p) ==
  LET newest == list[target[p]]
  IN  /\ At(p, "compare")
      /\ IF newest.version > 0 /\ newest.members = want[p]
         THEN Goto(p, "fetch") /\ UNCHANGED after
         ELSE Goto(p, "max") /\ after' = [after EXCEPT ![p] = "fetch"]
      /\ want' = [want EXCEPT ![p] = {}]
      /\ UNCHANGED <<op, target, cert, nextVersion, held, revision, crl, todo>>
      /\ UNCHANGED <<database, vaultRevoked, memory, revokedOk, bounds>>

BuildMax(p) ==
  /\ At(p, "max")
  /\ nextVersion' = [nextVersion EXCEPT ![p] = list[target[p]].version + 1]
  /\ Goto(p, "insert")
  /\ UNCHANGED <<op, after, target, cert, want, held, revision, crl, todo>>
  /\ UNCHANGED <<database, vaultRevoked, memory, revokedOk, bounds>>

\* Mutant: no unique index on (zone, role, version).
BuildInsertNoUnique(p) ==
  /\ At(p, "insert")
  /\ pending' = [pending EXCEPT ![target[p]] = p]
  /\ want' = [want EXCEPT ![p] = Desired(target[p])]
  /\ Goto(p, "commit")
  /\ UNCHANGED <<op, after, target, cert, nextVersion, held, revision, crl, todo>>
  /\ UNCHANGED <<certStatus, pkg, applications, list, artifact>>
  /\ UNCHANGED <<vaultRevoked, memory, revokedOk, bounds>>

\* INSERT waits while another transaction holds the same (zone, role,
\* version); the members are read after it.
BuildInsert(p) ==
  /\ At(p, "insert")
  /\ pending[target[p]] = None
  /\ nextVersion[p] > list[target[p]].version
  /\ pending' = [pending EXCEPT ![target[p]] = p]
  /\ want' = [want EXCEPT ![p] = Desired(target[p])]
  /\ Goto(p, "commit")
  /\ UNCHANGED <<op, after, target, cert, nextVersion, held, revision, crl, todo>>
  /\ UNCHANGED <<certStatus, pkg, applications, list, artifact>>
  /\ UNCHANGED <<vaultRevoked, memory, revokedOk, bounds>>

\* UNIQUE(zone, role, version): somebody else committed this version.
BuildConflict(p) ==
  /\ At(p, "insert")
  /\ pending[target[p]] = None
  /\ nextVersion[p] <= list[target[p]].version
  /\ Raise(p)
  /\ UNCHANGED <<database, vaultRevoked, memory, revokedOk, bounds>>

BuildCommit(p) ==
  /\ At(p, "commit")
  /\ list' = [list EXCEPT ![target[p]] = [version |-> nextVersion[p],
                                          members |-> want[p]]]
  /\ pending' = [pending EXCEPT ![target[p]] = None]
  /\ Goto(p, after[p])
  /\ want' = [want EXCEPT ![p] = {}]
  /\ nextVersion' = [nextVersion EXCEPT ![p] = 0]
  /\ UNCHANGED <<op, after, target, cert, held, revision, crl, todo>>
  /\ UNCHANGED <<certStatus, pkg, applications, artifact>>
  /\ UNCHANGED <<vaultRevoked, memory, revokedOk, bounds>>

(***************************************************************************)
(* _get_or_regenerate_signed_artifact.                                     *)
(***************************************************************************)
FetchList(p) ==
  /\ At(p, "fetch")
  /\ held' = [held EXCEPT ![p] = list[target[p]]]
  /\ Goto(p, "peek")
  /\ UNCHANGED <<op, after, target, cert, want, nextVersion, revision, crl, todo>>
  /\ UNCHANGED <<database, vaultRevoked, memory, revokedOk, bounds>>

\* The first locked section only decides whether to take the lock again.
PeekReason(p) ==
  /\ At(p, "peek")
  /\ regenLock = None
  /\ \/ NeedsRegeneration(p, target[p]) /\ Goto(p, "enter") /\ UNCHANGED locals
     \/ ~NeedsRegeneration(p, target[p]) /\ Return(p)
  /\ UNCHANGED <<database, vaultRevoked, memory, revokedOk, bounds>>

\* Mutant: the regeneration itself runs without the lock.
EnterRegenUnlocked(p) ==
  LET t == target[p]
  IN  /\ At(p, "enter")
      /\ NeedsRegeneration(p, t)
      /\ Forced(p) \/ t \notin throttled
      /\ revision' = [revision EXCEPT ![p] = artifact[t].revision + 1]
      /\ Goto(p, "sign")
      /\ UNCHANGED <<op, after, target, cert, want, nextVersion, held, crl, todo>>
      /\ UNCHANGED <<database, vaultRevoked, memory, revokedOk, bounds>>

\* The second one decides anew, and throttles what is not forced.
EnterRegen(p) ==
  LET t == target[p]
  IN  /\ At(p, "enter")
      /\ regenLock = None
      /\ NeedsRegeneration(p, t)
      /\ Forced(p) \/ t \notin throttled
      /\ regenLock' = p
      /\ revision' = [revision EXCEPT ![p] = artifact[t].revision + 1]
      /\ Goto(p, "sign")
      /\ UNCHANGED <<op, after, target, cert, want, nextVersion, held, crl, todo>>
      /\ UNCHANGED <<database, vaultRevoked, throttled, ttlLow, revokedOk, bounds>>

SkipRegen(p) ==
  LET t == target[p]
  IN  /\ At(p, "enter")
      /\ regenLock = None
      /\ ~NeedsRegeneration(p, t) \/ (~Forced(p) /\ t \in throttled)
      /\ Return(p)
      /\ UNCHANGED <<database, vaultRevoked, memory, revokedOk, bounds>>

\* Mutant: the CRL of the previous artifact is reused.
FetchCrlCached(p) ==
  /\ At(p, "sign")
  /\ crl' = [crl EXCEPT ![p] = artifact[target[p]].crl]
  /\ Goto(p, "publish")
  /\ UNCHANGED <<op, after, target, cert, want, nextVersion, held, revision, todo>>
  /\ UNCHANGED <<database, vaultRevoked, memory, revokedOk, bounds>>

\* CA chain and CRLs come from Vault while the lock is held.
FetchCrl(p) ==
  /\ At(p, "sign")
  /\ crl' = [crl EXCEPT ![p] = vaultRevoked]
  /\ Goto(p, "publish")
  /\ UNCHANGED <<op, after, target, cert, want, nextVersion, held, revision, todo>>
  /\ UNCHANGED <<database, vaultRevoked, memory, revokedOk, bounds>>

\* The row's revision is MAX + 1 at the insert; the signed document carries
\* the revision computed when the lock was taken.
PublishArtifact(p) ==
  LET t == target[p]
  IN  /\ At(p, "publish")
      /\ artifact' = [artifact EXCEPT ![t] =
           [version |-> held[p].version, members |-> held[p].members,
            revision |-> artifact[t].revision + 1, signed |-> revision[p],
            crl |-> crl[p]]]
      /\ regenLock' = None
      /\ throttled' = throttled \cup {t}
      /\ ttlLow' = ttlLow \ {t}
      /\ Return(p)
      /\ UNCHANGED <<certStatus, pkg, applications, list, pending>>
      /\ UNCHANGED <<vaultRevoked, revokedOk, bounds>>

Fault == faults < MaxFaults /\ faults' = faults + 1

(***************************************************************************)
(* revoke_certificate.                                                     *)
(***************************************************************************)
VaultRevoke(p) ==
  /\ At(p, "vault")
  /\ vaultRevoked' = vaultRevoked \cup {cert[p]}
  /\ Goto(p, "mark")
  /\ UNCHANGED locals
  /\ UNCHANGED <<database, memory, revokedOk, bounds>>

MarkRevoked(p) ==
  /\ At(p, "mark")
  /\ certStatus' = [certStatus EXCEPT ![cert[p]] = "revoked"]
  /\ Goto(p, "packages")
  /\ UNCHANGED locals
  /\ UNCHANGED <<pkg, applications, list, pending, artifact>>
  /\ UNCHANGED <<vaultRevoked, memory, revokedOk, bounds>>

\* The certificate's packages become REVOKED, then build_trust_list runs
\* for the certificate's own (zone, role).  A package stored after the
\* call listed them, or reported EXPIRED before, stays as it is.
RevokePackages(p) ==
  /\ At(p, "packages")
  /\ \/ pkg[cert[p]] # "none" /\ pkg' = [pkg EXCEPT ![cert[p]] = "revoked"]
     \/ UNCHANGED pkg
  /\ Goto(p, "max")
  /\ UNCHANGED locals
  /\ UNCHANGED <<certStatus, applications, list, pending, artifact>>
  /\ UNCHANGED <<vaultRevoked, memory, revokedOk, bounds>>

\* Vault revokes the serial, but its answer is lost: an error to the handler.
VaultRevokeUnanswered(p) ==
  /\ At(p, "vault")
  /\ Fault
  /\ vaultRevoked' = vaultRevoked \cup {cert[p]}
  /\ Raise(p)
  /\ UNCHANGED <<database, memory, revokedOk, requests>>

\* get_intermediate_crl for the response, then 200
AnswerRevoked(p) ==
  /\ At(p, "refresh")
  /\ revokedOk' = revokedOk \cup {[cert |-> cert[p], target |-> target[p]]}
  /\ End(p)
  /\ UNCHANGED todo
  /\ UNCHANGED <<database, vaultRevoked, memory, bounds>>

(***************************************************************************)
(* Faults.                                                                 *)
(***************************************************************************)
\* Vault is sealed or answers with an error: the exception releases the lock
\* and leaves what earlier steps committed.
VaultError(p) ==
  /\ pc[p] \in {"sign", "vault", "refresh"}
  /\ Fault
  /\ regenLock' = IF At(p, "sign") THEN None ELSE regenLock
  /\ Raise(p)
  /\ UNCHANGED <<database, vaultRevoked, throttled, ttlLow, revokedOk, requests>>

\* The process dies and starts again: transactions roll back, memory is lost.
Restart ==
  /\ Fault
  /\ pending' = [t \in Targets |-> None]
  /\ regenLock' = None
  /\ throttled' = {}
  /\ pc' = [p \in Procs |-> "idle"]
  /\ op' = [p \in Procs |-> "read"]
  /\ after' = [p \in Procs |-> "fetch"]
  /\ target' = [p \in Procs |-> None]
  /\ cert' = [p \in Procs |-> None]
  /\ want' = [p \in Procs |-> {}]
  /\ nextVersion' = [p \in Procs |-> 0]
  /\ held' = [p \in Procs |-> [version |-> 0, members |-> {}]]
  /\ revision' = [p \in Procs |-> 0]
  /\ crl' = [p \in Procs |-> {}]
  /\ todo' = {}
  /\ UNCHANGED <<certStatus, pkg, applications, list, artifact>>
  /\ UNCHANGED <<vaultRevoked, ttlLow, revokedOk, requests>>

(***************************************************************************)
(* The specification.                                                      *)
(***************************************************************************)
Call(p) ==
  \/ \E t \in Targets : Read(p, t) \/ Rebuild(p, t) \/ Build(p, t)
                        \/ FirstVersion(p, t)
  \/ \E c \in Certs : Revoke(p, c)

Step(p) ==
  \/ EnsureDesired(p) \/ EnsureCompare(p)
  \/ BuildMax(p) \/ BuildInsert(p) \/ BuildConflict(p) \/ BuildCommit(p)
  \/ FetchList(p) \/ PeekReason(p) \/ EnterRegen(p) \/ SkipRegen(p)
  \/ FetchCrl(p) \/ PublishArtifact(p)
  \/ VaultRevoke(p) \/ MarkRevoked(p) \/ RevokePackages(p) \/ AnswerRevoked(p)

Environment ==
  \/ \E c \in Certs : Issue(c) \/ Package(c) \/ ReportActivated(c) \/ ReportRolledBack(c)
  \/ \E a \in Apps : Heartbeat(a)
                     \/ \E active \in BOOLEAN, t \in Targets :
                          RegisterApplication(a, active, t)
  \/ \E t \in Targets : AgeArtifact(t) \/ IntervalPasses(t)

Next ==
  \/ \E p \in Procs : Call(p) \/ Step(p) \/ VaultError(p) \/ VaultRevokeUnanswered(p)
  \/ Sweep
  \/ Environment
  \/ Restart

Spec == Init /\ [][Next]_vars

\* Threads that have work run, the scan loop keeps sweeping, time passes.
Fairness ==
  /\ \A p \in Threads : WF_vars(Step(p))
  /\ WF_vars(Sweep \/ Step(Scheduler))
  /\ \A t \in Targets : WF_vars(IntervalPasses(t))

FairSpec == Spec /\ Fairness

(***************************************************************************)
(* Properties.                                                             *)
(***************************************************************************)
\* The revision inside the signed document is the revision of its row: an
\* agent orders artifacts by the former, the API reports the latter.
\* (_get_or_regenerate_signed_artifact computes one, insert_trust_artifact
\* the other.)
SignedRevisionIsRowRevision ==
  \A t \in Targets : artifact[t].signed = artifact[t].revision

\* The publication of artifacts implements its abstract specification: the
\* revocations published under a target only grow, although requests fetch
\* the CRL and file the artifact at different times.
Publisher == INSTANCE PublishedTrust WITH
  revoked   <- vaultRevoked,
  published <- [t \in Targets |-> [revision |-> artifact[t].revision,
                                   signed |-> artifact[t].signed,
                                   crl |-> artifact[t].crl]]

ImplementsPublishedTrust == Publisher!Spec

\* Once a revocation has been answered with 200, the newest artifact of the
\* certificate's own target carries a CRL that lists it, even when a slower
\* request publishes an older trust list afterwards.
RevokedSerialIsPublished ==
  \A r \in revokedOk : r.cert \in artifact[r.target].crl

\* ... and the newest trust list of that target never has the certificate
\* again, however builds of it interleave.
RevokedNeverListedAtHome ==
  \A r \in revokedOk : r.cert \notin list[r.target].members

\* A trust list version, once published, is only followed by the next one.
ListVersionsAreConsecutive ==
  [][\A t \in Targets : list'[t] # list[t]
                          => list'[t].version = list[t].version + 1]_list

\* When requests and faults stop, the scan loop brings every published
\* artifact to what the database wants trusted.
Converges ==
  <>[](\A t \in Targets :
         artifact[t].revision > 0
           => /\ artifact[t].members = Desired(t)
              /\ artifact[t].version = list[t].version)

(***************************************************************************)
(* Inductive invariants behind the safety properties.                      *)
(***************************************************************************)
Signing(p) == pc[p] \in {"sign", "publish"}

LockInv == \A p \in Procs : Signing(p) => regenLock = p

\* Whoever holds the lock works on top of the newest artifact.
SigningInv ==
  /\ SignedRevisionIsRowRevision
  /\ \A t \in Targets : artifact[t].crl \subseteq vaultRevoked
  /\ \A p \in Procs :
       /\ Signing(p) => revision[p] = artifact[target[p]].revision + 1
       /\ pc[p] = "publish" => /\ artifact[target[p]].crl \subseteq crl[p]
                               /\ crl[p] \subseteq vaultRevoked

\* How far a revocation has come.
RevokingInv ==
  /\ \A c \in Certs : certStatus[c] = "revoked" => c \in vaultRevoked
  /\ op[Scheduler] # "revoke"
  /\ \A p \in Procs : op[p] = "revoke" =>
       /\ pc[p] # "vault" => cert[p] \in vaultRevoked
       /\ pc[p] \notin {"vault", "mark"} => certStatus[cert[p]] = "revoked"
       /\ pc[p] = "publish" => cert[p] \in crl[p]
       /\ pc[p] = "refresh" => cert[p] \in artifact[target[p]].crl
  /\ RevokedSerialIsPublished

\* Uncommitted lists: one per target, the successor of the newest.
BuildInv ==
  \A p \in Procs :
    /\ pc[p] \in {"insert", "commit"}
         => nextVersion[p] <= list[target[p]].version + 1
    /\ pc[p] = "commit" => /\ pending[target[p]] = p
                           /\ nextVersion[p] = list[target[p]].version + 1

\* No list of the target has the certificate, or is about to have it.
Delisted(c, t) ==
  /\ certStatus[c] = "revoked"
  /\ c \notin list[t].members
  /\ \A p \in Procs : pc[p] = "commit" /\ target[p] = t => c \notin want[p]

\* A revocation that has committed its own list.
HasRebuilt(p) ==
  /\ op[p] = "revoke"
  /\ \/ pc[p] \in {"ensure", "compare", "fetch", "peek", "enter", "sign",
                    "publish", "refresh"}
     \/ pc[p] \in {"max", "insert", "commit"} /\ after[p] = "fetch"

ListingInv ==
  /\ \A p \in Procs : op[p] = "revoke" =>
       /\ pc[p] = "commit" => cert[p] \notin want[p]
       /\ pc[p] \in {"vault", "mark", "packages"} => after[p] = "ensure"
  /\ \A p \in Procs : HasRebuilt(p) => Delisted(cert[p], target[p])
  /\ \A r \in revokedOk : Delisted(r.cert, r.target)

IInv == LockInv /\ SigningInv /\ RevokingInv /\ BuildInv /\ ListingInv
===============================================================================
