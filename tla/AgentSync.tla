------------------------------ MODULE AgentSync ------------------------------
(***************************************************************************)
(* The agent's synchronisation of trust: cycles that pull, for one target  *)
(* after another, the newest artifact and its signature from GDS, verify   *)
(* them, compare with what is cached and replace it.  The daemon runs      *)
(* cycles for ever, --pull-revocation-update runs one in a process of its  *)
(* own; they share the cache and no lock.  GDS does what PublishedTrust    *)
(* promises.                                                               *)
(*                                                                         *)
(* A CRL is the set of its serials.  The CA chain never changes here: it   *)
(* is written with the CRL and not shown.                                  *)
(***************************************************************************)
EXTENDS Sequences, Naturals

CONSTANTS
  Targets, Certs,
  Order,         \* the configured sequence of trust targets
  Procs,         \* the daemon and the commands
  Daemon,
  None,
  Modes,         \* what GDS_AGENT_REQUIRE_SIGNED_ARTIFACTS may be to begin with
  Published,     \* targets that have an artifact to begin with
  MaxBuilds, MaxPublications, MaxFaults   \* bounds

ASSUME AgentAssumption ==
  /\ Order \in Seq(Targets) /\ Order # <<>>
  /\ \A i, j \in DOMAIN Order : Order[i] = Order[j] => i = j
  /\ Daemon \in Procs
  /\ None \notin Targets
  /\ Modes \subseteq BOOLEAN /\ Published \subseteq Targets
  /\ MaxBuilds \in Nat /\ MaxPublications \in Nat /\ MaxFaults \in Nat

VARIABLES
  \* GDS
  revoked, published,
  latest,      \* the newest version of a target's trust list
  version,     \* the version that its newest artifact was made from
  required,    \* GDS_AGENT_REQUIRE_SIGNED_ARTIFACTS
  \* files of the agent
  cached,      \* trustlists/<zone>_<role>.json
  crl,         \* pki/crl.der, and the target whose artifact it came with
  reported,    \* the lists whose difference from the cached one has a diff report
  cycle,       \* the processes
  \* accounting
  spoiled,     \* crl.der, or a list since, was written while processes overlapped
  builds, publications, faults

gds   == <<revoked, published, latest, version, builds, publications>>
files == <<cached, crl, reported, spoiled>>
vars  == <<gds, required, files, cycle, faults>>

Gds == INSTANCE PublishedTrust

Document ==   \* a trust list; signed: with the artifact around it
  [signed : BOOLEAN, version : Nat, revision : Nat, crl : SUBSET Certs]
Nothing == [signed |-> FALSE, version |-> 0, revision |-> 0, crl |-> {}]

Steps == {"idle", "load", "fetch", "signature", "pki", "reject", "report", "list",
          "unsigned_crl", "unsigned_pki", "unsigned_fetch"}

Cycle ==
  [at : Steps,
   place : Nat,          \* in Order
   before : Document,    \* what was cached when the target's turn began
   document : Document,  \* what GDS has answered
   written : BOOLEAN,    \* pki_written
   stale : BOOLEAN]      \* another process has written since the target's turn began

Idle == [at |-> "idle", place |-> 1, before |-> Nothing, document |-> Nothing,
         written |-> FALSE, stale |-> FALSE]

TypeOK ==
  /\ revoked \in SUBSET Certs
  /\ published \in [Targets -> [revision : Nat, signed : Nat, crl : SUBSET Certs]]
  /\ latest \in [Targets -> Nat] /\ version \in [Targets -> Nat]
  /\ required \in BOOLEAN
  /\ cached \in [Targets -> Document]
  /\ crl \in [serials : SUBSET Certs, source : Targets \cup {None}]
  /\ reported \in [Targets -> SUBSET Document]
  /\ cycle \in [Procs -> Cycle]
  /\ \A p \in Procs : cycle[p].place \in DOMAIN Order
  /\ spoiled \in BOOLEAN
  /\ builds \in Nat /\ publications \in Nat /\ faults \in Nat

Init ==
  /\ Gds!Init
  /\ \A t \in Targets : published[t].revision = (IF t \in Published THEN 1 ELSE 0)
  /\ latest = [t \in Targets |-> published[t].revision]
  /\ version = latest
  /\ required \in Modes
  /\ cached = [t \in Targets |-> Nothing]
  /\ crl = [serials |-> {}, source |-> None]
  /\ reported = [t \in Targets |-> {}]
  /\ cycle = [p \in Procs |-> Idle]
  /\ spoiled = FALSE
  /\ builds = 0 /\ publications = 0 /\ faults = 0

Fault == faults < MaxFaults /\ faults' = faults + 1

(***************************************************************************)
(* GDS.                                                                    *)
(***************************************************************************)
Revoke(c) ==
  /\ Gds!Revoke(c)
  /\ UNCHANGED <<latest, version, builds, publications, required, files, cycle, faults>>

BuildList(t) ==
  /\ builds < MaxBuilds /\ builds' = builds + 1
  /\ latest' = [latest EXCEPT ![t] = @ + 1]
  /\ UNCHANGED <<revoked, published, version, publications, required, files, cycle, faults>>

\* A request that was slow may publish a list that is not the newest.
Publish(t, serials, v) ==
  /\ publications < MaxPublications /\ publications' = publications + 1
  /\ Gds!Publish(t, serials)
  /\ version' = [version EXCEPT ![t] = v]
  /\ UNCHANGED <<latest, builds, required, files, cycle, faults>>

\* The agent is restarted with the other setting.
Reconfigure ==
  /\ Fault
  /\ required' = ~ required
  /\ cycle' = [p \in Procs |-> Idle]
  /\ UNCHANGED <<gds, files>>

(***************************************************************************)
(* A cycle.                                                                *)
(***************************************************************************)
Target(p) == Order[cycle[p].place]

\* The process goes on as r; those at work beside it have been overtaken.
Writes(p, r) ==
  cycle' = [q \in Procs |-> CASE q = p -> r
                           [] q # p /\ cycle[q] = Idle -> Idle
                           [] OTHER -> [cycle[q] EXCEPT !.stale = TRUE]]

Overlaps(p) == cycle[p].stale \/ \E q \in Procs \ {p} : cycle[q] # Idle

Goes(p, r) == cycle' = [cycle EXCEPT ![p] = r]

\* Mutant: the turn after the last one is begun.
TurnAnother(r) == [Idle EXCEPT !.at = "load", !.place = r.place + 1, !.written = r.written]

\* Mutant: only the first target's CRL is taken, valid or not.
TurnWritten(r) ==
  IF r.place < Len(Order)
  THEN [Idle EXCEPT !.at = "load", !.place = r.place + 1, !.written = TRUE]
  ELSE Idle

\* The next target's turn, or the end.
Turn(r) ==
  IF r.place < Len(Order)
  THEN [Idle EXCEPT !.at = "load", !.place = r.place + 1, !.written = r.written]
  ELSE Idle

Older(a, b) ==
  \/ a.version < b.version
  \/ a.version = b.version /\ a.revision < b.revision

Begin(p) ==
  /\ cycle[p].at = "idle"
  /\ Goes(p, [Idle EXCEPT !.at = IF required THEN "load" ELSE "unsigned_crl"])
  /\ UNCHANGED <<gds, required, files, faults>>

LoadPrevious(p) ==
  /\ cycle[p].at = "load"
  /\ Goes(p, [cycle[p] EXCEPT !.before = cached[Target(p)],
                              !.at = IF required THEN "fetch" ELSE "unsigned_fetch",
                              !.stale = FALSE])
  /\ UNCHANGED <<gds, required, files, faults>>

\* GET artifact
FetchArtifact(p) ==
  /\ cycle[p].at = "fetch"
  /\ LET t == Target(p)
         a == [signed |-> TRUE, version |-> version[t],
               revision |-> published[t].revision, crl |-> published[t].crl]
     IN  Goes(p, IF published[t].revision = 0
                 THEN [cycle[p] EXCEPT !.at = "reject"]
                 ELSE [cycle[p] EXCEPT !.at = "signature", !.document = a])
  /\ UNCHANGED <<gds, required, files, faults>>

Replayed(r) == r.before.signed /\ Older(r.document, r.before)

\* Mutant: any verified artifact will do.
AcceptsAnyVerified(r, signed) == r.document.revision = signed

\* The signature has to be that of the artifact, and the artifact not older
\* than the one that was cached.
Accepts(r, signed) == r.document.revision = signed /\ ~ Replayed(r)

\* GET artifact.sig, and the checks
FetchSignature(p) ==
  /\ cycle[p].at = "signature"
  /\ LET r == cycle[p]
     IN  Goes(p, [r EXCEPT !.at =
                    IF Accepts(r, published[Target(p)].signed)
                    THEN IF r.written THEN "report" ELSE "pki"
                    ELSE "reject"])
  /\ UNCHANGED <<gds, required, files, faults>>

\* Mutant: the bundle is written from the list that was cached.
WritePkiOfPrevious(p) ==
  /\ cycle[p].at = "pki"
  /\ Writes(p, [cycle[p] EXCEPT !.at = "report", !.written = TRUE])
  /\ crl' = [serials |-> cycle[p].before.crl, source |-> Target(p)]
  /\ spoiled' = Overlaps(p)
  /\ UNCHANGED <<gds, required, cached, reported, faults>>

\* safe_write_pki_bundle, once in a cycle
WritePki(p) ==
  /\ cycle[p].at = "pki"
  /\ Writes(p, [cycle[p] EXCEPT !.at = "report", !.written = TRUE])
  /\ crl' = [serials |-> cycle[p].document.crl, source |-> Target(p)]
  /\ spoiled' = Overlaps(p)
  /\ UNCHANGED <<gds, required, cached, reported, faults>>

\* The report of a failed target compares nothing; the cached list stays.
Reject(p) ==
  /\ cycle[p].at = "reject"
  /\ Goes(p, Turn(cycle[p]))
  /\ UNCHANGED <<gds, required, files, faults>>

\* What a report compares with: only a signed list, if lists are signed.
Baseline(d) == IF required /\ ~ d.signed THEN Nothing ELSE d

\* A report of what separates the two; it serves as long as the first is cached.
WithDifference(t, before, after) ==
  IF Baseline(before) = Baseline(cached[t])
  THEN [reported EXCEPT ![t] = @ \cup {after}]
  ELSE reported

\* Mutant: the report is written after the list.
ReportLater(p) ==
  /\ cycle[p].at = "report"
  /\ Goes(p, [cycle[p] EXCEPT !.at = "list"])
  /\ UNCHANGED <<gds, required, files, faults>>

\* The report of the difference, before the difference is made.
Report(p) ==
  /\ cycle[p].at = "report"
  /\ Goes(p, [cycle[p] EXCEPT !.at = "list"])
  /\ reported' = WithDifference(Target(p), cycle[p].before, cycle[p].document)
  /\ UNCHANGED <<gds, required, cached, crl, spoiled, faults>>

WriteList(p) ==
  /\ cycle[p].at = "list"
  /\ Writes(p, Turn(cycle[p]))
  /\ cached' = [cached EXCEPT ![Target(p)] = cycle[p].document]
  /\ reported' = [reported EXCEPT ![Target(p)] = {}]
  /\ spoiled' = (spoiled \/ Overlaps(p))
  /\ UNCHANGED <<gds, required, crl, faults>>

(***************************************************************************)
(* Without signatures: the CRL of the certificate authority first, then    *)
(* the lists.                                                              *)
(***************************************************************************)
FetchCrl(p) ==
  /\ cycle[p].at = "unsigned_crl"
  /\ Goes(p, [cycle[p] EXCEPT !.at = "unsigned_pki", !.document.crl = revoked])
  /\ UNCHANGED <<gds, required, files, faults>>

WriteCrl(p) ==
  /\ cycle[p].at = "unsigned_pki"
  /\ Writes(p, [Idle EXCEPT !.at = "load"])
  /\ crl' = [serials |-> cycle[p].document.crl, source |-> None]
  /\ UNCHANGED <<gds, required, cached, reported, spoiled, faults>>

FetchList(p) ==
  /\ cycle[p].at = "unsigned_fetch"
  /\ Goes(p, IF latest[Target(p)] = 0
             THEN Turn(cycle[p])
             ELSE [cycle[p] EXCEPT !.at = "report",
                                   !.document = [Nothing EXCEPT !.version = latest[Target(p)]]])
  /\ UNCHANGED <<gds, required, files, faults>>

(***************************************************************************)
(* Failures.                                                               *)
(***************************************************************************)
\* A request fails, the artifact has expired, or pki/ cannot be written: the
\* target is given up, the cycle goes on.
TargetFails(p) ==
  /\ Fault
  /\ cycle[p].at \in {"fetch", "signature", "pki", "unsigned_fetch"}
  /\ Goes(p, [cycle[p] EXCEPT !.at = "reject"])
  /\ UNCHANGED <<gds, required, files>>

\* A report or a list cannot be written, or the process dies: the cycle ends.
CycleFails(p) ==
  /\ Fault
  /\ cycle[p].at # "idle"
  /\ Goes(p, Idle)
  /\ UNCHANGED <<gds, required, files>>

SignedTurn(p) ==
  \/ LoadPrevious(p) \/ FetchArtifact(p) \/ FetchSignature(p) \/ WritePki(p)
  \/ Reject(p) \/ Report(p) \/ WriteList(p)

UnsignedTurn(p) ==
  \/ LoadPrevious(p) \/ FetchList(p) \/ Reject(p) \/ Report(p) \/ WriteList(p)

Step(p) == Begin(p) \/ SignedTurn(p) \/ FetchCrl(p) \/ WriteCrl(p) \/ UnsignedTurn(p)

Loop == Step(Daemon)

\* Its report of what has been revoked changes nothing.
PullRevocation(p) == Step(p)

Next ==
  \/ \E c \in Certs : Revoke(c)
  \/ \E t \in Targets :
       \/ BuildList(t)
       \/ \E serials \in SUBSET Certs, v \in 1 .. latest[t] : Publish(t, serials, v)
  \/ Reconfigure
  \/ Loop
  \/ \E p \in Procs \ {Daemon} : PullRevocation(p)
  \/ \E p \in Procs : TargetFails(p) \/ CycleFails(p)

Spec == Init /\ [][Next]_vars

\* The daemon's loop goes on; nobody need run a command, or finish it.
FairSpec == Spec /\ WF_vars(Loop)

(***************************************************************************)
(* Properties.                                                             *)
(***************************************************************************)
\* A process whose turn was not overtaken never puts an older signed list in
\* the place of a newer one, though GDS may publish an older list later.
NoReplay ==
  [][\A p \in Procs :
       WriteList(p) /\ ~ cycle[p].stale =>
         LET t == Target(p)
         IN  cached[t].signed /\ cached'[t].signed => ~ Older(cached'[t], cached[t])]_vars

\* Every list that replaces another was reported before, as the difference
\* from just that other list: whatever dies in between loses no change.
ChangeIsReported ==
  [][\A p \in Procs :
       WriteList(p) /\ ~ cycle[p].stale => cycle[p].document \in reported[Target(p)]]_vars

\* crl.der is never older than the list it came with: a list is accepted
\* only after its CRL is in force.
CrlNotBehindItsList ==
  \A t \in Targets : crl.source = t /\ cached[t].signed /\ ~ spoiled => cached[t].crl \subseteq crl.serials

\* When GDS has come to rest with its newest lists published, the daemon gets
\* every artifact into the cache, and the CRL of the first one into force.
Quiet == required /\ version = latest

InStep ==
  /\ \A t \in Targets : cached[t].revision = published[t].revision
  /\ \A i \in DOMAIN Order :
       published[Order[i]].revision > 0 /\ (\A k \in 1 .. i - 1 : published[Order[k]].revision = 0) =>
         crl.serials = published[Order[i]].crl

CatchesUp == <>[]Quiet => <>[]InStep
===============================================================================
