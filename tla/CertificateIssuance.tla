-------------------------- MODULE CertificateIssuance --------------------------
(***************************************************************************)
(* Issuing a certificate package from a CSR: the duplicate check, the      *)
(* request row, the Vault signature, the certificate row, the package of   *)
(* the next generation.  Each database access is a transaction of its own, *)
(* so calls on other threads run between any two of them.                  *)
(***************************************************************************)
EXTENDS Naturals, FiniteSets

CONSTANTS
  Calls,      \* calls of issue_certificate_package, by their request ids
  Csrs,       \* CSRs, by fingerprint
  Lines,      \* (application, profile) pairs
  LineOf,     \* the application and profile a call names
  Kinds,      \* the endpoints in use: enrollment over REST or of a component,
              \* and renewal
  None,
  MaxFaults   \* bound: calls that an exception or a crash cuts short

ASSUME IssuanceAssumption ==
  /\ LineOf \in [Calls -> Lines]
  /\ Kinds \subseteq {"rest", "component", "renewal"}
  /\ None \notin Calls \cup Csrs
  /\ MaxFaults \in Nat

VARIABLES
  \* the database
  status,      \* certificate_requests.status
  stored,      \* the calls whose certificate is in table certificates
  generation,  \* certificate_packages.generation of the call's package, or 0
  supersedes,  \* its supersedes_package_id
  \* the calls
  pc, csr, kind,
  next,        \* the generation it is about to store
  previous,    \* the package it is about to supersede
  answer,
  enrolled,    \* its CSR had a certificate when the call began
  faults

tables == <<status, stored, generation, supersedes>>
locals == <<csr, kind, next, previous, enrolled>>
vars   == <<tables, pc, locals, answer, faults>>

Live      == {"VALIDATED", "ISSUED", "PACKAGED"}
Abandoned == {"FAILED", "REJECTED", "DRY_RUN_VALIDATED", "DRY_RUN_REJECTED"}

Steps == {"new", "check", "insert", "sign", "fail", "store", "issued", "lineage",
          "package", "packaged", "respond", "done"}

TypeOK ==
  /\ status \in [Calls -> Live \cup Abandoned \cup {"none"}]
  /\ stored \subseteq Calls
  /\ generation \in [Calls -> Nat]
  /\ supersedes \in [Calls -> Calls \cup {None}]
  /\ pc \in [Calls -> Steps]
  /\ csr \in [Calls -> Csrs \cup {None}]
  /\ kind \in [Calls -> {"rest", "component", "renewal"}]
  /\ next \in [Calls -> Nat]
  /\ previous \in [Calls -> Calls \cup {None}]
  /\ answer \in [Calls -> {"none", "ok", "error", "duplicate"}]
  /\ enrolled \in [Calls -> BOOLEAN]
  /\ faults \in Nat

Init ==
  /\ status = [c \in Calls |-> "none"]
  /\ stored = {}
  /\ generation = [c \in Calls |-> 0]
  /\ supersedes = [c \in Calls |-> None]
  /\ pc = [c \in Calls |-> "new"]
  /\ csr = [c \in Calls |-> None]
  /\ kind = [c \in Calls |-> "rest"]
  /\ next = [c \in Calls |-> 0]
  /\ previous = [c \in Calls |-> None]
  /\ answer = [c \in Calls |-> "none"]
  /\ enrolled = [c \in Calls |-> FALSE]
  /\ faults = 0

Transition(c, from, to) ==
  /\ pc[c] = from
  /\ pc' = [pc EXCEPT ![c] = to]

\* The call ends, and its client is told so.
Answer(c, from, a) ==
  /\ Transition(c, from, "done")
  /\ answer' = [answer EXCEPT ![c] = a]

SetStatus(c, s) == status' = [status EXCEPT ![c] = s]

\* The packages of a line.
PackagesOf(l) == {c \in Calls : generation[c] > 0 /\ LineOf[c] = l}

(***************************************************************************)
(* The steps of a call.                                                    *)
(***************************************************************************)
Begin(c, s, k) ==
  /\ Transition(c, "new", "check")
  /\ csr' = [csr EXCEPT ![c] = s]
  /\ kind' = [kind EXCEPT ![c] = k]
  /\ enrolled' = [enrolled EXCEPT ![c] = \E d \in stored : csr[d] = s]
  /\ UNCHANGED <<tables, next, previous, answer, faults>>

\* Mutant: a packaged request counts as finished.
OpenRequest(s) == \E d \in Calls : csr[d] = s /\ status[d] \in {"VALIDATED", "ISSUED"}

\* get_certificate_request_by_csr
LiveRequest(s) == \E d \in Calls : csr[d] = s /\ status[d] \in Live

CheckDuplicate(c) ==
  /\ \/ /\ LiveRequest(csr[c]) /\ kind[c] # "renewal"
        /\ Answer(c, "check", "duplicate")
     \/ /\ ~ LiveRequest(csr[c]) \/ kind[c] = "renewal"
        /\ Transition(c, "check", "insert")
        /\ UNCHANGED answer
  /\ UNCHANGED <<tables, locals, faults>>

\* The CSR fails the profile's validation, or passes it.
InsertRequest(c) ==
  /\ \/ SetStatus(c, "REJECTED") /\ Answer(c, "insert", "error")
     \/ /\ SetStatus(c, "VALIDATED")
        /\ Transition(c, "insert", "sign")
        /\ UNCHANGED answer
  /\ UNCHANGED <<stored, generation, supersedes, locals, faults>>

\* Vault signs; it is sealed, refuses, or its answer is lost.
Sign(c) ==
  /\ Transition(c, "sign", "store") \/ Transition(c, "sign", "fail")
  /\ UNCHANGED <<tables, locals, answer, faults>>

SignFailed(c) ==
  /\ SetStatus(c, "FAILED")
  /\ Answer(c, "fail", "error")
  /\ UNCHANGED <<stored, generation, supersedes, locals, faults>>

StoreCertificate(c) ==
  /\ Transition(c, "store", "issued")
  /\ stored' = stored \cup {c}
  /\ UNCHANGED <<status, generation, supersedes, locals, answer, faults>>

MarkIssued(c) ==
  /\ Transition(c, "issued", "lineage")
  /\ SetStatus(c, "ISSUED")
  /\ UNCHANGED <<stored, generation, supersedes, locals, answer, faults>>

\* The newest package of the line: ORDER BY generation DESC LIMIT 1.
Newest(l) == {p \in PackagesOf(l) :
                \A q \in PackagesOf(l) : generation[q] <= generation[p]}

\* Mutant: the columns of the row are taken in the wrong order.
ReadLineageSwapped(c) ==
  /\ Transition(c, "lineage", "package")
  /\ \/ /\ PackagesOf(LineOf[c]) = {}
        /\ next' = [next EXCEPT ![c] = 1]
        /\ UNCHANGED previous
     \/ \E p \in Newest(LineOf[c]) :
          /\ next' = [next EXCEPT ![c] = generation[p] + 1]
          /\ previous' = [previous EXCEPT ![c] = generation[p]]
  /\ UNCHANGED <<tables, csr, kind, enrolled, answer, faults>>

ReadLineage(c) ==
  /\ Transition(c, "lineage", "package")
  /\ \/ /\ PackagesOf(LineOf[c]) = {}
        /\ next' = [next EXCEPT ![c] = 1]
        /\ UNCHANGED previous
     \/ \E p \in Newest(LineOf[c]) :
          /\ next' = [next EXCEPT ![c] = generation[p] + 1]
          /\ previous' = [previous EXCEPT ![c] = p]
  /\ UNCHANGED <<tables, csr, kind, enrolled, answer, faults>>

\* Mutant: the table has no such constraint.
FreeAlways(l, g) == TRUE

\* UNIQUE (application_id, profile_name, generation)
Free(l, g) == \A p \in PackagesOf(l) : generation[p] # g

\* The signed manifest carries the generation that was read; the insert that
\* finds it taken raises, and the request stays as it is.
StorePackage(c) ==
  \/ /\ Transition(c, "package", "packaged")
     /\ Free(LineOf[c], next[c])
     /\ generation' = [generation EXCEPT ![c] = next[c]]
     /\ supersedes' = [supersedes EXCEPT ![c] = previous[c]]
     /\ UNCHANGED <<status, stored, locals, answer, faults>>
  \/ /\ Answer(c, "package", "error")
     /\ ~ Free(LineOf[c], next[c])
     /\ UNCHANGED <<tables, locals, faults>>

MarkPackaged(c) ==
  /\ Transition(c, "packaged", "respond")
  /\ SetStatus(c, "PACKAGED")
  /\ UNCHANGED <<stored, generation, supersedes, locals, answer, faults>>

\* A component enrollment or a renewal also collects the trust material, and
\* rebuilds its consumers' artifacts: when that fails the client gets an error
\* although the package exists.
Respond(c) ==
  /\ \/ Answer(c, "respond", "ok")
     \/ kind[c] # "rest" /\ Answer(c, "respond", "error")
  /\ UNCHANGED <<tables, locals, faults>>

\* CreateSigningRequestDryRun: nothing but a request row.
DryRun(c, s) ==
  /\ Answer(c, "new", "ok")
  /\ csr' = [csr EXCEPT ![c] = s]
  /\ \E r \in {"DRY_RUN_VALIDATED", "DRY_RUN_REJECTED"} : SetStatus(c, r)
  /\ UNCHANGED <<stored, generation, supersedes, kind, next, previous, enrolled, faults>>

\* Mutant: a catch-all marks the request FAILED.
AbortFailed(c) ==
  /\ faults < MaxFaults
  /\ faults' = faults + 1
  /\ pc[c] \notin {"new", "check", "insert", "done"}
  /\ Answer(c, pc[c], "error")
  /\ SetStatus(c, "FAILED")
  /\ UNCHANGED <<stored, generation, supersedes, locals>>

\* An exception no handler expects, or a crash of the process, ends the call
\* where it is.
Abort(c) ==
  /\ faults < MaxFaults
  /\ faults' = faults + 1
  /\ pc[c] \notin {"new", "done"}
  /\ Answer(c, pc[c], "error")
  /\ UNCHANGED <<tables, locals>>

Step(c) ==
  \/ CheckDuplicate(c) \/ InsertRequest(c) \/ Sign(c) \/ SignFailed(c)
  \/ StoreCertificate(c) \/ MarkIssued(c) \/ ReadLineage(c) \/ StorePackage(c)
  \/ MarkPackaged(c) \/ Respond(c)

Next ==
  \E c \in Calls :
    \/ \E s \in Csrs : \/ \E k \in Kinds : Begin(c, s, k)
                       \/ DryRun(c, s)
    \/ Step(c)
    \/ Abort(c)

Spec == Init /\ [][Next]_vars

(***************************************************************************)
(* Properties.                                                             *)
(***************************************************************************)
\* The packages of an application and profile form a chain: each supersedes the
\* only package of the generation before its own, although the lineage is read
\* and stored in different transactions.
LineageIsAChain ==
  \A c \in Calls : generation[c] > 0 =>
    /\ \A d \in PackagesOf(LineOf[c]) : generation[d] = generation[c] => d = c
    /\ IF generation[c] = 1
         THEN supersedes[c] = None
         ELSE \E d \in PackagesOf(LineOf[c]) : /\ supersedes[c] = d
                                                    /\ generation[d] + 1 = generation[c]

\* A request whose status allows its CSR to be used again has no certificate,
\* wherever its call was cut short.
AbandonedHasNoCertificate ==
  \A c \in Calls : status[c] \in Abandoned => c \notin stored

\* What a request's status claims is in the database.
StatusIsBacked ==
  \A c \in Calls : /\ status[c] \in {"ISSUED", "PACKAGED"} => c \in stored
                   /\ status[c] = "PACKAGED" => generation[c] > 0

\* An enrollment that begins when its CSR already has a certificate does not
\* get a second one, however the first call ended.
EnrolledCsrIsRefused ==
  \A c \in Calls : enrolled[c] /\ kind[c] # "renewal" => c \notin stored

\* The packages of a line in the order of their generations.
Lineage ==
  [l \in Lines |-> [g \in 1 .. Cardinality(PackagesOf(l)) |->
                      IF \E c \in PackagesOf(l) : generation[c] = g
                        THEN CHOOSE c \in PackagesOf(l) : generation[c] = g
                        ELSE None]]

Chains == INSTANCE PackageLineage WITH Packages <- Calls, chain <- Lineage

\* Issuance implements a chain of packages that only grows at its end.
ImplementsLineage == Chains!Spec
===============================================================================
