--------------------------- MODULE ComponentApply ---------------------------
(***************************************************************************)
(* The agent's component commands for one target: --create-approval,       *)
(* --component-enroll, --component-pull-trust and --component-apply-trust. *)
(* Every command is a process of its own.  They share, without a lock, the *)
(* cached trust material, the enrollment result, the approvals and the     *)
(* files of the component's runtime.                                       *)
(*                                                                         *)
(* A file of the runtime holds the trust of one revision of GDS; a CRL     *)
(* file is past its nextUpdate when its revision is at most `expired'.     *)
(***************************************************************************)
EXTENDS Naturals, Sequences, FiniteSets

CONSTANTS
  Procs,          \* processes that run commands
  Files,          \* files of the runtime's certificate and CRL directories
  Kind,           \* Kind[f]: what f is, see Kinds
  Legacy,         \* files the installation had before the agent
  Compat,         \* files of the directory ApplCerts/issuers/crl
  Rootless,       \* revisions whose CRL bundle has no root CRL
  Operators,
  Signed,         \* the approvals operators may sign
  ApprovalRequired, EmergencyMode, DualApproval, AutoApply, \* configuration
  MaxRevision, MaxApprovals,
  MaxEvents       \* bound: what time, operators and failures do

Kinds == {"root", "intermediate", \* root_ca.crl, vault_intermediate.crl
          "issuer", "trusted",    \* current.crl of the issuer and of the trusted directory
          "alias",                \* the three names with the suffix .crl.b64
          "leftover",             \* current.crl.crl
          "local",                \* a CRL with any other name
          "chain", "peers"}       \* CA certificates, allowed peer certificates

Approval == [by : Operators, emergency : BOOLEAN]

ASSUME ComponentAssumption ==
  /\ Procs # {} /\ IsFiniteSet(Files)
  /\ Kind \in [Files -> Kinds]
  /\ Compat \subseteq Files
  /\ \A f \in Legacy : f \in Files /\ Kind[f] \in {"alias", "local"}
  /\ MaxRevision \in Nat \ {0}
  /\ Rootless \subseteq 1 .. MaxRevision
  /\ Signed \subseteq Approval
  /\ ApprovalRequired \in BOOLEAN /\ EmergencyMode \in BOOLEAN
  /\ DualApproval \in BOOLEAN /\ AutoApply \in BOOLEAN
  /\ MaxApprovals \in Nat /\ MaxEvents \in Nat

Of(kinds)  == {f \in Files : Kind[f] \in kinds}
Lists      == Of(Kinds \ {"chain", "peers"})               \* *.crl, *.crl.b64
Controlled == Of({"root", "intermediate", "issuer", "trusted", "alias"})
Foreign    == Lists \ Controlled
Packaged   == Of({"chain", "alias", "leftover", "trusted"})

Revisions == 0 .. MaxRevision                               \* 0: there is none
Commands  == {"pull", "enroll", "auto", "trust_only", "certificate_and_trust"}

VARIABLES
  gds,        \* the revision GDS distributes
  expired,    \* the revisions up to here are past nextUpdate
  calendar,   \* within the maintenance window and in no blackout
  approvals,  \* the approvals that are not expired, oldest first
  cached,     \* trust-material.json
  package,    \* enrollment-result.json
  key,        \* the component has a private key
  disk,       \* [Files -> Revisions]
  run,        \* [Procs -> what a process is doing]
  tangled,    \* processes overlapped, or a package was applied by name
  events

around == <<gds, expired, calendar, approvals>>
caches == <<cached, package, key>>
vars   == <<around, caches, disk, run, tangled, events>>

Nothing == [f \in Files |-> 0]

Idle == [at |-> "idle", what |-> "pull", doc |-> 0, todo |-> {},
         before |-> Nothing, kept |-> Nothing, clean |-> TRUE]

Places  == {"idle", "request", "keep", "load", "gate", "chain", "snapshot", "delete",
            "write", "validate", "restore", "refused", "peers", "copy", "applied"}
Mutates == {"chain", "snapshot", "delete", "write", "validate", "restore", "refused",
            "peers", "copy", "applied"}

Runs == [at : Places, what : Commands, doc : 0 .. gds, todo : SUBSET Files,
         before : [Files -> 0 .. gds], kept : [Files -> 0 .. gds],
         clean : BOOLEAN]

TypeOK ==
  /\ gds \in 1 .. MaxRevision /\ expired \in 0 .. gds
  /\ calendar \in BOOLEAN
  /\ approvals \in Seq(Approval)
  /\ cached \in 0 .. gds /\ package \in 0 .. gds /\ key \in BOOLEAN
  /\ disk \in [Files -> 0 .. gds]
  /\ run \in [Procs -> Runs]
  /\ \A p \in Procs : run[p].at \in Mutates \cup {"gate"} =>
       run[p].doc # 0 /\ run[p].what \in {"trust_only", "certificate_and_trust"}
  /\ tangled \in BOOLEAN
  /\ events \in 0 .. MaxEvents

Init ==
  /\ gds = 1 /\ expired = 0 /\ calendar = TRUE /\ approvals = <<>>
  /\ cached = 0 /\ package = 0 /\ key = FALSE
  /\ disk = [f \in Files |-> IF f \in Legacy THEN 1 ELSE 0]
  /\ run = [p \in Procs |-> Idle]
  /\ tangled = FALSE /\ events = 0

Event == /\ events < MaxEvents
         /\ events' = events + 1

Set(p, r) == run' = [run EXCEPT ![p] = r]

(***************************************************************************)
(* What happens around the commands.                                       *)
(***************************************************************************)
Publish ==
  /\ gds < MaxRevision
  /\ gds' = gds + 1
  /\ UNCHANGED <<expired, calendar, approvals, caches, disk, run, tangled, events>>

\* The next update of the oldest CRLs passes.
Age ==
  /\ Event
  /\ expired < gds
  /\ expired' = expired + 1
  /\ UNCHANGED <<gds, calendar, approvals, caches, disk, run, tangled>>

ChangeCalendar ==
  /\ Event
  /\ calendar' = ~calendar
  /\ UNCHANGED <<gds, expired, approvals, caches, disk, run, tangled>>

\* create_signed_approval_file; a file that denies is never read again.
CreateApproval(a) ==
  /\ Len(approvals) < MaxApprovals
  /\ approvals' = Append(approvals, a)
  /\ UNCHANGED <<gds, expired, calendar, caches, disk, run, tangled, events>>

Without(s, i) == [j \in 1 .. Len(s) - 1 |-> IF j < i THEN s[j] ELSE s[j + 1]]

\* Each approval has a lifetime of its own.
ApprovalExpires(i) ==
  /\ Event
  /\ approvals' = Without(approvals, i)
  /\ UNCHANGED <<gds, expired, calendar, caches, disk, run, tangled>>

(***************************************************************************)
(* The gate: load_active_approval_for_target, evaluate_activation_gate.    *)
(***************************************************************************)
Newest  == {i \in DOMAIN approvals : \A j \in DOMAIN approvals : j <= i}
Counted == IF DualApproval THEN DOMAIN approvals ELSE Newest
OperatorsOf(S) == {approvals[i].by : i \in S}

\* The target's approval level in the maintenance policy: single or dual.
Required == IF DualApproval THEN 2 ELSE 1

\* Mutant: two approvals, whoever signed them.
AgreedByCount == Cardinality(Counted) >= Required

Agreed == Cardinality(OperatorsOf(Counted)) >= Required

\* Mutant: in emergency mode any agreement is an override.
OverrideUnasked == Agreed

\* An override counts only with the agreement it comes with.
Override == Agreed /\ \E i \in Counted : approvals[i].emergency

GateOpens == /\ ApprovalRequired => Agreed
             /\ calendar \/ (EmergencyMode /\ Override)

\* Where approvals are not required, the gate for a key reads none.
KeyGateOpens == GateOpens /\ (ApprovalRequired \/ calendar)

(***************************************************************************)
(* Starting and ending a command.                                          *)
(***************************************************************************)
Others(p) == {q \in Procs \ {p} : run[q].at # "idle"}

Disturbed(rs, ps) == [q \in Procs |-> IF q \in ps THEN [rs[q] EXCEPT !.clean = FALSE, !.before = Nothing] ELSE rs[q]]

\* The first enrollment creates the private key its CSR is signed with.
HoldsKey(w) == key \/ w = "enroll"

\* The gate is asked before a key is created.
Begin(p, w) ==
  /\ run[p].at = "idle"
  /\ w = "enroll" => key \/ KeyGateOpens
  /\ key' = HoldsKey(w)
  /\ run' = Disturbed([run EXCEPT ![p] =
              [Idle EXCEPT !.at = IF w \in {"pull", "enroll"} THEN "request" ELSE "load",
                           !.what = w, !.clean = (Others(p) = {})]], Others(p))
  /\ tangled' = (tangled \/ Others(p) # {} \/ w = "certificate_and_trust")
  /\ IF Others(p) = {} THEN UNCHANGED events ELSE Event
  /\ UNCHANGED <<around, cached, package, disk>>

Finish(p) ==
  /\ run[p].at \in {"refused", "applied"}
  /\ Set(p, Idle)
  /\ UNCHANGED <<around, caches, disk, tangled, events>>

\* The process is killed, or a request, a verification or a write raises.
Ends(p) ==
  /\ run[p].at # "idle"
  /\ Event
  /\ Set(p, Idle)
  /\ UNCHANGED <<around, caches, disk, tangled>>

\* An operator renews a CRL of the installation's own.
RenewLocal(f) ==
  /\ Event
  /\ Kind[f] = "local"
  /\ disk' = [disk EXCEPT ![f] = gds]
  /\ run' = Disturbed(run, {q \in Procs : run[q].at # "idle"})
  /\ UNCHANGED <<around, caches, tangled>>

(***************************************************************************)
(* Pulling trust material and enrolling: the answer, then the cache file.  *)
(***************************************************************************)
Request(p) ==
  /\ run[p].at = "request"
  /\ Set(p, [run[p] EXCEPT !.at = "keep", !.doc = gds])
  /\ UNCHANGED <<around, caches, disk, tangled, events>>

KeepPackage(p) ==
  /\ run[p].at = "keep" /\ run[p].what = "enroll"
  /\ package' = run[p].doc
  /\ Set(p, Idle)
  /\ UNCHANGED <<around, cached, key, disk, tangled, events>>

KeepTrust(p) ==
  /\ run[p].at = "keep" /\ run[p].what = "pull"
  /\ cached' = run[p].doc
  /\ Set(p, IF AutoApply THEN [run[p] EXCEPT !.at = "load", !.what = "trust_only"] ELSE Idle)
  /\ UNCHANGED <<around, package, key, disk, tangled, events>>

(***************************************************************************)
(* component_apply_trust_once                                              *)
(***************************************************************************)
\* Mutant: the mode auto applies the package where there is one.
PackageFirst(w) == IF w = "auto" THEN IF package # 0 THEN "certificate_and_trust" ELSE "trust_only"
                   ELSE w

Mode(w) == IF w = "auto" THEN IF cached # 0 THEN "trust_only" ELSE "certificate_and_trust"
           ELSE w

Material(mode) == IF mode = "trust_only" THEN cached ELSE package

\* Mutant: a missing cache file is not an error.
LoadUnchecked(p) ==
  /\ run[p].at = "load"
  /\ LET mode == Mode(run[p].what)
     IN  Set(p, [run[p] EXCEPT !.at = "gate", !.what = mode, !.doc = Material(mode)])
  /\ UNCHANGED <<around, caches, disk, tangled, events>>

Load(p) ==
  /\ run[p].at = "load"
  /\ LET mode == Mode(run[p].what)
     IN  Set(p, IF Material(mode) = 0 THEN Idle
                ELSE [run[p] EXCEPT !.at = "gate", !.what = mode, !.doc = Material(mode)])
  /\ UNCHANGED <<around, caches, disk, tangled, events>>

\* What a run that stays clean will be compared with.
Undisturbed(p) == IF run[p].clean THEN disk ELSE Nothing

\* A package is staged in directories of its own: expired, it goes no further.
StagePackage(p) ==
  /\ run[p].what = "certificate_and_trust"
  /\ run[p].doc > expired
  /\ Set(p, [run[p] EXCEPT !.at = "copy", !.before = Undisturbed(p), !.todo = Packaged])

PassGate(p) ==
  /\ run[p].at = "gate"
  /\ GateOpens
  /\ \/ /\ run[p].what = "trust_only"
        /\ Set(p, [run[p] EXCEPT !.at = "chain", !.before = Undisturbed(p)])
     \/ StagePackage(p)
  /\ UNCHANGED <<around, caches, disk, tangled, events>>

\* The gate is closed, the staged CRL is expired, or all is installed already.
NothingToDo(p) ==
  /\ run[p].at = "gate"
  /\ \/ ~GateOpens
     \/ /\ run[p].what = "certificate_and_trust"
        /\ run[p].doc <= expired \/ \A f \in Packaged : disk[f] = run[p].doc
  /\ Set(p, Idle)
  /\ UNCHANGED <<around, caches, disk, tangled, events>>

\* The order in which the code handles the files.
Rank(f) == CASE Kind[f] \in {"chain"}             -> 0
             [] Kind[f] \in {"root", "alias"}     -> 1
             [] Kind[f] \in {"intermediate", "leftover"} -> 2
             [] Kind[f] \in {"issuer"}            -> 3
             [] OTHER                             -> 4

NextOf(S) == CHOOSE f \in S : \A g \in S : Rank(f) <= Rank(g)

\* activate_package_runtime copies the staged files.
Copy(p) ==
  /\ run[p].at = "copy"
  /\ IF run[p].todo = {}
     THEN Set(p, [run[p] EXCEPT !.at = "applied"]) /\ UNCHANGED disk
     ELSE LET f == NextOf(run[p].todo)
          IN  /\ disk' = [disk EXCEPT ![f] = run[p].doc]
              /\ Set(p, [run[p] EXCEPT !.todo = @ \ {f}])
  /\ UNCHANGED <<around, caches, tangled, events>>

(***************************************************************************)
(* _write_target_stage_material                                            *)
(***************************************************************************)
WriteAll(kinds, r) == [f \in Files |-> IF Kind[f] \in kinds THEN r ELSE disk[f]]

WriteChain(p) ==
  /\ run[p].at = "chain"
  /\ disk' = WriteAll({"chain"}, run[p].doc)
  /\ Set(p, [run[p] EXCEPT !.at = "snapshot"])
  /\ UNCHANGED <<around, caches, tangled, events>>

Snapshot(p, files) ==
  /\ run[p].at = "snapshot"
  /\ \E unreadable \in {{}} \cup {{f} : f \in files} :
       /\ IF unreadable = {} THEN UNCHANGED events ELSE Event
       /\ Set(p, [run[p] EXCEPT !.at = "delete",
                   !.clean = @ /\ unreadable = {},
                   !.kept = [f \in Files |-> IF f \in files \ unreadable THEN disk[f] ELSE 0],
                   !.todo = {f \in Controlled : disk[f] # 0}])
  /\ UNCHANGED <<around, caches, disk, tangled>>

\* Mutant: the snapshot takes the files *.crl only.
SnapshotCrls(p) == Snapshot(p, Lists \ Of({"alias"}))

\* _snapshot_crl_dirs leaves out a file it cannot read.
SnapshotLists(p) == Snapshot(p, Lists)

Carries(r) == Of(IF r \in Rootless THEN {"intermediate", "issuer", "trusted"}
                 ELSE {"root", "intermediate", "issuer", "trusted"})

\* A file that cannot be removed is logged and stays.
Delete(p) ==
  /\ run[p].at = "delete" /\ run[p].todo # {}
  /\ LET f == NextOf(run[p].todo)
     IN  \/ /\ disk' = [disk EXCEPT ![f] = 0]
            /\ Set(p, [run[p] EXCEPT !.todo = @ \ {f}])
            /\ UNCHANGED events
         \/ /\ Event
            /\ Set(p, [run[p] EXCEPT !.todo = @ \ {f}, !.clean = FALSE])
            /\ UNCHANGED disk
  /\ UNCHANGED <<around, caches, tangled>>

DeleteEnds(p) ==
  /\ run[p].at = "delete" /\ run[p].todo = {}
  /\ Set(p, [run[p] EXCEPT !.at = "write", !.todo = Carries(run[p].doc)])
  /\ UNCHANGED <<around, caches, disk, tangled, events>>

\* optional_atomic_write_bytes gives up on a file of the compatibility directory.
Write(p) ==
  /\ run[p].at = "write" /\ run[p].todo # {}
  /\ LET f == NextOf(run[p].todo)
     IN  \/ /\ disk' = [disk EXCEPT ![f] = run[p].doc]
            /\ Set(p, [run[p] EXCEPT !.todo = @ \ {f}])
            /\ UNCHANGED events
         \/ /\ f \in Compat
            /\ Event
            /\ Set(p, [run[p] EXCEPT !.todo = @ \ {f}, !.clean = FALSE])
            /\ UNCHANGED disk
  /\ UNCHANGED <<around, caches, tangled>>

WriteEnds(p) ==
  /\ run[p].at = "write" /\ run[p].todo = {}
  /\ Set(p, [run[p] EXCEPT !.at = "validate"])
  /\ UNCHANGED <<around, caches, disk, tangled, events>>

Problems == {f \in Lists : disk[f] # 0 /\ disk[f] <= expired}

Validate(p) ==
  /\ run[p].at = "validate"
  /\ Set(p, IF Problems = {} THEN [run[p] EXCEPT !.at = "peers"]
            ELSE [run[p] EXCEPT !.at = "restore",
                                !.todo = {f \in Files : run[p].kept[f] # 0}])
  /\ UNCHANGED <<around, caches, disk, tangled, events>>

\* A file that cannot be written is logged; files that were not there stay.
Restore(p) ==
  /\ run[p].at = "restore" /\ run[p].todo # {}
  /\ LET f == NextOf(run[p].todo)
     IN  \/ /\ disk' = [disk EXCEPT ![f] = run[p].kept[f]]
            /\ Set(p, [run[p] EXCEPT !.todo = @ \ {f}])
            /\ UNCHANGED events
         \/ /\ Event
            /\ Set(p, [run[p] EXCEPT !.todo = @ \ {f}, !.clean = FALSE])
            /\ UNCHANGED disk
  /\ UNCHANGED <<around, caches, tangled>>

RestoreEnds(p) ==
  /\ run[p].at = "restore" /\ run[p].todo = {}
  /\ Set(p, [run[p] EXCEPT !.at = "refused"])
  /\ UNCHANGED <<around, caches, disk, tangled, events>>

WritePeers(p) ==
  /\ run[p].at = "peers"
  /\ disk' = WriteAll({"peers"}, run[p].doc)
  /\ Set(p, [run[p] EXCEPT !.at = "applied"])
  /\ UNCHANGED <<around, caches, tangled, events>>

Around ==
  \/ Publish
  \/ Age
  \/ ChangeCalendar
  \/ \E a \in Signed : CreateApproval(a)
  \/ \E i \in DOMAIN approvals : ApprovalExpires(i)
  \/ \E f \in Files : RenewLocal(f)

TrustOnly(p) ==
  \/ WriteChain(p) \/ SnapshotLists(p)
  \/ Delete(p) \/ DeleteEnds(p)
  \/ Write(p) \/ WriteEnds(p)
  \/ Validate(p)
  \/ Restore(p) \/ RestoreEnds(p)
  \/ WritePeers(p)

Work(p) ==
  \/ Request(p) \/ KeepPackage(p) \/ KeepTrust(p)
  \/ Load(p) \/ PassGate(p) \/ NothingToDo(p)
  \/ Copy(p)
  \/ TrustOnly(p)
  \/ Finish(p)
  \/ Ends(p)

Next == Around \/ \E p \in Procs : (\E w \in Commands : Begin(p, w)) \/ Work(p)

Spec == Init /\ [][Next]_vars

(***************************************************************************)
(* Properties.  A run is clean when no other process ran beside it and no  *)
(* file operation of its own failed.                                       *)
(***************************************************************************)
\* A clean trust-only apply leaves of the files GDS controls the artifact's
\* and no other, whatever earlier applies left half done; and as long as
\* processes never overlapped and no package was applied by name, no apply
\* takes a CRL back to an older one
\* (_write_target_stage_material, component_apply_trust_once).
ApplyIsExact ==
  \A p \in Procs : run[p].at = "applied" =>
    /\ run[p].clean /\ run[p].what = "trust_only" =>
         \A f \in Controlled : disk[f] = IF f \in Carries(run[p].doc) THEN run[p].doc ELSE 0
    /\ ~tangled => \A f \in Lists : disk[f] = 0 \/ disk[f] >= run[p].before[f]

\* A clean apply is refused only for CRLs it does not control or for an
\* artifact that is itself expired, and then every CRL file there was is
\* back as it was (_validate_crl_dirs, _restore_crl_snapshot).
RefusalIsHarmless ==
  \A p \in Procs : run[p].clean =>
    /\ run[p].at \in {"restore", "refused"} =>
         run[p].doc <= expired \/ Problems \cap Foreign # {}
    /\ run[p].at = "refused" =>
         \A f \in Lists : run[p].before[f] # 0 => disk[f] = run[p].before[f]

\* Approvals in force, from two operators where the level is dual.
Pair(i, j) == DualApproval => approvals[i].by # approvals[j].by

\* What the operators have allowed now, read off their approvals and the
\* calendar: work inside the window, or an emergency one of those who
\* agree has asked for.
Permitted ==
  \/ /\ calendar
     /\ ApprovalRequired => \E i, j \in DOMAIN approvals : Pair(i, j)
  \/ /\ EmergencyMode
     /\ \E i, j \in DOMAIN approvals : Pair(i, j) /\ approvals[i].emergency

\* A process begins to write only when the operators permit it; so does one
\* that creates the private key; and nobody else changes the runtime, but an
\* operator who renews a CRL of his own.
AgreedStep ==
  /\ \A p \in Procs : run'[p].at \in Mutates => run[p].at \in Mutates \/ Permitted
  /\ key' # key => Permitted
  /\ disk' # disk => \/ \E p \in Procs : run[p].at \in Mutates /\ run'[p] # run[p]
                     \/ \E f \in Of({"local"}) : \A g \in Files \ {f} : disk'[g] = disk[g]

\* Whatever a command writes into the runtime, and the private key it
\* creates, go back to a moment when the calendar was open and as many
\* operators agreed as the level asks for, or when one of those who agreed
\* had asked for an emergency override in emergency mode
\* (load_active_approval_for_target, evaluate_activation_gate, main).
WritesAreAgreed == [][AgreedStep]_vars
=============================================================================
