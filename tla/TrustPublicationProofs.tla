------------------------ MODULE TrustPublicationProofs ------------------------
(***************************************************************************)
(* Theorems about TrustPublication, for any targets, applications,         *)
(* certificates, threads and bounds.                                       *)
(***************************************************************************)
EXTENDS TrustPublication, TLAPS

\* What a target trusts is a set of active certificates.
LEMMA DesiredIsActive ==
  ASSUME NEW t \in Targets
  PROVE  /\ Desired(t) \subseteq Certs
         /\ \A c \in Desired(t) : certStatus[c] = "active"
  BY DEF Desired, ActiveCertificate, Usable

LEMMA Constants ==
  /\ Scheduler \in Procs
  /\ Threads \subseteq Procs
  /\ None \notin Procs
  BY ConstantsAssumption DEF Procs

LEMMA HomeIsTarget ==
  ASSUME TypeOK, NEW c \in Certs
  PROVE  home[Owner[c]] \in Targets
  BY ConstantsAssumption DEF TypeOK, DatabaseTypes

\* A heartbeat is a registration that keeps the zone and role.
LEMMA HeartbeatRegisters ==
  ASSUME TypeOK, NEW a \in Apps, Heartbeat(a)
  PROVE  \E active \in BOOLEAN, t \in Targets : RegisterApplication(a, active, t)
  BY DEF TypeOK, DatabaseTypes, Heartbeat

LEMMA TypeInit == Init => TypeOK
<1>1. SUFFICES ASSUME Init PROVE TypeOK
  OBVIOUS
<1>2. \A t \in Targets : list[t] \in ListRow
  BY <1>1, DesiredIsActive DEF Init, ListRow
<1>3. \A t \in Targets : artifact[t] \in ArtifactRow
  BY <1>1, <1>2, DesiredIsActive DEF Init, ListRow, ArtifactRow
<1>4. DatabaseTypes
  BY <1>1, <1>2, <1>3, ConstantsAssumption DEF Init, DatabaseTypes
<1>5. MemoryTypes
  BY <1>1 DEF Init, MemoryTypes
<1>6. ControlTypes
  BY <1>1 DEF Init, ControlTypes, Steps, Calls
<1>7. LocalTypes
  BY <1>1 DEF Init, LocalTypes, ListRow
<1>8. QED
  BY <1>4, <1>5, <1>6, <1>7 DEF TypeOK

(***************************************************************************)
(* Database and memory: each step that changes them keeps their types.     *)
(***************************************************************************)
LEMMA DatabaseTypesStep == TypeOK /\ [Next]_vars => DatabaseTypes'
<1>. SUFFICES ASSUME TypeOK, [Next]_vars
              PROVE  DatabaseTypes'
  OBVIOUS
<1>. USE DEF TypeOK, DatabaseTypes, applications
<1>1. ASSUME UNCHANGED database PROVE DatabaseTypes'
  BY <1>1 DEF database, applications
<1>2. ASSUME NEW p \in Procs, Call(p) PROVE DatabaseTypes'
  BY <1>1, <1>2 DEF Call, Read, Rebuild, Build, FirstVersion, Revoke, StartCall
<1>3. ASSUME NEW p \in Procs, BuildInsert(p) PROVE DatabaseTypes'
  BY <1>3 DEF BuildInsert
<1>4. ASSUME NEW p \in Procs, BuildCommit(p) PROVE DatabaseTypes'
  <2>1. list' \in [Targets -> ListRow]
    BY <1>4 DEF BuildCommit, LocalTypes, ListRow
  <2>2. QED
    BY <1>4, <2>1 DEF BuildCommit
<1>5. ASSUME NEW p \in Procs, PublishArtifact(p) PROVE DatabaseTypes'
  <2>. DEFINE t == target[p]
  <2>0. t \in Targets
    BY <1>5 DEF PublishArtifact, At, ControlTypes
  <2>1. artifact' \in [Targets -> ArtifactRow]
    BY <1>5, <2>0 DEF PublishArtifact, LocalTypes, ListRow, ArtifactRow
  <2>2. QED
    BY <1>5, <2>1 DEF PublishArtifact
<1>6. ASSUME NEW p \in Procs, MarkRevoked(p) \/ RevokePackages(p)
      PROVE  DatabaseTypes'
  BY <1>6 DEF MarkRevoked, RevokePackages
<1>7. ASSUME NEW p \in Procs, Step(p) PROVE DatabaseTypes'
  BY <1>1, <1>3, <1>4, <1>5, <1>6, <1>7
     DEF Step, EnsureDesired, EnsureCompare, BuildMax, BuildConflict, FetchList,
         PeekReason, EnterRegen, SkipRegen, FetchCrl, VaultRevoke, AnswerRevoked
<1>8. ASSUME NEW p \in Procs, VaultError(p) \/ VaultRevokeUnanswered(p)
      PROVE  DatabaseTypes'
  BY <1>1, <1>8 DEF VaultError, VaultRevokeUnanswered
<1>9. ASSUME Sweep PROVE DatabaseTypes'
  BY <1>1, <1>9 DEF Sweep, StartCall
<1>10. ASSUME Environment PROVE DatabaseTypes'
  BY <1>1, <1>10 DEF Environment, Issue, Package, ReportActivated, ReportRolledBack, Heartbeat,
                     RegisterApplication, AgeArtifact, IntervalPasses
<1>11. ASSUME Restart PROVE DatabaseTypes'
  BY <1>11 DEF Restart
<1>12. QED
  BY <1>1, <1>2, <1>7, <1>8, <1>9, <1>10, <1>11 DEF Next, vars

LEMMA MemoryTypesStep == TypeOK /\ [Next]_vars => MemoryTypes'
<1>. SUFFICES ASSUME TypeOK, [Next]_vars
              PROVE  MemoryTypes'
  OBVIOUS
<1>. USE DEF TypeOK, MemoryTypes
<1>. DEFINE kept == <<vaultRevoked, memory, revokedOk, bounds>>
<1>1. ASSUME UNCHANGED kept PROVE MemoryTypes'
  BY <1>1 DEF memory, bounds
<1>2. ASSUME NEW p \in Procs, Call(p) PROVE MemoryTypes'
  BY <1>2 DEF Call, Read, Rebuild, Build, FirstVersion, Revoke, StartCall,
              Request, memory
<1>3. ASSUME NEW p \in Procs, EnterRegen(p) \/ PublishArtifact(p)
      PROVE  MemoryTypes'
  BY <1>3 DEF EnterRegen, PublishArtifact, ControlTypes, At, bounds
<1>4. ASSUME NEW p \in Procs, VaultRevoke(p) \/ AnswerRevoked(p)
      PROVE  MemoryTypes'
  BY <1>4 DEF VaultRevoke, AnswerRevoked, ControlTypes, At, memory, bounds, Revocation
<1>5. ASSUME NEW p \in Procs, Step(p) PROVE MemoryTypes'
  BY <1>1, <1>3, <1>4, <1>5
     DEF Step, EnsureDesired, EnsureCompare, BuildMax, BuildInsert, BuildConflict,
         BuildCommit, FetchList, PeekReason, SkipRegen, FetchCrl, MarkRevoked,
         RevokePackages
<1>6. ASSUME NEW p \in Procs, VaultError(p) \/ VaultRevokeUnanswered(p)
      PROVE  MemoryTypes'
  BY <1>6 DEF VaultError, VaultRevokeUnanswered, ControlTypes, At, Fault, memory
<1>7. ASSUME Sweep PROVE MemoryTypes'
  BY <1>7 DEF Sweep, StartCall, memory
<1>8. ASSUME Environment PROVE MemoryTypes'
  <2>1. ASSUME NEW c \in Certs, Issue(c) \/ Package(c) \/ ReportActivated(c)
               \/ ReportRolledBack(c)
        PROVE  MemoryTypes'
    BY <2>1 DEF Issue, Package, ReportActivated, ReportRolledBack, Request, memory, bounds
  <2>2. ASSUME NEW a \in Apps, NEW active \in BOOLEAN, NEW t \in Targets,
               RegisterApplication(a, active, t)
        PROVE  MemoryTypes'
    BY <2>2 DEF RegisterApplication, Request, memory
  <2>3. ASSUME NEW t \in Targets, AgeArtifact(t) PROVE MemoryTypes'
    BY <2>3 DEF AgeArtifact, Request
  <2>4. ASSUME NEW t \in Targets, IntervalPasses(t) PROVE MemoryTypes'
    BY <2>4 DEF IntervalPasses, bounds
  <2>5. QED
    <3>1. \A a \in Apps : Heartbeat(a) => MemoryTypes'
      BY <2>2, HeartbeatRegisters
    <3>2. QED
      BY <1>8, <2>1, <2>2, <2>3, <2>4, <3>1 DEF Environment
<1>9. ASSUME Restart PROVE MemoryTypes'
  BY <1>9 DEF Restart, Fault
<1>10. QED
  BY <1>1, <1>2, <1>5, <1>6, <1>7, <1>8, <1>9 DEF Next, vars

(***************************************************************************)
(* Control: the program counters and the arguments of the calls.           *)
(***************************************************************************)
LEMMA ReturnControl ==
  ASSUME TypeOK, NEW p \in Procs, pc[p] # "idle", Return(p)
  PROVE  ControlTypes'
<1>1. CASE op[p] = "revoke" /\ Goto(p, "refresh") /\ UNCHANGED <<op, target, cert, todo>>
           /\ Forget(p)
  BY <1>1 DEF TypeOK, ControlTypes, Goto, Forget, Steps
<1>2. CASE End(p)
  BY <1>2 DEF TypeOK, ControlTypes, End, Goto, Forget, Steps, Calls
<1>3. ASSUME NEW t \in Targets,
             target' = [target EXCEPT ![p] = t],
             Goto(p, "ensure"), Forget(p), UNCHANGED <<op, cert>>
      PROVE  ControlTypes'
  BY <1>3 DEF TypeOK, ControlTypes, Goto, Forget, Steps
<1>4. QED
  BY <1>1, <1>2, <1>3 DEF Return

LEMMA RaiseControl ==
  ASSUME TypeOK, NEW p \in Procs, Raise(p)
  PROVE  ControlTypes'
  BY DEF TypeOK, ControlTypes, Raise, End, Goto, Forget, Steps, Calls

LEMMA StartControl ==
  ASSUME TypeOK, NEW p \in Procs, NEW o \in Calls, NEW t \in Targets,
         NEW c \in Certs \cup {None},
         NEW first \in {"ensure", "max", "vault", "mark"},
         NEW cont \in {"ensure", "fetch"},
         StartCall(p, o, t, c, first, cont),
         o = "revoke" => c \in Certs,
         first \in {"vault", "mark"} => o = "revoke"
  PROVE  ControlTypes'
  BY DEF TypeOK, ControlTypes, StartCall, Goto, At, Steps

LEMMA ControlTypesStep == TypeOK /\ [Next]_vars => ControlTypes'
<1>. SUFFICES ASSUME TypeOK, [Next]_vars
              PROVE  ControlTypes'
  OBVIOUS
<1>1. ASSUME UNCHANGED <<pc, locals>> PROVE ControlTypes'
  BY <1>1 DEF TypeOK, ControlTypes, locals
<1>2. ASSUME NEW p \in Procs, Call(p) PROVE ControlTypes'
  <2>1. ASSUME NEW t \in Targets,
               Read(p, t) \/ Rebuild(p, t) \/ Build(p, t) \/ FirstVersion(p, t)
        PROVE  ControlTypes'
    BY <2>1, StartControl DEF Read, Rebuild, Build, FirstVersion, Calls
  <2>2. ASSUME NEW c \in Certs, Revoke(p, c) PROVE ControlTypes'
    BY <2>2, StartControl, Constants, HomeIsTarget DEF Revoke, Calls
  <2>3. QED
    BY <1>2, <2>1, <2>2 DEF Call
<1>3. ASSUME NEW p \in Procs, PeekReason(p) \/ SkipRegen(p) \/ PublishArtifact(p)
      PROVE  ControlTypes'
  <2>1. ASSUME At(p, "peek"), Goto(p, "enter"), UNCHANGED locals PROVE ControlTypes'
    BY <2>1 DEF TypeOK, ControlTypes, Goto, At, locals, Steps
  <2>2. QED
    BY <1>3, <2>1, ReturnControl DEF PeekReason, SkipRegen, PublishArtifact, At
<1>4. ASSUME NEW p \in Procs, BuildConflict(p) \/ VaultError(p) \/ VaultRevokeUnanswered(p)
      PROVE  ControlTypes'
  BY <1>4, RaiseControl DEF BuildConflict, VaultError, VaultRevokeUnanswered
<1>5. ASSUME NEW p \in Procs,
             \/ EnsureDesired(p) \/ EnsureCompare(p) \/ BuildMax(p) \/ BuildInsert(p)
             \/ FetchList(p) \/ EnterRegen(p) \/ FetchCrl(p)
      PROVE  ControlTypes'
  BY <1>5 DEF TypeOK, ControlTypes, Goto, At, Steps, EnsureDesired, EnsureCompare,
              BuildMax, BuildInsert, FetchList, EnterRegen, FetchCrl
<1>6. ASSUME NEW p \in Procs, BuildCommit(p) PROVE ControlTypes'
  BY <1>6 DEF TypeOK, ControlTypes, Goto, At, Steps, BuildCommit
<1>7. ASSUME NEW p \in Procs, VaultRevoke(p) \/ MarkRevoked(p) \/ RevokePackages(p)
      PROVE  ControlTypes'
  BY <1>7 DEF TypeOK, ControlTypes, Goto, At, Steps, VaultRevoke, MarkRevoked,
              RevokePackages, locals
<1>8. ASSUME NEW p \in Procs, AnswerRevoked(p) PROVE ControlTypes'
  BY <1>8 DEF TypeOK, ControlTypes, AnswerRevoked, End, Goto, Forget, Steps, Calls
<1>9. ASSUME NEW p \in Procs, Step(p) PROVE ControlTypes'
  BY <1>3, <1>4, <1>5, <1>6, <1>7, <1>8, <1>9 DEF Step
<1>10. ASSUME Sweep PROVE ControlTypes'
  BY <1>10, StartControl, Constants DEF Sweep, Calls
<1>11. ASSUME Environment PROVE ControlTypes'
  BY <1>1, <1>11 DEF Environment, Issue, Package, ReportActivated, ReportRolledBack, Heartbeat,
                     RegisterApplication, AgeArtifact, IntervalPasses
<1>12. ASSUME Restart PROVE ControlTypes'
  BY <1>12 DEF ControlTypes, Restart, Steps, Calls
<1>13. QED
  BY <1>1, <1>2, <1>4, <1>9, <1>10, <1>11, <1>12 DEF Next, vars

(***************************************************************************)
(* The locals of a call.                                                   *)
(***************************************************************************)
LEMMA ForgetTypes ==
  ASSUME LocalTypes, NEW p \in Procs, Forget(p), todo' \subseteq Targets
  PROVE  LocalTypes'
  BY DEF LocalTypes, Forget, ListRow

LEMMA ReturnLocals ==
  ASSUME LocalTypes, NEW p \in Procs, Return(p)
  PROVE  LocalTypes'
<1>1. Forget(p)
  BY DEF Return, End
<1>2. todo' \subseteq Targets
  BY DEF Return, LocalTypes
<1>3. QED
  BY <1>1, <1>2, ForgetTypes

LEMMA RaiseLocals ==
  ASSUME LocalTypes, NEW p \in Procs, Raise(p)
  PROVE  LocalTypes'
<1>1. Forget(p)
  BY DEF Raise, End
<1>2. todo' \subseteq Targets
  BY DEF Raise, LocalTypes
<1>3. QED
  BY <1>1, <1>2, ForgetTypes

LEMMA LocalTypesStep == TypeOK /\ [Next]_vars => LocalTypes'
<1>. SUFFICES ASSUME TypeOK, [Next]_vars
              PROVE  LocalTypes'
  OBVIOUS
<1>. DEFINE kept == <<want, nextVersion, held, revision, crl, todo>>
<1>1. ASSUME UNCHANGED kept PROVE LocalTypes'
  BY <1>1 DEF TypeOK, LocalTypes
<1>2. ASSUME NEW p \in Procs, Call(p) PROVE LocalTypes'
  BY <1>1, <1>2 DEF Call, Read, Rebuild, Build, FirstVersion, Revoke, StartCall
<1>3. ASSUME NEW p \in Procs, pc[p] # "idle" PROVE target[p] \in Targets
  BY <1>3 DEF TypeOK, ControlTypes
<1>4. ASSUME NEW p \in Procs, EnsureDesired(p) \/ EnsureCompare(p) \/ BuildInsert(p)
      PROVE  LocalTypes'
  <2>1. Desired(target[p]) \subseteq Certs
    BY <1>3, <1>4, DesiredIsActive DEF EnsureDesired, EnsureCompare, BuildInsert, At
  <2>2. QED
    BY <1>4, <2>1 DEF TypeOK, LocalTypes, EnsureDesired, EnsureCompare, BuildInsert
<1>5. ASSUME NEW p \in Procs, BuildMax(p) \/ EnterRegen(p) PROVE LocalTypes'
  <2>1. target[p] \in Targets
    BY <1>3, <1>5 DEF BuildMax, EnterRegen, At
  <2>2. /\ list[target[p]].version + 1 \in Nat
        /\ artifact[target[p]].revision + 1 \in Nat
    BY <2>1 DEF TypeOK, DatabaseTypes, ListRow, ArtifactRow
  <2>3. QED
    BY <1>5, <2>2 DEF TypeOK, LocalTypes, BuildMax, EnterRegen
<1>6. ASSUME NEW p \in Procs, BuildCommit(p) PROVE LocalTypes'
  BY <1>6 DEF TypeOK, LocalTypes, BuildCommit
<1>7. ASSUME NEW p \in Procs, FetchList(p) PROVE LocalTypes'
  BY <1>3, <1>7 DEF TypeOK, LocalTypes, DatabaseTypes, FetchList, At
<1>8. ASSUME NEW p \in Procs, FetchCrl(p) PROVE LocalTypes'
  BY <1>8 DEF TypeOK, LocalTypes, MemoryTypes, FetchCrl
<1>9. ASSUME NEW p \in Procs,
             \/ PeekReason(p) \/ SkipRegen(p) \/ PublishArtifact(p) \/ VaultRevoke(p)
             \/ MarkRevoked(p) \/ RevokePackages(p)
      PROVE  LocalTypes'
  BY <1>1, <1>9, ReturnLocals
     DEF TypeOK, PeekReason, SkipRegen, PublishArtifact, VaultRevoke, MarkRevoked,
         RevokePackages, locals
<1>10. ASSUME NEW p \in Procs,
              BuildConflict(p) \/ VaultError(p) \/ VaultRevokeUnanswered(p)
       PROVE  LocalTypes'
  BY <1>10, RaiseLocals DEF TypeOK, BuildConflict, VaultError, VaultRevokeUnanswered
<1>11. ASSUME NEW p \in Procs, AnswerRevoked(p) PROVE LocalTypes'
  BY <1>11, ForgetTypes DEF TypeOK, AnswerRevoked, End, LocalTypes
<1>12. ASSUME NEW p \in Procs, Step(p) PROVE LocalTypes'
  BY <1>4, <1>5, <1>6, <1>7, <1>8, <1>9, <1>10, <1>11, <1>12 DEF Step
<1>13. ASSUME Sweep PROVE LocalTypes'
  BY <1>13 DEF Sweep, StartCall, TypeOK, LocalTypes
<1>14. ASSUME Environment PROVE LocalTypes'
  BY <1>1, <1>14 DEF Environment, Issue, Package, ReportActivated, ReportRolledBack, Heartbeat,
                     RegisterApplication, AgeArtifact, IntervalPasses, locals
<1>15. ASSUME Restart PROVE LocalTypes'
  BY <1>15 DEF LocalTypes, Restart, ListRow
<1>16. QED
  BY <1>1, <1>2, <1>10, <1>12, <1>13, <1>14, <1>15 DEF Next, vars, locals

(***************************************************************************)
(* TypeOK: every variable of the control plane keeps its type, a process   *)
(* at work always knows its target, a revocation its certificate.          *)
(***************************************************************************)
THEOREM TypeCorrect == Spec => []TypeOK
<1>1. TypeOK /\ [Next]_vars => TypeOK'
  BY DatabaseTypesStep, MemoryTypesStep, ControlTypesStep, LocalTypesStep DEF TypeOK
<1>2. QED
  BY TypeInit, <1>1, PTL DEF Spec

(***************************************************************************)
(* The regeneration lock and what is signed under it.                      *)
(***************************************************************************)
\* Where a call that returns or raises can be afterwards.
LEMMA ReturnSteps ==
  ASSUME TypeOK, NEW p \in Procs, Return(p) \/ Raise(p)
  PROVE  /\ pc' = [pc EXCEPT ![p] = pc'[p]]
         /\ pc'[p] \in {"idle", "ensure", "refresh"}
         /\ pc'[p] = "refresh" => op[p] = "revoke"
  BY DEF TypeOK, ControlTypes, Return, Raise, End, Goto

\* Every call of the API, and the scan loop's sweep, starts like this.
LEMMA CallStarts ==
  ASSUME TypeOK, NEW p \in Procs, Call(p) \/ (p = Scheduler /\ Sweep)
  PROVE  \E o \in Calls, t \in Targets, c \in Certs \cup {None},
            first \in {"ensure", "max", "vault", "mark"}, cont \in {"ensure", "fetch"} :
           /\ StartCall(p, o, t, c, first, cont)
           /\ first \in {"vault", "mark"} <=> o = "revoke"
           /\ o = "revoke" => /\ p \in Threads
                              /\ c \in Certs
                              /\ cont = "ensure"
                              /\ first = "mark" => certStatus[c] = "revoked"
<1>1. ASSUME NEW t \in Targets,
             Read(p, t) \/ Rebuild(p, t) \/ Build(p, t) \/ FirstVersion(p, t)
      PROVE  \E o \in {"read", "rebuild", "build", "first"},
               first \in {"ensure", "max"}, cont \in {"ensure", "fetch"} :
               StartCall(p, o, t, None, first, cont)
  BY <1>1 DEF Read, Rebuild, Build, FirstVersion
<1>2. ASSUME NEW c \in Certs, Revoke(p, c)
      PROVE  /\ p \in Threads
             /\ \E first \in {"vault", "mark"} :
                  /\ StartCall(p, "revoke", home[Owner[c]], c, first, "ensure")
                  /\ first = "mark" => certStatus[c] = "revoked"
  BY <1>2 DEF Revoke
<1>3. ASSUME p = Scheduler, Sweep
      PROVE  \E t \in Targets : StartCall(p, "sweep", t, None, "ensure", "fetch")
  BY <1>3 DEF Sweep
<1>4. QED
  BY <1>1, <1>2, <1>3, Constants, HomeIsTarget DEF Call, Calls

LEMMA LockStep == TypeOK /\ LockInv /\ [Next]_vars => LockInv'
<1>. SUFFICES ASSUME TypeOK, LockInv, [Next]_vars
              PROVE  LockInv'
  OBVIOUS
<1>. USE DEF LockInv, Signing
<1>1. ASSUME UNCHANGED <<pc, regenLock>> PROVE LockInv'
  BY <1>1
<1>2. ASSUME NEW p \in Procs, Call(p) \/ (p = Scheduler /\ Sweep) PROVE LockInv'
  <2>1. PICK o \in Calls, t \in Targets, c \in Certs \cup {None},
             first \in {"ensure", "max", "vault", "mark"}, cont \in {"ensure", "fetch"} :
               StartCall(p, o, t, c, first, cont)
    BY <1>2, CallStarts
  <2>2. QED
    BY <2>1 DEF StartCall, At, Goto, TypeOK, ControlTypes, memory
<1>3. ASSUME NEW p \in Procs,
             \/ EnsureDesired(p) \/ EnsureCompare(p) \/ BuildMax(p) \/ BuildInsert(p)
             \/ BuildCommit(p) \/ FetchList(p) \/ VaultRevoke(p) \/ MarkRevoked(p)
             \/ RevokePackages(p) \/ AnswerRevoked(p)
      PROVE  LockInv'
  BY <1>3 DEF TypeOK, ControlTypes, At, Goto, memory, EnsureDesired, EnsureCompare,
              BuildMax, BuildInsert, BuildCommit, FetchList, VaultRevoke, MarkRevoked,
              RevokePackages, AnswerRevoked, End
<1>4. ASSUME NEW p \in Procs, PeekReason(p) \/ SkipRegen(p) PROVE LockInv'
  <2>1. CASE Return(p)
    BY <1>4, <2>1, ReturnSteps DEF TypeOK, ControlTypes, PeekReason, SkipRegen, memory
  <2>2. CASE PeekReason(p) /\ Goto(p, "enter")
    BY <2>2 DEF TypeOK, ControlTypes, PeekReason, Goto, memory
  <2>3. QED
    BY <1>4, <2>1, <2>2 DEF PeekReason, SkipRegen
<1>5. ASSUME NEW p \in Procs, EnterRegen(p) PROVE LockInv'
  BY <1>5, Constants DEF TypeOK, ControlTypes, EnterRegen, Goto
<1>6. ASSUME NEW p \in Procs, FetchCrl(p) PROVE LockInv'
  BY <1>6 DEF TypeOK, ControlTypes, FetchCrl, At, Goto, memory
<1>7. ASSUME NEW p \in Procs, PublishArtifact(p) PROVE LockInv'
  BY <1>7, ReturnSteps DEF TypeOK, ControlTypes, PublishArtifact, At
<1>8. ASSUME NEW p \in Procs, BuildConflict(p) \/ VaultError(p) \/ VaultRevokeUnanswered(p)
      PROVE  LockInv'
  BY <1>8, ReturnSteps DEF TypeOK, ControlTypes, BuildConflict, VaultError,
                           VaultRevokeUnanswered, At, memory
<1>9. ASSUME NEW p \in Procs, Step(p) PROVE LockInv'
  BY <1>3, <1>4, <1>5, <1>6, <1>7, <1>8, <1>9 DEF Step
<1>10. ASSUME Environment PROVE LockInv'
  BY <1>1, <1>10 DEF Environment, Issue, Package, ReportActivated, ReportRolledBack, Heartbeat,
                     RegisterApplication, AgeArtifact, IntervalPasses, memory
<1>11. ASSUME Restart PROVE LockInv'
  BY <1>11 DEF Restart
<1>12. QED
  BY <1>1, <1>2, <1>8, <1>9, <1>10, <1>11, Constants DEF Next, vars, memory

\* A step that signs nothing: whoever signs still does, on the same artifact.
LEMMA SigningFrame ==
  ASSUME TypeOK, SigningInv,
         UNCHANGED artifact,
         vaultRevoked \subseteq vaultRevoked',
         \A p \in Procs :
           Signing(p)' => /\ pc'[p] = pc[p] /\ target'[p] = target[p]
                         /\ revision'[p] = revision[p] /\ crl'[p] = crl[p]
  PROVE  SigningInv'
  BY DEF SigningInv, Signing, SignedRevisionIsRowRevision, TypeOK, ControlTypes

LEMMA SigningStep ==
  TypeOK /\ LockInv /\ SigningInv /\ [Next]_vars => SigningInv'
<1>. SUFFICES ASSUME TypeOK, LockInv, SigningInv, [Next]_vars
              PROVE  SigningInv'
  OBVIOUS
<1>1. ASSUME UNCHANGED <<pc, locals, artifact, vaultRevoked>> PROVE SigningInv'
  BY <1>1, SigningFrame DEF locals
<1>2. ASSUME NEW p \in Procs, Call(p) \/ (p = Scheduler /\ Sweep) PROVE SigningInv'
  <2>1. PICK o \in Calls, t \in Targets, c \in Certs \cup {None},
             first \in {"ensure", "max", "vault", "mark"}, cont \in {"ensure", "fetch"} :
               StartCall(p, o, t, c, first, cont)
    BY <1>2, CallStarts
  <2>2. \A q \in Procs : Signing(q)' => q # p
    BY <2>1 DEF StartCall, At, Goto, TypeOK, ControlTypes, Signing
  <2>3. \A q \in Procs \ {p} : /\ pc'[q] = pc[q] /\ target'[q] = target[q]
                               /\ revision'[q] = revision[q] /\ crl'[q] = crl[q]
    BY <2>1 DEF StartCall, At, Goto, TypeOK, ControlTypes
  <2>4. UNCHANGED <<artifact, vaultRevoked>>
    BY <2>1 DEF StartCall, database
  <2>5. QED
    BY <2>2, <2>3, <2>4, SigningFrame
<1>3. ASSUME NEW p \in Procs,
             \/ EnsureDesired(p) \/ EnsureCompare(p) \/ BuildMax(p) \/ BuildInsert(p)
             \/ BuildCommit(p) \/ FetchList(p) \/ VaultRevoke(p) \/ MarkRevoked(p)
             \/ RevokePackages(p)
      PROVE  SigningInv'
  <2>1. /\ pc' = [pc EXCEPT ![p] = pc'[p]] /\ ~Signing(p)'
        /\ UNCHANGED <<target, revision, crl, artifact>>
        /\ vaultRevoked \subseteq vaultRevoked'
    BY <1>3 DEF TypeOK, ControlTypes, Goto, Signing, database, locals, EnsureDesired,
                EnsureCompare, BuildMax, BuildInsert, BuildCommit, FetchList,
                VaultRevoke, MarkRevoked, RevokePackages
  <2>2. QED
    BY <2>1, SigningFrame DEF TypeOK, ControlTypes, Signing
<1>4. ASSUME NEW p \in Procs,
             \/ PeekReason(p) \/ SkipRegen(p) \/ AnswerRevoked(p)
             \/ BuildConflict(p) \/ VaultError(p) \/ VaultRevokeUnanswered(p)
      PROVE  SigningInv'
  <2>1. /\ UNCHANGED artifact
        /\ vaultRevoked \subseteq vaultRevoked'
        /\ Return(p) \/ Raise(p) \/ End(p)
             \/ (Goto(p, "enter") /\ UNCHANGED locals)
    BY <1>4 DEF PeekReason, SkipRegen, AnswerRevoked, BuildConflict, VaultError,
                VaultRevokeUnanswered, database
  <2>2. /\ ~Signing(p)'
        /\ \A q \in Procs \ {p} : /\ pc'[q] = pc[q] /\ target'[q] = target[q]
                                 /\ revision'[q] = revision[q] /\ crl'[q] = crl[q]
    BY <2>1 DEF TypeOK, ControlTypes, LocalTypes, Return, Raise, End, Goto, Forget,
                Signing, locals
  <2>3. QED
    BY <2>1, <2>2, SigningFrame
<1>5. ASSUME NEW p \in Procs, EnterRegen(p) PROVE SigningInv'
  BY <1>5 DEF TypeOK, ControlTypes, LocalTypes, EnterRegen, Goto, At, SigningInv,
              Signing, SignedRevisionIsRowRevision, database
<1>6. ASSUME NEW p \in Procs, FetchCrl(p) PROVE SigningInv'
  BY <1>6 DEF TypeOK, ControlTypes, LocalTypes, FetchCrl, Goto, At, SigningInv,
              Signing, SignedRevisionIsRowRevision, database
<1>7. ASSUME NEW p \in Procs, PublishArtifact(p) PROVE SigningInv'
  <2>. DEFINE t == target[p]
  <2>1. t \in Targets /\ Signing(p)
    BY <1>7 DEF TypeOK, ControlTypes, PublishArtifact, At, Signing
  <2>2. /\ artifact'[t].signed = artifact'[t].revision
        /\ artifact'[t].crl = crl[p]
        /\ \A u \in Targets \ {t} : artifact'[u] = artifact[u]
        /\ UNCHANGED vaultRevoked
    BY <1>7, <2>1 DEF TypeOK, DatabaseTypes, PublishArtifact, SigningInv, At
  <2>3. \A q \in Procs : ~Signing(q)'
    BY <1>7, <2>1, ReturnSteps DEF TypeOK, ControlTypes, PublishArtifact, LockInv, Signing
  <2>4. QED
    BY <1>7, <2>1, <2>2, <2>3
       DEF SigningInv, Signing, SignedRevisionIsRowRevision, PublishArtifact, At
<1>8. ASSUME NEW p \in Procs, Step(p) PROVE SigningInv'
  BY <1>3, <1>4, <1>5, <1>6, <1>7, <1>8 DEF Step
<1>9. ASSUME Environment PROVE SigningInv'
  BY <1>1, <1>9 DEF Environment, Issue, Package, ReportActivated, ReportRolledBack, Heartbeat,
                    RegisterApplication, AgeArtifact, IntervalPasses, database
<1>10. ASSUME Restart PROVE SigningInv'
  BY <1>10, SigningFrame DEF Restart, Signing
<1>11. QED
  BY <1>1, <1>2, <1>4, <1>8, <1>9, <1>10, Constants DEF Next, vars, database

(***************************************************************************)
(* How far a revocation has come.                                          *)
(***************************************************************************)
\* A step after which every revocation is where it was, or has ended, or has
\* gone on without reaching the publication.
LEMMA RevokingFrame ==
  ASSUME TypeOK, TypeOK', RevokingInv,
         vaultRevoked \subseteq vaultRevoked',
         \A c \in Certs : certStatus'[c] = "revoked" <=> certStatus[c] = "revoked",
         \A t \in Targets : artifact[t].crl \subseteq artifact'[t].crl,
         UNCHANGED revokedOk,
         \A q \in Procs : op'[q] = "revoke" =>
           /\ op[q] = "revoke" /\ target'[q] = target[q] /\ cert'[q] = cert[q]
           /\ \/ pc'[q] = pc[q] /\ crl'[q] = crl[q]
              \/ /\ pc[q] \notin {"vault", "mark"}
                 /\ pc'[q] \notin {"publish", "refresh"}
  PROVE  RevokingInv'
<1>1. op'[Scheduler] # "revoke"
  BY Constants DEF RevokingInv
<1>2. \A c \in Certs : certStatus'[c] = "revoked" => c \in vaultRevoked'
  BY DEF RevokingInv
<1>3. RevokedSerialIsPublished'
  BY DEF RevokingInv, RevokedSerialIsPublished, TypeOK, MemoryTypes, Revocation
<1>4. ASSUME NEW q \in Procs, op'[q] = "revoke"
      PROVE  /\ op[q] = "revoke" /\ cert[q] \in Certs
             /\ target[q] \in Targets
  BY <1>4, Constants DEF RevokingInv, TypeOK, ControlTypes
<1>5. ASSUME NEW q \in Procs, op'[q] = "revoke"
      PROVE  /\ pc'[q] # "vault" => cert'[q] \in vaultRevoked'
             /\ pc'[q] \notin {"vault", "mark"} => certStatus'[cert'[q]] = "revoked"
             /\ pc'[q] = "publish" => cert'[q] \in crl'[q]
             /\ pc'[q] = "refresh" => cert'[q] \in artifact'[target'[q]].crl
  BY <1>4, <1>5 DEF RevokingInv
<1>6. QED
  BY <1>1, <1>2, <1>3, <1>5 DEF RevokingInv

\* A call that returns without having published was not a revocation.
LEMMA ReturnUnforced ==
  ASSUME NEW p \in Procs, PeekReason(p) \/ SkipRegen(p)
  PROVE  \/ op[p] # "revoke" /\ Return(p)
         \/ PeekReason(p) /\ Goto(p, "enter") /\ UNCHANGED locals
  BY DEF PeekReason, SkipRegen, NeedsRegeneration, Forced

\* The other processes do not notice that one returns, raises or ends.
LEMMA Leaving ==
  ASSUME TypeOK, NEW p \in Procs,
         \/ op[p] # "revoke" /\ Return(p)
         \/ Raise(p) \/ End(p)
  PROVE  /\ op'[p] # "revoke"
         /\ pc'[p] \in {"idle", "ensure"}
         /\ \A q \in Procs \ {p} :
              /\ pc'[q] = pc[q] /\ op'[q] = op[q] /\ after'[q] = after[q]
              /\ target'[q] = target[q] /\ cert'[q] = cert[q]
              /\ crl'[q] = crl[q] /\ want'[q] = want[q]
              /\ nextVersion'[q] = nextVersion[q]
  BY DEF TypeOK, ControlTypes, LocalTypes, Return, Raise, End, Goto, Forget

LEMMA RevokingStep ==
  TypeOK /\ TypeOK' /\ SigningInv /\ RevokingInv /\ [Next]_vars => RevokingInv'
<1>. SUFFICES ASSUME TypeOK, TypeOK', SigningInv, RevokingInv, [Next]_vars
              PROVE  RevokingInv'
  OBVIOUS
<1>0. ASSUME NEW q \in Procs, op[q] = "revoke"
      PROVE  /\ q # Scheduler
             /\ cert[q] \in Certs
             /\ target[q] \in Targets
  BY <1>0, Constants DEF RevokingInv, TypeOK, ControlTypes
<1>1. ASSUME UNCHANGED <<pc, locals, artifact, vaultRevoked, revokedOk>>,
             \A c \in Certs : certStatus'[c] = "revoked" <=> certStatus[c] = "revoked"
      PROVE  RevokingInv'
  BY <1>1, RevokingFrame DEF locals
<1>2. ASSUME NEW p \in Procs, Call(p) \/ (p = Scheduler /\ Sweep) PROVE RevokingInv'
  <2>1. PICK o \in Calls, t \in Targets, c \in Certs \cup {None},
             first \in {"ensure", "max", "vault", "mark"}, cont \in {"ensure", "fetch"} :
               /\ StartCall(p, o, t, c, first, cont)
               /\ first \in {"vault", "mark"} <=> o = "revoke"
               /\ o = "revoke" => /\ p \in Threads
                                  /\ c \in Certs
                                  /\ first = "mark" => certStatus[c] = "revoked"
    BY <1>2, CallStarts
  <2>2. /\ pc'[p] = first /\ op'[p] = o /\ target'[p] = t /\ cert'[p] = c
        /\ \A q \in Procs \ {p} :
             /\ pc'[q] = pc[q] /\ op'[q] = op[q] /\ target'[q] = target[q]
             /\ cert'[q] = cert[q]
    BY <2>1 DEF StartCall, Goto, TypeOK, ControlTypes
  <2>3. UNCHANGED <<artifact, certStatus, vaultRevoked, revokedOk, crl>>
    BY <2>1 DEF StartCall, database
  <2>4. CASE o # "revoke"
    BY <2>2, <2>3, <2>4, RevokingFrame
  <2>5. CASE o = "revoke"
    <3>1. op'[Scheduler] # "revoke"
      BY <2>1, <2>2, <2>5, ConstantsAssumption, Constants DEF RevokingInv
    <3>2. RevokedSerialIsPublished'
      BY <2>3 DEF RevokingInv, RevokedSerialIsPublished
    <3>3. c \in Certs /\ (first = "mark" => c \in vaultRevoked)
      BY <2>1, <2>5 DEF RevokingInv
    <3>4. QED
      BY <2>1, <2>2, <2>3, <2>5, <3>1, <3>2, <3>3 DEF RevokingInv
  <2>6. QED
    BY <2>4, <2>5
<1>3. ASSUME NEW p \in Procs,
             \/ EnsureDesired(p) \/ EnsureCompare(p) \/ BuildMax(p) \/ BuildInsert(p)
             \/ BuildCommit(p) \/ FetchList(p) \/ EnterRegen(p)
             \/ (PeekReason(p) /\ Goto(p, "enter") /\ UNCHANGED locals)
             \/ RevokePackages(p)
      PROVE  RevokingInv'
  <2>1. /\ pc' = [pc EXCEPT ![p] = pc'[p]]
        /\ pc[p] \notin {"vault", "mark"} /\ pc'[p] \notin {"publish", "refresh"}
        /\ UNCHANGED <<op, target, cert, crl, artifact, certStatus, vaultRevoked, revokedOk>>
    BY <1>3 DEF TypeOK, ControlTypes, Goto, At, database, locals, EnsureDesired,
                EnsureCompare, BuildMax, BuildInsert, BuildCommit, FetchList,
                EnterRegen, PeekReason, RevokePackages
  <2>2. QED
    BY <2>1, RevokingFrame DEF TypeOK, ControlTypes
<1>4. ASSUME NEW p \in Procs,
             \/ op[p] # "revoke" /\ Return(p)
             \/ Raise(p) \/ End(p),
             vaultRevoked \subseteq vaultRevoked',
             \A t \in Targets : artifact[t].crl \subseteq artifact'[t].crl,
             UNCHANGED <<certStatus, revokedOk>>
      PROVE  RevokingInv'
  BY <1>4, Leaving, RevokingFrame
<1>5. ASSUME NEW p \in Procs, PeekReason(p) \/ SkipRegen(p) PROVE RevokingInv'
  BY <1>3, <1>4, <1>5, ReturnUnforced DEF PeekReason, SkipRegen, database
<1>6. ASSUME NEW p \in Procs, BuildConflict(p) \/ VaultError(p) \/ VaultRevokeUnanswered(p)
      PROVE  RevokingInv'
  BY <1>4, <1>6 DEF BuildConflict, VaultError, VaultRevokeUnanswered, database
<1>7. ASSUME NEW p \in Procs, FetchCrl(p) PROVE RevokingInv'
  BY <1>0, <1>7 DEF TypeOK, ControlTypes, LocalTypes, FetchCrl, Goto, At, RevokingInv,
                    RevokedSerialIsPublished, database
<1>8. ASSUME NEW p \in Procs, PublishArtifact(p) PROVE RevokingInv'
  <2>1. target[p] \in Targets /\ pc[p] = "publish"
    BY <1>8 DEF TypeOK, ControlTypes, PublishArtifact, At
  <2>2. /\ artifact'[target[p]].crl = crl[p]
        /\ \A t \in Targets : artifact[t].crl \subseteq artifact'[t].crl
    BY <1>8, <2>1 DEF TypeOK, DatabaseTypes, PublishArtifact, SigningInv
  <2>3. UNCHANGED <<certStatus, vaultRevoked, revokedOk>> /\ Return(p)
    BY <1>8 DEF PublishArtifact
  <2>4. CASE op[p] # "revoke"
    BY <1>4, <2>2, <2>3, <2>4
  <2>5. CASE op[p] = "revoke"
    <3>1. /\ UNCHANGED <<op, target, cert>>
          /\ pc' = [pc EXCEPT ![p] = "refresh"]
          /\ crl' = [crl EXCEPT ![p] = {}]
      BY <1>0, <2>3, <2>5 DEF Return, Goto, Forget
    <3>2. RevokedSerialIsPublished'
      BY <2>2, <2>3 DEF RevokingInv, RevokedSerialIsPublished, TypeOK, MemoryTypes, Revocation
    <3>3. ASSUME NEW q \in Procs \ {p}, op[q] = "revoke", pc[q] = "refresh"
          PROVE  cert[q] \in artifact'[target[q]].crl
      BY <1>0, <2>2, <3>3 DEF RevokingInv
    <3>4. cert[p] \in artifact'[target[p]].crl
      BY <2>1, <2>2, <2>5 DEF RevokingInv
    <3>5. \A q \in Procs \ {p} : pc'[q] = pc[q] /\ crl'[q] = crl[q]
      BY <3>1 DEF TypeOK, ControlTypes, LocalTypes
    <3>6. pc'[p] = "refresh"
      BY <3>1 DEF TypeOK, ControlTypes
    <3>7. QED
      BY <2>1, <2>3, <2>5, <3>1, <3>2, <3>3, <3>4, <3>5, <3>6 DEF RevokingInv
  <2>6. QED
    BY <2>4, <2>5
<1>9. ASSUME NEW p \in Procs, VaultRevoke(p) PROVE RevokingInv'
  BY <1>0, <1>9 DEF TypeOK, ControlTypes, LocalTypes, VaultRevoke, Goto, At, RevokingInv,
                    RevokedSerialIsPublished, database, locals
<1>10. ASSUME NEW p \in Procs, MarkRevoked(p) PROVE RevokingInv'
  <2>1. op[p] = "revoke" /\ cert[p] \in vaultRevoked /\ cert[p] \in Certs
    BY <1>0, <1>10 DEF TypeOK, ControlTypes, MarkRevoked, At, RevokingInv
  <2>2. QED
    BY <1>0, <1>10, <2>1 DEF TypeOK, ControlTypes, DatabaseTypes, MarkRevoked, Goto, At,
                             RevokingInv, RevokedSerialIsPublished, locals
<1>11. ASSUME NEW p \in Procs, AnswerRevoked(p) PROVE RevokingInv'
  <2>1. op[p] = "revoke" /\ cert[p] \in artifact[target[p]].crl
    BY <1>11 DEF TypeOK, ControlTypes, AnswerRevoked, At, RevokingInv
  <2>2. /\ UNCHANGED <<certStatus, vaultRevoked, artifact>>
        /\ revokedOk' = revokedOk \cup {[cert |-> cert[p], target |-> target[p]]}
    BY <1>11 DEF AnswerRevoked, database
  <2>3. RevokedSerialIsPublished'
    BY <1>0, <2>1, <2>2 DEF RevokingInv, RevokedSerialIsPublished
  <2>4. End(p)
    BY <1>11 DEF AnswerRevoked
  <2>5. /\ op'[p] # "revoke"
        /\ \A q \in Procs \ {p} :
             /\ pc'[q] = pc[q] /\ op'[q] = op[q] /\ target'[q] = target[q]
             /\ cert'[q] = cert[q] /\ crl'[q] = crl[q]
    BY <2>4, Leaving
  <2>6. op'[Scheduler] # "revoke"
    BY <2>5, Constants DEF RevokingInv
  <2>7. QED
    BY <2>2, <2>3, <2>5, <2>6 DEF RevokingInv
<1>12. ASSUME NEW p \in Procs, Step(p) PROVE RevokingInv'
  BY <1>3, <1>5, <1>6, <1>7, <1>8, <1>9, <1>10, <1>11, <1>12 DEF Step
<1>13. ASSUME NEW c \in Certs, Issue(c) PROVE RevokingInv'
  BY <1>1, <1>13 DEF Issue, TypeOK, DatabaseTypes
<1>14. ASSUME Environment PROVE RevokingInv'
  BY <1>1, <1>13, <1>14 DEF Environment, Package, ReportActivated, ReportRolledBack, Heartbeat,
                     RegisterApplication, AgeArtifact, IntervalPasses, database
<1>15. ASSUME Restart PROVE RevokingInv'
  BY <1>15, RevokingFrame DEF Restart
<1>16. QED
  BY <1>1, <1>2, <1>6, <1>12, <1>14, <1>15, Constants DEF Next, vars, database

(***************************************************************************)
(* Versions of a trust list.                                               *)
(***************************************************************************)
LEMMA BuildFrame ==
  ASSUME TypeOK, BuildInv, UNCHANGED <<list, pending>>,
         \A q \in Procs : pc'[q] \in {"insert", "commit"} =>
           /\ pc'[q] = pc[q] /\ target'[q] = target[q]
           /\ nextVersion'[q] = nextVersion[q]
  PROVE  BuildInv'
  BY DEF BuildInv

LEMMA BuildStep == TypeOK /\ BuildInv /\ [Next]_vars => BuildInv'
<1>. SUFFICES ASSUME TypeOK, BuildInv, [Next]_vars
              PROVE  BuildInv'
  OBVIOUS
<1>1. ASSUME UNCHANGED <<pc, locals, list, pending>> PROVE BuildInv'
  BY <1>1, BuildFrame DEF locals
<1>2. ASSUME NEW p \in Procs, Call(p) \/ (p = Scheduler /\ Sweep) PROVE BuildInv'
  <2>1. PICK o \in Calls, t \in Targets, c \in Certs \cup {None},
             first \in {"ensure", "max", "vault", "mark"}, cont \in {"ensure", "fetch"} :
               StartCall(p, o, t, c, first, cont)
    BY <1>2, CallStarts
  <2>2. /\ pc'[p] \notin {"insert", "commit"}
        /\ UNCHANGED <<list, pending, nextVersion>>
        /\ \A q \in Procs \ {p} : pc'[q] = pc[q] /\ target'[q] = target[q]
    BY <2>1 DEF StartCall, Goto, TypeOK, ControlTypes, database
  <2>3. QED
    BY <2>2, BuildFrame
<1>3. ASSUME NEW p \in Procs,
             \/ EnsureDesired(p) \/ EnsureCompare(p) \/ FetchList(p) \/ EnterRegen(p)
             \/ FetchCrl(p) \/ VaultRevoke(p) \/ MarkRevoked(p) \/ RevokePackages(p)
             \/ (PeekReason(p) /\ Goto(p, "enter") /\ UNCHANGED locals)
      PROVE  BuildInv'
  <2>1. /\ pc' = [pc EXCEPT ![p] = pc'[p]] /\ pc'[p] \notin {"insert", "commit"}
        /\ UNCHANGED <<target, nextVersion, list, pending>>
    BY <1>3 DEF TypeOK, ControlTypes, Goto, database, locals, EnsureDesired,
                EnsureCompare, FetchList, EnterRegen, FetchCrl, VaultRevoke,
                MarkRevoked, RevokePackages, PeekReason
  <2>2. QED
    BY <2>1, BuildFrame DEF TypeOK, ControlTypes
<1>4. ASSUME NEW p \in Procs, Return(p) \/ Raise(p) \/ End(p), UNCHANGED <<list, pending>>
      PROVE  BuildInv'
  <2>1. /\ pc'[p] \notin {"insert", "commit"}
        /\ \A q \in Procs \ {p} : /\ pc'[q] = pc[q] /\ target'[q] = target[q]
                                 /\ nextVersion'[q] = nextVersion[q]
    BY <1>4 DEF TypeOK, ControlTypes, LocalTypes, Return, Raise, End, Goto, Forget
  <2>2. QED
    BY <1>4, <2>1, BuildFrame
<1>5. ASSUME NEW p \in Procs,
             \/ PeekReason(p) \/ SkipRegen(p) \/ PublishArtifact(p) \/ AnswerRevoked(p)
             \/ BuildConflict(p) \/ VaultError(p) \/ VaultRevokeUnanswered(p)
      PROVE  BuildInv'
  BY <1>3, <1>4, <1>5 DEF PeekReason, SkipRegen, PublishArtifact, AnswerRevoked,
                          BuildConflict, VaultError, VaultRevokeUnanswered, database
<1>6. ASSUME NEW p \in Procs, BuildMax(p) PROVE BuildInv'
  <2>1. /\ pc' = [pc EXCEPT ![p] = "insert"]
        /\ nextVersion' = [nextVersion EXCEPT ![p] = list[target[p]].version + 1]
        /\ UNCHANGED <<target, list, pending>>
    BY <1>6 DEF BuildMax, Goto, database
  <2>2. list[target[p]].version \in Nat
    BY <1>6 DEF TypeOK, ControlTypes, DatabaseTypes, ListRow, BuildMax, At
  <2>3. QED
    BY <2>1, <2>2 DEF BuildInv, TypeOK, ControlTypes, LocalTypes
<1>7. ASSUME NEW p \in Procs, BuildInsert(p) PROVE BuildInv'
  <2>1. /\ pc' = [pc EXCEPT ![p] = "commit"]
        /\ pending' = [pending EXCEPT ![target[p]] = p]
        /\ pending[target[p]] = None
        /\ nextVersion[p] > list[target[p]].version
        /\ UNCHANGED <<target, list, nextVersion>>
    BY <1>7 DEF BuildInsert, Goto
  <2>2. pc[p] = "insert" /\ target[p] \in Targets
    BY <1>7 DEF TypeOK, ControlTypes, BuildInsert, At
  <2>3. nextVersion[p] = list[target[p]].version + 1
    BY <2>1, <2>2 DEF BuildInv, TypeOK, LocalTypes, DatabaseTypes, ListRow
  <2>4. \A q \in Procs : pc[q] = "commit" => target[q] # target[p] /\ target[q] \in Targets
    BY <2>1, Constants DEF BuildInv, TypeOK, ControlTypes
  <2>5. QED
    BY <2>1, <2>2, <2>3, <2>4 DEF BuildInv, TypeOK, ControlTypes, DatabaseTypes,
                                  LocalTypes, ListRow
<1>8. ASSUME NEW p \in Procs, BuildCommit(p) PROVE BuildInv'
  <2>1. /\ pc[p] = "commit" /\ target[p] \in Targets
        /\ pending[target[p]] = p
        /\ nextVersion[p] = list[target[p]].version + 1
    BY <1>8 DEF BuildInv, TypeOK, ControlTypes, BuildCommit, At
  <2>2. /\ pc'[p] \notin {"insert", "commit"}
        /\ \A q \in Procs \ {p} : /\ pc'[q] = pc[q] /\ target'[q] = target[q]
                                 /\ nextVersion'[q] = nextVersion[q]
    BY <1>8 DEF TypeOK, ControlTypes, LocalTypes, BuildCommit, Goto
  <2>3. /\ list'[target[p]].version = list[target[p]].version + 1
        /\ \A t \in Targets \ {target[p]} : list'[t] = list[t] /\ pending'[t] = pending[t]
    BY <1>8, <2>1 DEF TypeOK, DatabaseTypes, BuildCommit
  <2>4. \A q \in Procs \ {p} : pc[q] = "commit" => target[q] # target[p]
    BY <2>1 DEF BuildInv
  <2>5. \A q \in Procs : pc[q] \in {"insert", "commit"} =>
          /\ target[q] \in Targets
          /\ list[target[q]].version \in Nat
          /\ nextVersion[q] \in Nat
    BY DEF TypeOK, ControlTypes, DatabaseTypes, LocalTypes, ListRow
  <2>6. QED
    BY <2>1, <2>2, <2>3, <2>4, <2>5 DEF BuildInv
<1>9. ASSUME NEW p \in Procs, Step(p) PROVE BuildInv'
  BY <1>3, <1>5, <1>6, <1>7, <1>8, <1>9 DEF Step
<1>10. ASSUME Environment PROVE BuildInv'
  BY <1>1, <1>10 DEF Environment, Issue, Package, ReportActivated, ReportRolledBack, Heartbeat,
                     RegisterApplication, AgeArtifact, IntervalPasses, database
<1>11. ASSUME Restart PROVE BuildInv'
  BY <1>11 DEF Restart, BuildInv
<1>12. QED
  BY <1>1, <1>2, <1>5, <1>9, <1>10, <1>11, Constants DEF Next, vars, database

(***************************************************************************)
(* A certificate taken off its own target's list stays off.                *)
(***************************************************************************)
LEMMA DelistedStep ==
  ASSUME TypeOK, NEW c \in Certs, NEW h \in Targets, Delisted(c, h), [Next]_vars
  PROVE  Delisted(c, h)'
<1>1. ASSUME certStatus'[c] = "revoked",
             list'[h] = list[h] \/ c \notin list'[h].members,
             \A q \in Procs : pc'[q] = "commit" /\ target'[q] = h =>
               \/ pc[q] = "commit" /\ target[q] = h /\ want'[q] = want[q]
               \/ c \notin want'[q]
      PROVE  Delisted(c, h)'
  BY <1>1 DEF Delisted
<1>2. ASSUME NEW p \in Procs, Call(p) \/ (p = Scheduler /\ Sweep) PROVE Delisted(c, h)'
  <2>1. PICK o \in Calls, t \in Targets, d \in Certs \cup {None},
             first \in {"ensure", "max", "vault", "mark"}, cont \in {"ensure", "fetch"} :
               StartCall(p, o, t, d, first, cont)
    BY <1>2, CallStarts
  <2>2. /\ pc'[p] # "commit"
        /\ UNCHANGED <<list, certStatus, want>>
        /\ \A q \in Procs \ {p} : pc'[q] = pc[q] /\ target'[q] = target[q]
    BY <2>1 DEF StartCall, Goto, TypeOK, ControlTypes, database
  <2>3. QED
    BY <1>1, <2>2 DEF Delisted
<1>3. ASSUME NEW p \in Procs,
             pc'[p] # "commit", UNCHANGED list,
             certStatus' = certStatus \/ MarkRevoked(p),
             \A q \in Procs \ {p} : /\ pc'[q] = pc[q] /\ target'[q] = target[q]
                                  /\ want'[q] = want[q]
      PROVE  Delisted(c, h)'
  <2>1. certStatus'[c] = "revoked"
    BY <1>3 DEF Delisted, MarkRevoked, TypeOK, DatabaseTypes
  <2>2. QED
    BY <1>1, <1>3, <2>1
<1>4. ASSUME NEW p \in Procs,
             \/ EnsureDesired(p) \/ EnsureCompare(p) \/ FetchList(p) \/ EnterRegen(p)
             \/ BuildMax(p)
             \/ FetchCrl(p) \/ VaultRevoke(p) \/ MarkRevoked(p) \/ RevokePackages(p)
             \/ (PeekReason(p) /\ Goto(p, "enter") /\ UNCHANGED locals)
      PROVE  Delisted(c, h)'
  <2>1. /\ pc' = [pc EXCEPT ![p] = pc'[p]] /\ pc'[p] # "commit"
        /\ UNCHANGED <<target, list>>
        /\ want' = [want EXCEPT ![p] = want'[p]]
        /\ certStatus' = certStatus \/ MarkRevoked(p)
    BY <1>4 DEF TypeOK, ControlTypes, LocalTypes, Goto, database, locals, EnsureDesired,
                EnsureCompare, FetchList, EnterRegen, FetchCrl, VaultRevoke, BuildMax,
                MarkRevoked, RevokePackages, PeekReason
  <2>2. QED
    BY <1>3, <2>1 DEF TypeOK, ControlTypes, LocalTypes
<1>5. ASSUME NEW p \in Procs, Return(p) \/ Raise(p) \/ End(p),
             UNCHANGED <<list, certStatus>>
      PROVE  Delisted(c, h)'
  <2>1. /\ pc'[p] # "commit"
        /\ \A q \in Procs \ {p} : /\ pc'[q] = pc[q] /\ target'[q] = target[q]
                                 /\ want'[q] = want[q]
    BY <1>5 DEF TypeOK, ControlTypes, LocalTypes, Return, Raise, End, Goto, Forget
  <2>2. QED
    BY <1>3, <1>5, <2>1
<1>6. ASSUME NEW p \in Procs,
             \/ PeekReason(p) \/ SkipRegen(p) \/ PublishArtifact(p) \/ AnswerRevoked(p)
             \/ BuildConflict(p) \/ VaultError(p) \/ VaultRevokeUnanswered(p)
      PROVE  Delisted(c, h)'
  BY <1>4, <1>5, <1>6 DEF PeekReason, SkipRegen, PublishArtifact, AnswerRevoked,
                          BuildConflict, VaultError, VaultRevokeUnanswered, database
<1>7. ASSUME NEW p \in Procs, BuildInsert(p) PROVE Delisted(c, h)'
  <2>1. target[p] \in Targets
    BY <1>7 DEF TypeOK, ControlTypes, BuildInsert, At
  <2>2. c \notin Desired(target[p])
    BY <2>1, DesiredIsActive DEF Delisted
  <2>3. /\ want'[p] = Desired(target[p])
        /\ UNCHANGED <<list, certStatus, target>>
        /\ \A q \in Procs \ {p} : pc'[q] = pc[q] /\ want'[q] = want[q]
    BY <1>7 DEF BuildInsert, Goto, TypeOK, ControlTypes, LocalTypes
  <2>4. QED
    BY <1>1, <2>2, <2>3 DEF Delisted
<1>8. ASSUME NEW p \in Procs, BuildCommit(p) PROVE Delisted(c, h)'
  <2>1. pc[p] = "commit" /\ target[p] \in Targets /\ pc'[p] # "commit"
    BY <1>8 DEF TypeOK, ControlTypes, BuildCommit, At, Goto
  <2>2. /\ list' = [list EXCEPT ![target[p]] =
                     [version |-> nextVersion[p], members |-> want[p]]]
        /\ UNCHANGED <<certStatus, target>>
        /\ \A q \in Procs \ {p} : pc'[q] = pc[q] /\ want'[q] = want[q]
    BY <1>8 DEF BuildCommit, Goto, TypeOK, ControlTypes, LocalTypes
  <2>3. list'[h] = list[h] \/ c \notin list'[h].members
    BY <2>1, <2>2 DEF Delisted, TypeOK, DatabaseTypes
  <2>4. certStatus'[c] = "revoked"
    BY <2>2 DEF Delisted
  <2>5. QED
    BY <1>1, <2>1, <2>2, <2>3, <2>4
<1>9. ASSUME NEW p \in Procs, Step(p) PROVE Delisted(c, h)'
  BY <1>4, <1>6, <1>7, <1>8, <1>9 DEF Step
<1>10. ASSUME UNCHANGED <<pc, locals, list>>, certStatus'[c] = certStatus[c]
       PROVE  Delisted(c, h)'
  BY <1>1, <1>10 DEF locals, Delisted
<1>11. ASSUME NEW d \in Certs, Issue(d) PROVE Delisted(c, h)'
  BY <1>10, <1>11 DEF Issue, TypeOK, DatabaseTypes, Delisted
<1>12. ASSUME Environment PROVE Delisted(c, h)'
  BY <1>10, <1>11, <1>12 DEF Environment, Package, ReportActivated, ReportRolledBack, Heartbeat,
                     RegisterApplication, AgeArtifact, IntervalPasses, database
<1>13. ASSUME Restart PROVE Delisted(c, h)'
  BY <1>1, <1>13 DEF Restart, Delisted
<1>14. QED
  BY <1>2, <1>6, <1>9, <1>10, <1>12, <1>13, Constants DEF Next, vars, database

\* What a step has to show: of a process that moves, what it then claims;
\* of a revocation newly answered, that the certificate is off its list already.
LEMMA ListingParts ==
  ASSUME TypeOK, ListingInv, [Next]_vars,
         \A r \in revokedOk' :
           r \in revokedOk \/ (r \in Revocation /\ Delisted(r.cert, r.target)),
         \A q \in Procs : op'[q] = "revoke" =>
           \/ /\ op[q] = "revoke" /\ cert'[q] = cert[q] /\ target'[q] = target[q]
              /\ pc'[q] = pc[q] /\ after'[q] = after[q] /\ want'[q] = want[q]
           \/ /\ pc'[q] = "commit" => cert'[q] \notin want'[q]
              /\ pc'[q] \in {"vault", "mark", "packages"} => after'[q] = "ensure"
              /\ HasRebuilt(q)' =>
                   \/ /\ op[q] = "revoke" /\ HasRebuilt(q)
                      /\ cert'[q] = cert[q] /\ target'[q] = target[q]
                   \/ Delisted(cert[q], target[q])'
  PROVE  ListingInv'
<1>1. ASSUME NEW c \in Certs, NEW t \in Targets, Delisted(c, t)
      PROVE  Delisted(c, t)'
  BY <1>1, DelistedStep
<1>2. \A r \in revokedOk' : Delisted(r.cert, r.target)'
  BY <1>1 DEF ListingInv, TypeOK, MemoryTypes, Revocation
<1>3. ASSUME NEW q \in Procs, op'[q] = "revoke"
      PROVE  /\ pc'[q] = "commit" => cert'[q] \notin want'[q]
             /\ pc'[q] \in {"vault", "mark", "packages"} => after'[q] = "ensure"
  BY <1>3 DEF ListingInv
<1>4. ASSUME NEW q \in Procs, HasRebuilt(q)'
      PROVE  Delisted(cert[q], target[q])'
  <2>1. CASE /\ op[q] = "revoke" /\ HasRebuilt(q)
             /\ cert'[q] = cert[q] /\ target'[q] = target[q]
    <3>1. /\ cert[q] \in Certs /\ target[q] \in Targets
          /\ Delisted(cert[q], target[q])
      BY <2>1 DEF ListingInv, TypeOK, ControlTypes, HasRebuilt
    <3>2. PICK c \in Certs, t \in Targets : c = cert[q] /\ t = target[q]
      BY <3>1
    <3>3. Delisted(c, t)'
      BY <1>1, <3>1, <3>2
    <3>4. QED
      BY <2>1, <3>2, <3>3 DEF Delisted
  <2>2. QED
    BY <1>4, <2>1 DEF HasRebuilt
<1>5. QED
  BY <1>2, <1>3, <1>4 DEF ListingInv

\* A step that moves no revocation forward past its own list.
LEMMA ListingFrame ==
  ASSUME TypeOK, ListingInv, [Next]_vars, UNCHANGED revokedOk,
         \A q \in Procs : op'[q] = "revoke" =>
           /\ op[q] = "revoke" /\ cert'[q] = cert[q] /\ target'[q] = target[q]
           /\ \/ pc'[q] = pc[q] /\ after'[q] = after[q] /\ want'[q] = want[q]
              \/ /\ pc'[q] \notin {"commit", "vault", "mark", "packages"}
                 /\ HasRebuilt(q)' => HasRebuilt(q)
  PROVE  ListingInv'
  BY ListingParts

LEMMA ListingStep ==
  TypeOK /\ RevokingInv /\ BuildInv /\ ListingInv /\ [Next]_vars => ListingInv'
<1>. SUFFICES ASSUME TypeOK, RevokingInv, BuildInv, ListingInv, [Next]_vars
              PROVE  ListingInv'
  OBVIOUS
<1>1. ASSUME UNCHANGED <<pc, locals, revokedOk>> PROVE ListingInv'
  BY <1>1, ListingFrame DEF locals
<1>2. ASSUME NEW p \in Procs, Call(p) \/ (p = Scheduler /\ Sweep) PROVE ListingInv'
  <2>1. PICK o \in Calls, t \in Targets, c \in Certs \cup {None},
             first \in {"ensure", "max", "vault", "mark"}, cont \in {"ensure", "fetch"} :
               /\ StartCall(p, o, t, c, first, cont)
               /\ first \in {"vault", "mark"} <=> o = "revoke"
               /\ o = "revoke" => cont = "ensure"
    BY <1>2, CallStarts
  <2>2. /\ pc'[p] = first /\ op'[p] = o /\ after'[p] = cont
        /\ UNCHANGED <<want, revokedOk>>
        /\ \A q \in Procs \ {p} :
             /\ pc'[q] = pc[q] /\ op'[q] = op[q] /\ after'[q] = after[q]
             /\ cert'[q] = cert[q] /\ target'[q] = target[q]
    BY <2>1 DEF StartCall, Goto, TypeOK, ControlTypes
  <2>3. QED
    BY <2>1, <2>2, ListingParts DEF HasRebuilt
<1>3. ASSUME NEW p \in Procs,
             \/ EnsureDesired(p) \/ EnsureCompare(p) \/ FetchList(p) \/ EnterRegen(p)
             \/ BuildMax(p) \/ FetchCrl(p) \/ RevokePackages(p)
             \/ (PeekReason(p) /\ Goto(p, "enter") /\ UNCHANGED locals)
      PROVE  ListingInv'
  <2>1. /\ pc' = [pc EXCEPT ![p] = pc'[p]]
        /\ after' = [after EXCEPT ![p] = after'[p]]
        /\ want' = [want EXCEPT ![p] = want'[p]]
        /\ UNCHANGED <<op, cert, target, revokedOk>>
        /\ pc'[p] \notin {"commit", "vault", "mark", "packages"}
    BY <1>3 DEF TypeOK, ControlTypes, LocalTypes, Goto, locals, EnsureDesired,
                EnsureCompare, FetchList, EnterRegen, FetchCrl, BuildMax,
                RevokePackages, PeekReason
  <2>2. HasRebuilt(p)' => HasRebuilt(p)
    BY <1>3 DEF TypeOK, ControlTypes, Goto, At, locals, HasRebuilt, ListingInv,
                EnsureDesired, EnsureCompare, FetchList, EnterRegen, FetchCrl,
                BuildMax, RevokePackages, PeekReason
  <2>3. QED
    BY <2>1, <2>2, ListingFrame DEF TypeOK, ControlTypes, LocalTypes
<1>4. ASSUME NEW p \in Procs, VaultRevoke(p) \/ MarkRevoked(p) PROVE ListingInv'
  <2>1. op[p] = "revoke" /\ after[p] = "ensure"
    BY <1>4 DEF VaultRevoke, MarkRevoked, At, ListingInv, TypeOK, ControlTypes
  <2>2. /\ pc' = [pc EXCEPT ![p] = pc'[p]] /\ pc'[p] \in {"mark", "packages"}
        /\ UNCHANGED <<op, cert, target, after, want, revokedOk>>
    BY <1>4 DEF TypeOK, ControlTypes, VaultRevoke, MarkRevoked, Goto, locals
  <2>3. QED
    BY <2>1, <2>2, ListingParts DEF TypeOK, ControlTypes, HasRebuilt
<1>5. ASSUME NEW p \in Procs,
             \/ op[p] # "revoke" /\ Return(p)
             \/ Raise(p) \/ End(p),
             UNCHANGED revokedOk
      PROVE  ListingInv'
  BY <1>5, Leaving, ListingFrame
<1>6. ASSUME NEW p \in Procs, PeekReason(p) \/ SkipRegen(p) PROVE ListingInv'
  BY <1>3, <1>5, <1>6, ReturnUnforced DEF PeekReason, SkipRegen
<1>7. ASSUME NEW p \in Procs, BuildConflict(p) \/ VaultError(p) \/ VaultRevokeUnanswered(p)
      PROVE  ListingInv'
  BY <1>5, <1>7 DEF BuildConflict, VaultError, VaultRevokeUnanswered
<1>8. ASSUME NEW p \in Procs, PublishArtifact(p) PROVE ListingInv'
  <2>1. UNCHANGED revokedOk /\ Return(p) /\ pc[p] = "publish"
    BY <1>8 DEF PublishArtifact, At
  <2>2. CASE op[p] # "revoke"
    BY <1>5, <2>1, <2>2
  <2>3. CASE op[p] = "revoke"
    <3>1. p # Scheduler
      BY <2>3 DEF RevokingInv
    <3>2. /\ pc' = [pc EXCEPT ![p] = "refresh"] /\ Forget(p)
          /\ UNCHANGED <<op, cert, target>>
      BY <2>1, <2>3, <3>1 DEF Return, Goto
    <3>3. HasRebuilt(p)
      BY <2>1, <2>3 DEF HasRebuilt
    <3>4. QED
      BY <2>1, <3>2, <3>3, ListingFrame DEF Forget, TypeOK, ControlTypes, LocalTypes
  <2>4. QED
    BY <2>2, <2>3
<1>9. ASSUME NEW p \in Procs, BuildInsert(p) PROVE ListingInv'
  <2>1. pc[p] = "insert" /\ target[p] \in Targets
    BY <1>9 DEF BuildInsert, At, TypeOK, ControlTypes
  <2>2. /\ want' = [want EXCEPT ![p] = Desired(target[p])]
        /\ pc' = [pc EXCEPT ![p] = "commit"]
        /\ UNCHANGED <<op, cert, target, after, revokedOk>>
    BY <1>9 DEF BuildInsert, Goto
  <2>3. op[p] = "revoke" => certStatus[cert[p]] = "revoked"
    BY <2>1 DEF RevokingInv
  <2>4. op[p] = "revoke" => cert[p] \notin Desired(target[p])
    BY <2>1, <2>3, DesiredIsActive
  <2>5. QED
    BY <2>1, <2>2, <2>4, ListingParts DEF TypeOK, ControlTypes, LocalTypes, HasRebuilt
<1>10. ASSUME NEW p \in Procs, BuildCommit(p) PROVE ListingInv'
  <2>1. /\ pc[p] = "commit" /\ target[p] \in Targets /\ pending[target[p]] = p
        /\ pc'[p] \in {"ensure", "fetch"}
    BY <1>10 DEF BuildCommit, At, Goto, BuildInv, TypeOK, ControlTypes
  <2>2. /\ pc' = [pc EXCEPT ![p] = after[p]]
        /\ want' = [want EXCEPT ![p] = {}]
        /\ list' = [list EXCEPT ![target[p]] =
                     [version |-> nextVersion[p], members |-> want[p]]]
        /\ UNCHANGED <<op, cert, after, revokedOk, target, certStatus>>
    BY <1>10 DEF BuildCommit, Goto
  <2>3. ASSUME op[p] = "revoke" PROVE Delisted(cert[p], target[p])'
    <3>1. certStatus[cert[p]] = "revoked" /\ cert[p] \notin want[p]
      BY <2>1, <2>3 DEF RevokingInv, ListingInv
    <3>2. \A q \in Procs \ {p} : pc[q] = "commit" => target[q] # target[p]
      BY <2>1 DEF BuildInv
    <3>3. cert[p] \notin list'[target[p]].members
      BY <2>1, <2>2, <3>1 DEF TypeOK, DatabaseTypes
    <3>4. \A q \in Procs : pc'[q] = "commit" => q # p /\ pc[q] = "commit"
      BY <2>1, <2>2 DEF TypeOK, ControlTypes
    <3>5. QED
      BY <2>2, <3>1, <3>2, <3>3, <3>4 DEF Delisted
  <2>4. QED
    BY <2>1, <2>2, <2>3, ListingParts DEF TypeOK, ControlTypes, LocalTypes
<1>11. ASSUME NEW p \in Procs, AnswerRevoked(p) PROVE ListingInv'
  <2>1. /\ End(p)
        /\ revokedOk' = revokedOk \cup {[cert |-> cert[p], target |-> target[p]]}
        /\ op[p] = "revoke" /\ HasRebuilt(p)
    BY <1>11 DEF AnswerRevoked, At, HasRebuilt, TypeOK, ControlTypes
  <2>2. cert[p] \in Certs /\ target[p] \in Targets /\ Delisted(cert[p], target[p])
    BY <2>1 DEF ListingInv, TypeOK, ControlTypes, HasRebuilt
  <2>3. \A r \in revokedOk' : r \in Revocation /\ Delisted(r.cert, r.target)
    BY <2>1, <2>2 DEF ListingInv, TypeOK, MemoryTypes, Revocation
  <2>4. /\ op'[p] # "revoke"
        /\ \A q \in Procs \ {p} :
             /\ pc'[q] = pc[q] /\ op'[q] = op[q] /\ after'[q] = after[q]
             /\ cert'[q] = cert[q] /\ want'[q] = want[q] /\ target'[q] = target[q]
    BY <2>1, Leaving
  <2>5. QED
    BY <2>3, <2>4, ListingParts DEF HasRebuilt
<1>12. ASSUME NEW p \in Procs, Step(p) PROVE ListingInv'
  BY <1>3, <1>4, <1>6, <1>7, <1>8, <1>9, <1>10, <1>11, <1>12 DEF Step
<1>13. ASSUME Environment PROVE ListingInv'
  BY <1>1, <1>13 DEF Environment, Issue, Package, ReportActivated, ReportRolledBack, Heartbeat,
                     RegisterApplication, AgeArtifact, IntervalPasses
<1>14. ASSUME Restart PROVE ListingInv'
  BY <1>14, ListingFrame DEF Restart
<1>15. QED
  BY <1>1, <1>2, <1>7, <1>12, <1>13, <1>14, Constants DEF Next, vars

(***************************************************************************)
(* The theorems.                                                           *)
(***************************************************************************)
LEMMA InvInit == Init => IInv
<1>. SUFFICES ASSUME Init PROVE IInv
  OBVIOUS
<1>1. /\ \A p \in Procs : pc[p] = "idle" /\ op[p] = "read"
      /\ \A c \in Certs : certStatus[c] # "revoked"
      /\ \A t \in Targets : artifact[t].signed = artifact[t].revision
                           /\ artifact[t].crl = {}
      /\ revokedOk = {}
  BY DEF Init
<1>2. LockInv /\ SigningInv
  BY <1>1 DEF LockInv, SigningInv, SignedRevisionIsRowRevision, Signing
<1>3. RevokingInv /\ BuildInv
  BY <1>1, Constants DEF RevokingInv, RevokedSerialIsPublished, BuildInv
<1>4. ListingInv
  BY <1>1 DEF ListingInv, HasRebuilt
<1>5. QED
  BY <1>2, <1>3, <1>4 DEF IInv

LEMMA InvStep == TypeOK /\ TypeOK' /\ IInv /\ [Next]_vars => IInv'
  BY LockStep, SigningStep, RevokingStep, BuildStep, ListingStep DEF IInv

\* The inductive invariant: who holds the regeneration lock works on top of
\* the newest artifact, uncommitted lists succeed the newest, and a
\* revocation that has come past a step has left its effect for good.
THEOREM Invariance == Spec => [](TypeOK /\ IInv)
<1>1. IInv /\ [](TypeOK) /\ [][Next]_vars => []IInv
  <2>1. TypeOK /\ TypeOK' /\ IInv /\ [Next]_vars => IInv'
    BY InvStep
  <2>2. QED
    BY <2>1, PTL
<1>2. QED
  BY InvInit, TypeCorrect, <1>1, PTL DEF Spec

\* SignedRevisionIsRowRevision: however requests interleave, the revision an
\* agent reads in the signed document is the revision the GDS filed it under.
THEOREM SignedRevision == Spec => []SignedRevisionIsRowRevision
<1>1. IInv => SignedRevisionIsRowRevision
  BY DEF IInv, SigningInv
<1>2. QED
  BY Invariance, <1>1, PTL

\* RevokedSerialIsPublished: once POST /certificates/revoke has answered 200,
\* the newest artifact of the certificate's target carries the revocation.
THEOREM RevocationPublished == Spec => []RevokedSerialIsPublished
<1>1. IInv => RevokedSerialIsPublished
  BY DEF IInv, RevokingInv
<1>2. QED
  BY Invariance, <1>1, PTL

\* RevokedNeverListedAtHome: the newest trust list of that target never has
\* the certificate again.
THEOREM RevocationDelisted == Spec => []RevokedNeverListedAtHome
<1>1. IInv => RevokedNeverListedAtHome
  BY DEF IInv, ListingInv, Delisted, RevokedNeverListedAtHome
<1>2. QED
  BY Invariance, <1>1, PTL

\* ListVersionsAreConsecutive: competing builds of a target leave no gap in
\* its versions and reuse none.
LEMMA ConsecutiveStep ==
  ASSUME TypeOK, BuildInv, [Next]_vars
  PROVE  \A t \in Targets : list'[t] # list[t]
                           => list'[t].version = list[t].version + 1
<1>1. ASSUME NEW p \in Procs, BuildCommit(p)
      PROVE  \A t \in Targets : list'[t] # list[t]
                           => list'[t].version = list[t].version + 1
  <2>1. pc[p] = "commit" /\ target[p] \in Targets
        /\ nextVersion[p] = list[target[p]].version + 1
    BY <1>1 DEF BuildCommit, At, BuildInv, TypeOK, ControlTypes
  <2>2. QED
    BY <1>1, <2>1 DEF BuildCommit, TypeOK, DatabaseTypes
<1>2. ASSUME NEW p \in Procs, Call(p) \/ (p = Scheduler /\ Sweep) PROVE UNCHANGED list
  BY <1>2, CallStarts DEF StartCall, database
<1>3. ASSUME NEW p \in Procs, Step(p), ~BuildCommit(p) PROVE UNCHANGED list
  BY <1>3 DEF Step, EnsureDesired, EnsureCompare, BuildMax, BuildInsert, BuildConflict,
              FetchList, PeekReason, EnterRegen, SkipRegen, FetchCrl, PublishArtifact,
              VaultRevoke, MarkRevoked, RevokePackages, AnswerRevoked, database
<1>4. ASSUME NEW p \in Procs, VaultError(p) \/ VaultRevokeUnanswered(p)
      PROVE  UNCHANGED list
  BY <1>4 DEF VaultError, VaultRevokeUnanswered, database
<1>5. ASSUME Environment \/ Restart PROVE UNCHANGED list
  BY <1>5 DEF Environment, Issue, Package, ReportActivated, ReportRolledBack, Heartbeat,
              RegisterApplication, AgeArtifact, IntervalPasses, Restart, database
<1>6. QED
  BY <1>1, <1>2, <1>3, <1>4, <1>5, Constants DEF Next, vars, database

THEOREM ConsecutiveVersions == Spec => ListVersionsAreConsecutive
<1>1. TypeOK /\ IInv /\ [Next]_vars
        => [\A t \in Targets : list'[t] # list[t]
                              => list'[t].version = list[t].version + 1]_list
  BY ConsecutiveStep DEF IInv
<1>2. QED
  BY Invariance, <1>1, PTL DEF Spec, ListVersionsAreConsecutive

(***************************************************************************)
(* TrustPublication implements PublishedTrust.                             *)
(***************************************************************************)
LEMMA PublisherInit == Init => Publisher!Init
<1>. SUFFICES ASSUME Init PROVE Publisher!Init
  OBVIOUS
<1>1. \A t \in Targets : artifact[t].revision \in {0, 1}
                       /\ artifact[t].signed = artifact[t].revision
                       /\ artifact[t].crl = {}
  BY DEF Init
<1>2. QED
  BY <1>1 DEF Publisher!Init, Init

LEMMA PublisherStep ==
  TypeOK /\ SigningInv /\ [Next]_vars => [Publisher!Next]_(Publisher!vars)
<1>. SUFFICES ASSUME TypeOK, SigningInv, [Next]_vars
              PROVE  Publisher!Next \/ UNCHANGED Publisher!vars
  OBVIOUS
<1>1. ASSUME UNCHANGED <<artifact, vaultRevoked>> PROVE UNCHANGED Publisher!vars
  BY <1>1 DEF Publisher!vars
<1>2. ASSUME NEW p \in Procs, PublishArtifact(p) PROVE Publisher!Next
  <2>. DEFINE t == target[p]
  <2>1. /\ t \in Targets /\ pc[p] = "publish" /\ UNCHANGED vaultRevoked
        /\ artifact' = [artifact EXCEPT ![t] =
             [version |-> held[p].version, members |-> held[p].members,
              revision |-> artifact[t].revision + 1, signed |-> revision[p],
              crl |-> crl[p]]]
    BY <1>2 DEF PublishArtifact, At, TypeOK, ControlTypes
  <2>2. /\ artifact[t].crl \subseteq crl[p] /\ crl[p] \subseteq vaultRevoked
        /\ revision[p] = artifact[t].revision + 1
    BY <2>1 DEF SigningInv, Signing
  <2>3. crl[p] \in SUBSET Certs
    BY DEF TypeOK, LocalTypes
  <2>4. \A u \in Targets : artifact'[u] =
          IF u = t THEN [version |-> held[p].version, members |-> held[p].members,
                         revision |-> artifact[t].revision + 1,
                         signed |-> artifact[t].revision + 1, crl |-> crl[p]]
                   ELSE artifact[u]
    BY <2>1, <2>2 DEF TypeOK, DatabaseTypes
  <2>5. PICK u \in Targets, S \in SUBSET Certs : u = t /\ S = crl[p]
    BY <2>1, <2>3
  <2>. DEFINE filed == [x \in Targets |-> [revision |-> artifact[x].revision,
                                         signed |-> artifact[x].signed,
                                         crl |-> artifact[x].crl]]
  <2>6. Publisher!Publish(u, S)
    <3>1. \A x \in Targets :
            filed'[x] = IF x = u
                         THEN [revision |-> artifact[u].revision + 1,
                               signed |-> artifact[u].revision + 1, crl |-> S]
                         ELSE filed[x]
      BY <2>4, <2>5
    <3>2. filed' = [filed EXCEPT ![u] =
                      [revision |-> @.revision + 1, signed |-> @.revision + 1, crl |-> S]]
      BY <3>1
    <3>3. filed[u].crl \subseteq S /\ S \subseteq vaultRevoked
      BY <2>2, <2>5
    <3>4. QED
      BY <2>1, <3>2, <3>3 DEF Publisher!Publish
  <2>7. QED
    BY <2>6 DEF Publisher!Next
<1>3. ASSUME NEW p \in Procs, VaultRevoke(p) \/ VaultRevokeUnanswered(p)
      PROVE  Publisher!Next
  <2>1. cert[p] \in Certs
    BY <1>3 DEF VaultRevoke, VaultRevokeUnanswered, At, TypeOK, ControlTypes
  <2>2. vaultRevoked' = vaultRevoked \cup {cert[p]} /\ UNCHANGED artifact
    BY <1>3 DEF VaultRevoke, VaultRevokeUnanswered, database
  <2>3. QED
    BY <2>1, <2>2 DEF Publisher!Next, Publisher!Revoke
<1>4. ASSUME NEW p \in Procs, Step(p), ~PublishArtifact(p), ~VaultRevoke(p)
      PROVE  UNCHANGED <<artifact, vaultRevoked>>
  BY <1>4 DEF Step, EnsureDesired, EnsureCompare, BuildMax, BuildInsert, BuildConflict,
              BuildCommit, FetchList, PeekReason, EnterRegen, SkipRegen, FetchCrl,
              MarkRevoked, RevokePackages, AnswerRevoked, database
<1>5. ASSUME NEW p \in Procs, Call(p) \/ (p = Scheduler /\ Sweep)
      PROVE  UNCHANGED <<artifact, vaultRevoked>>
  BY <1>5, CallStarts DEF StartCall, database
<1>6. ASSUME NEW p \in Procs, VaultError(p) PROVE UNCHANGED <<artifact, vaultRevoked>>
  BY <1>6 DEF VaultError, database
<1>7. ASSUME Environment \/ Restart PROVE UNCHANGED <<artifact, vaultRevoked>>
  BY <1>7 DEF Environment, Issue, Package, ReportActivated, ReportRolledBack, Heartbeat,
              RegisterApplication, AgeArtifact, IntervalPasses, Restart, database
<1>8. QED
  BY <1>1, <1>2, <1>3, <1>4, <1>5, <1>6, <1>7, Constants DEF Next, vars, database

\* ImplementsPublishedTrust: seen through its signed artifacts, the control
\* plane is a publisher whose revisions have no gap and whose revocations are
\* never taken back, although threads fetch the CRL and file the artifact at
\* different times.
THEOREM Implements == Spec => ImplementsPublishedTrust
<1>1. TypeOK /\ IInv /\ [Next]_vars => [Publisher!Next]_(Publisher!vars)
  BY PublisherStep DEF IInv
<1>2. QED
  BY PublisherInit, Invariance, <1>1, PTL
     DEF Spec, ImplementsPublishedTrust, Publisher!Spec
===============================================================================
