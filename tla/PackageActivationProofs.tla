------------------------ MODULE PackageActivationProofs ------------------------
(***************************************************************************)
(* Proofs about PackageActivation, for any number of runs, plans and       *)
(* files.                                                                  *)
(***************************************************************************)
EXTENDS PackageActivation, TLAPS

(***************************************************************************)
(* The inductive invariant.                                                *)
(*                                                                         *)
(* A run that is alone is the only one to change the disk while it works,  *)
(* so it can rely on what it has read: the runtime is what it found until  *)
(* it copies, the snapshot and the list it makes of it are that runtime,   *)
(* and the files it has copied stay copied.                                *)
(***************************************************************************)
Mutating == {"copy", "verify", "report"}

\* Two runs at work know of each other.
Exclusion ==
  \A r, q \in Runs : AtWork(r) /\ AtWork(q) /\ r # q => ~alone[r]

\* Who touches the runtime, and what it has announced before.
Announced ==
  /\ \A r \in Runs : AtWork(r) => started[r]
  /\ \A r \in Runs : touched[r] => started[r] /\ (at[r] \in Mutating \/ at[r] = "failing" \/ Done(r))
  /\ \A r \in Runs : at[r] \in Mutating => manifest[plan[r]].by # None

\* The comparison of a run that is alone.
Compared ==
  \A r \in Runs : alone[r] /\ at[r] = "compare" =>
    /\ runtime = before[r]
    /\ ~differs[r] => \A f \in Staged[plan[r]] \ todo[r] : runtime[f] = PackageOf[plan[r]]

\* The snapshot of a run that is alone, while it is taken.
Snapping ==
  \A r \in Runs : alone[r] /\ at[r] = "snapshot" =>
    /\ snapper[plan[r]] = r
    /\ runtime = before[r]
    /\ \A f \in todo[r] : before[r][f] # None
    /\ \A f \in Files \ todo[r] :
         /\ noted[r][f] = before[r][f]
         /\ before[r][f] # None => saved[plan[r]][f] = before[r][f]

\* Only overlapping runs find a later run working on the snapshot they take.
Displaced ==
  \A q, r \in Runs : at[q] = "snapshot" /\ q # r /\ snapper[plan[q]] = r => ~alone[r]

\* The snapshot, once taken.
Listed ==
  \A r \in Runs :
    (touched[r] \/ at[r] \in Mutating) /\ alone[r] /\ snapper[plan[r]] = r =>
      /\ manifest[plan[r]] = [by |-> r, files |-> before[r]]
      /\ \A f \in Files : before[r][f] # None => saved[plan[r]][f] = before[r][f]

\* The copying of a run that is alone.
Installed ==
  \A r \in Runs : alone[r] /\ at[r] \in Mutating =>
    \A f \in Staged[plan[r]] \ todo[r] : runtime[f] = PackageOf[plan[r]]

\* Receipts and the runs that wrote them.
Receipted ==
  /\ \A c \in receipts : c.status = "failed" => at[c.by] = "failed" /\ started[c.by] = c.started
  /\ \A r \in Runs : at[r] = "report" =>
       todo[r] = {} /\ \E c \in receipts : c.status = "activated" /\ c.plan = plan[r]

IInv == /\ TypeOK
        /\ Exclusion /\ Announced /\ Compared /\ Snapping /\ Displaced
        /\ Listed /\ Installed /\ Receipted
        /\ UndoBeforeChange /\ ReportedHasReceipt

LEMMA Initially == Init => IInv
<1> SUFFICES ASSUME Init PROVE IInv OBVIOUS
<1> USE ActivationAssumption DEF Init
<1>1. Base \in Store /\ NoFile \in Store
  BY DEF Store, Contents, NoFile
<1>2. TypeOK
  BY <1>1 DEF TypeOK, NoManifest
<1>3. Exclusion /\ Announced /\ Compared /\ Snapping /\ Displaced
  BY DEF Exclusion, Announced, Compared, Snapping, Displaced, AtWork, Mutating
<1>4. Listed /\ Installed /\ Receipted /\ ReportedHasReceipt
  BY DEF Listed, Installed, Receipted, ReportedHasReceipt, Mutating
<1>5. UndoBeforeChange
  BY DEF UndoBeforeChange
<1> QED
  BY <1>2, <1>3, <1>4, <1>5 DEF IInv

(***************************************************************************)
(* Types.                                                                  *)
(***************************************************************************)
LEMMA TypeStep == TypeOK /\ [Next]_vars => TypeOK'
<1> SUFFICES ASSUME TypeOK, [Next]_vars PROVE TypeOK' OBVIOUS
<1> USE ActivationAssumption DEF TypeOK, disk, locals, history, Step
<1>1. ASSUME NEW p \in Plans, Stage(p) \/ RestageBegins(p) \/ RestageEnds(p) PROVE TypeOK'
  <2>1. Stage(p) => TypeOK'
    BY DEF Stage
  <2>2. RestageBegins(p) => TypeOK'
    BY DEF RestageBegins
  <2>3. RestageEnds(p) => TypeOK'
    BY DEF RestageEnds
  <2> QED
    BY <1>1, <2>1, <2>2, <2>3
<1>2. ASSUME NEW r \in Runs, NEW p \in Plans, Invoke(r, p) PROVE TypeOK'
  BY <1>2 DEF Invoke
<1> USE DEF AtWork, Done
<1>3. ASSUME NEW r \in Runs, Refuse(r) \/ AlreadyActivated(r) \/ ReportLost(r) \/ Fail(r) \/ Die(r)
      PROVE  TypeOK'
  BY <1>3 DEF Refuse, AlreadyActivated, ReportLost, Fail, Die
<1>4. ASSUME NEW r \in Runs, Validate(r) PROVE TypeOK'
  BY <1>4 DEF Validate, GetsToWork
<1>5. ASSUME NEW r \in Runs, Compare(r) PROVE TypeOK'
  BY <1>5 DEF Compare, IsNext
<1>6. ASSUME NEW r \in Runs, SnapshotBegins(r) PROVE TypeOK'
  BY <1>6 DEF SnapshotBegins, NoFile, Store, Contents
<1>7. ASSUME NEW r \in Runs, Snapshot(r) PROVE TypeOK'
  BY <1>7 DEF Snapshot, IsNext, Store
<1>8. ASSUME NEW r \in Runs, SnapshotEnds(r) PROVE TypeOK'
  BY <1>8 DEF SnapshotEnds
<1>9. ASSUME NEW r \in Runs, Copy(r) PROVE TypeOK'
  BY <1>9 DEF Copy, IsNext, Store, Contents
<1>10. ASSUME NEW r \in Runs, Verify(r) PROVE TypeOK'
  BY <1>10 DEF Verify, IsNext
<1>11. ASSUME NEW r \in Runs, Receipt(r) \/ FailureReceipt(r) PROVE TypeOK'
  <2>1. ASSUME plan[r] \in Plans PROVE receipts' \subseteq Receipts
    <3>1. [by |-> r, plan |-> plan[r], status |-> "activated", started |-> TRUE] \in Receipts
      BY <2>1 DEF Receipts
    <3>2. [by |-> r, plan |-> plan[r], status |-> "failed", started |-> started[r]] \in Receipts
      BY <2>1 DEF Receipts
    <3>3. receipts \subseteq Receipts
      OBVIOUS
    <3> HIDE DEF Receipts, TypeOK
    <3> QED
      BY <1>11, <3>1, <3>2, <3>3 DEF Receipt, FailureReceipt
  <2>2. CASE Receipt(r)
    BY <2>1, <2>2 DEF Receipt
  <2>3. CASE FailureReceipt(r)
    BY <2>1, <2>3 DEF FailureReceipt
  <2> QED
    BY <1>11, <2>2, <2>3
<1>12. ASSUME NEW r \in Runs, Report(r) PROVE TypeOK'
  BY <1>12 DEF Report
<1>13. CASE UNCHANGED vars
  BY <1>13 DEF vars
<1> QED
  BY <1>1, <1>2, <1>3, <1>4, <1>5, <1>6, <1>7, <1>8, <1>9, <1>10, <1>11, <1>12, <1>13
  DEF Next, RunStep

(***************************************************************************)
(* The actions, one by one.  Staging and a run's own bookkeeping disturb   *)
(* none of the conjuncts.                                                  *)
(***************************************************************************)
LEMMA StagingStep ==
  ASSUME IInv, NEW p \in Plans, Stage(p) \/ RestageBegins(p) \/ RestageEnds(p), TypeOK'
  PROVE  IInv'
<1>1. UNCHANGED <<runtime, saved, manifest, receipts, reported, at, plan, locals,
                  before, touched, alone, snapper>>
  BY DEF Stage, RestageBegins, RestageEnds, history
<1> QED
  BY <1>1 DEF IInv, locals, Exclusion, Announced, Compared, Snapping, Displaced, Listed, Installed,
              Receipted, UndoBeforeChange, ReportedHasReceipt, AtWork, Done

LEMMA InvokeStep ==
  ASSUME IInv, NEW r \in Runs, NEW p \in Plans, Invoke(r, p), TypeOK'
  PROVE  IInv'
<1> USE DEF Mutating
<1>1. /\ at[r] = "idle" /\ at' = [at EXCEPT ![r] = "check"] /\ plan' = [plan EXCEPT ![r] = p]
      /\ UNCHANGED <<disk, locals, history>>
  BY DEF Invoke, Step
<1>2. ~touched[r]
  BY <1>1 DEF IInv, Announced, Done
<1>3. \A q \in Runs : q # r => at'[q] = at[q] /\ plan'[q] = plan[q]
  BY <1>1 DEF IInv, TypeOK
<1>4. at'[r] = "check"
  BY <1>1 DEF IInv, TypeOK
<1> USE <1>1, <1>2, <1>3, <1>4 DEF disk, locals, history, IInv
<1>5. Exclusion' /\ Announced'
  BY DEF Exclusion, Announced, AtWork, Done
<1>6. Compared' /\ Snapping' /\ Displaced'
  BY DEF Compared, Snapping, Displaced
<1>7. Listed' /\ Installed'
  BY DEF Listed, Installed
<1>8. Receipted'
  BY DEF Receipted
<1>9. UndoBeforeChange' /\ ReportedHasReceipt'
  BY DEF UndoBeforeChange, ReportedHasReceipt
<1> QED
  BY <1>5, <1>6, <1>7, <1>8, <1>9

\* The steps that end a run's work, or end it before it got to work.
LEMMA EndingStep ==
  ASSUME IInv, NEW r \in Runs,
         Refuse(r) \/ AlreadyActivated(r) \/ ReportLost(r) \/ Fail(r) \/ Die(r), TypeOK'
  PROVE  IInv'
<1> USE DEF Mutating
<1>1. PICK to \in {"failing", "ok", "dead"} : at' = [at EXCEPT ![r] = to]
  BY DEF Refuse, AlreadyActivated, ReportLost, Fail, Die, Step
<1>2. UNCHANGED <<disk, plan, locals, history>> /\ ~(at[r] = "failed")
  BY DEF Refuse, AlreadyActivated, ReportLost, Fail, Die, Step, AtWork, Done
<1>3. \A q \in Runs : q # r => at'[q] = at[q]
  BY <1>1 DEF IInv, TypeOK
<1>4. at'[r] = to
  BY <1>1 DEF IInv, TypeOK
<1> USE <1>2, <1>3, <1>4 DEF disk, locals, history, IInv
<1>5. Exclusion' /\ Announced'
  BY DEF Exclusion, Announced, AtWork, Done
<1>6. Compared' /\ Snapping' /\ Displaced'
  BY DEF Compared, Snapping, Displaced
<1>7. Listed'
  BY DEF Listed
<1>8. Installed' /\ Receipted'
  <2>1. \A c \in receipts : c.by \in Runs
    BY DEF TypeOK, Receipts
  <2> QED
    BY <2>1 DEF Installed, Receipted
<1>9. UndoBeforeChange' /\ ReportedHasReceipt'
  BY DEF UndoBeforeChange, ReportedHasReceipt
<1> QED
  BY <1>5, <1>6, <1>7, <1>8, <1>9

LEMMA ValidateStep ==
  ASSUME IInv, NEW r \in Runs, Validate(r), TypeOK'
  PROVE  IInv'
<1> USE DEF Mutating
<1> DEFINE others == {q \in Runs \ {r} : AtWork(q)}
<1>1. /\ at[r] = "check" /\ at' = [at EXCEPT ![r] = "compare"]
      /\ started' = [started EXCEPT ![r] = TRUE]
      /\ alone' = [q \in Runs |-> alone[q] /\ (q \in others \cup {r} => others = {})]
      /\ before' = [before EXCEPT ![r] = runtime]
      /\ todo' = [todo EXCEPT ![r] = Staged[plan[r]]]
      /\ UNCHANGED <<disk, plan, differs, noted, touched, snapper>>
  BY DEF Validate, GetsToWork, Step
<1>2. ~touched[r] /\ ~AtWork(r) /\ r \in Runs
  BY <1>1 DEF IInv, Announced, AtWork, Done
<1>3. \A q \in Runs : q # r => at'[q] = at[q] /\ started'[q] = started[q] /\ before'[q] = before[q] /\ todo'[q] = todo[q]
  BY <1>1 DEF IInv, TypeOK
<1>4. at'[r] = "compare" /\ started'[r] = TRUE /\ before'[r] = runtime /\ todo'[r] = Staged[plan[r]]
  BY <1>1 DEF IInv, TypeOK
<1>5. /\ \A q \in Runs : alone'[q] => alone[q]
      /\ \A q \in Runs \ {r} : AtWork(q) => ~alone'[q] /\ ~alone'[r]
  BY <1>1
<1> HIDE DEF others
<1>6. Exclusion'
  BY <1>3, <1>4, <1>5 DEF IInv, Exclusion, AtWork
<1> USE <1>2, <1>3, <1>4, <1>5 DEF IInv, disk
<1>7. UNCHANGED <<disk, plan, differs, noted, touched, snapper>>
  BY <1>1
<1>8. Announced'
  BY <1>7 DEF Announced, AtWork, Done
<1>9. Compared' /\ Snapping' /\ Displaced'
  BY <1>7 DEF Compared, Snapping, Displaced
<1>10. Listed' /\ Installed'
  BY <1>7 DEF Listed, Installed
<1>11. Receipted'
  <2>1. \A c \in receipts : c.by \in Runs
    BY DEF TypeOK, Receipts
  <2>2. receipts' = receipts
    BY <1>7
  <2>3. \A c \in receipts : c.status = "failed" => c.by # r
    BY <1>1 DEF Receipted
  <2>4. \A c \in receipts' : c.status = "failed" => at'[c.by] = "failed" /\ started'[c.by] = c.started
    BY <2>1, <2>2, <2>3 DEF Receipted
  <2>5. \A q \in Runs : at'[q] = "report" =>
          todo'[q] = {} /\ \E c \in receipts' : c.status = "activated" /\ c.plan = plan'[q]
    BY <1>7, <2>2 DEF Receipted
  <2> QED
    BY <2>4, <2>5 DEF Receipted
<1>12. UndoBeforeChange' /\ ReportedHasReceipt'
  BY <1>7 DEF UndoBeforeChange, ReportedHasReceipt
<1> QED
  BY <1>6, <1>8, <1>9, <1>10, <1>11, <1>12

LEMMA CompareStep ==
  ASSUME IInv, NEW r \in Runs, Compare(r), TypeOK'
  PROVE  IInv'
<1> USE DEF Mutating
<1>1. PICK f \in todo[r] :
        /\ differs' = [differs EXCEPT ![r] = differs[r] \/ runtime[f] # PackageOf[plan[r]]]
        /\ todo' = [todo EXCEPT ![r] = todo[r] \ {f}]
  BY DEF Compare, IsNext
<1>2. at[r] = "compare" /\ UNCHANGED <<disk, at, plan, noted, started, history>>
  BY DEF Compare
<1>3. \A q \in Runs : q # r => todo'[q] = todo[q] /\ differs'[q] = differs[q]
  BY <1>1 DEF IInv, TypeOK
<1>4. todo'[r] = todo[r] \ {f} /\ (~differs'[r] => ~differs[r] /\ runtime[f] = PackageOf[plan[r]])
  BY <1>1 DEF IInv, TypeOK
<1> USE <1>2, <1>3, <1>4 DEF IInv, disk, history
<1>5. Compared'
  BY DEF Compared
<1>6. Exclusion' /\ Announced' /\ Snapping' /\ Displaced'
  BY DEF Exclusion, Announced, Snapping, Displaced, AtWork, Done
<1>7. Listed' /\ Installed' /\ Receipted' /\ UndoBeforeChange' /\ ReportedHasReceipt'
  BY DEF Listed, Installed, Receipted, UndoBeforeChange, ReportedHasReceipt
<1> QED
  BY <1>5, <1>6, <1>7

LEMMA SnapshotBeginsStep ==
  ASSUME IInv, NEW r \in Runs, SnapshotBegins(r), TypeOK'
  PROVE  IInv'
<1> USE DEF Mutating
<1>1. /\ at[r] = "compare" /\ at' = [at EXCEPT ![r] = "snapshot"]
      /\ todo' = [todo EXCEPT ![r] = {f \in Files : runtime[f] # None}]
      /\ noted' = [noted EXCEPT ![r] = NoFile]
      /\ snapper' = [snapper EXCEPT ![plan[r]] = r]
      /\ UNCHANGED <<disk, plan, differs, started, before, touched, alone>>
  BY DEF SnapshotBegins, Step
<1>2. AtWork(r) /\ ~touched[r] /\ plan[r] \in Plans /\ \A p \in Plans : snapper'[p] = IF p = plan[r] THEN r ELSE snapper[p]
  <2>1. AtWork(r) /\ ~touched[r]
    BY <1>1 DEF IInv, Announced, AtWork, Done
  <2>2. plan[r] \in Plans /\ snapper \in [Plans -> Runs \cup {None}]
    BY <1>1 DEF IInv, TypeOK
  <2> QED
    BY <1>1, <2>1, <2>2
<1>3. \A q \in Runs : q # r => at'[q] = at[q] /\ todo'[q] = todo[q] /\ noted'[q] = noted[q]
  BY <1>1 DEF IInv, TypeOK
<1>4. /\ at'[r] = "snapshot" /\ todo'[r] = {f \in Files : runtime[f] # None}
      /\ \A f \in Files : noted'[r][f] = None
  BY <1>1 DEF IInv, TypeOK, NoFile
<1>5. \A q \in Runs : at[q] # "idle" => plan[q] \in Plans
  BY DEF IInv, TypeOK
<1>6. UNCHANGED <<disk, plan, differs, started, before, touched, alone>>
  BY <1>1
<1> USE <1>2, <1>3, <1>4, <1>5, <1>6 DEF IInv, disk
<1>7. Exclusion' /\ Announced'
  BY DEF Exclusion, Announced, AtWork, Done
<1>8. Compared' /\ Snapping'
  <2>1. alone[r] => runtime = before[r]
    BY <1>1 DEF Compared
  <2>2. \A q \in Runs : at[q] = "snapshot" /\ alone[q] => plan[q] # plan[r] \/ q = r
    BY <1>1 DEF Exclusion, AtWork
  <2>3. Compared'
    BY DEF Compared
  <2>4. Snapping'
    BY <2>1, <2>2 DEF Snapping
  <2> QED
    BY <2>3, <2>4
<1>9. Displaced'
  BY <1>1 DEF Displaced, Exclusion, AtWork
<1>10. Listed' /\ Installed'
  <2>1. \A q \in Runs : touched'[q] \/ at'[q] \in Mutating => q # r /\ plan[q] \in Plans
    BY DEF Announced, Done
  <2> QED
    BY <2>1 DEF Listed, Installed
<1>11. Receipted'
  <2>1. \A c \in receipts : c.by \in Runs
    BY DEF TypeOK, Receipts
  <2> QED
    BY <1>1, <2>1 DEF Receipted
<1>12. UndoBeforeChange' /\ ReportedHasReceipt'
  BY DEF UndoBeforeChange, ReportedHasReceipt
<1> QED
  BY <1>7, <1>8, <1>9, <1>10, <1>11, <1>12

\* A run in its snapshot, when another run depends on the same one.
LEMMA SnapshotIsOwn ==
  ASSUME IInv, NEW r \in Runs, at[r] = "snapshot",
         NEW q \in Runs, q # r, alone[q], snapper[plan[q]] = q
  PROVE  plan[q] # plan[r]
BY DEF IInv, Displaced

LEMMA SnapshotStep ==
  ASSUME IInv, NEW r \in Runs, Snapshot(r), TypeOK'
  PROVE  IInv'
<1> USE DEF Mutating
<1>1. PICK f \in todo[r] :
        /\ saved' = [saved EXCEPT ![plan[r]][f] = runtime[f]]
        /\ noted' = [noted EXCEPT ![r][f] = runtime[f]]
        /\ todo' = [todo EXCEPT ![r] = todo[r] \ {f}]
  BY DEF Snapshot, IsNext
<1>2. /\ at[r] = "snapshot"
      /\ UNCHANGED <<bundle, runtime, manifest, receipts, reported, at, plan, differs, started, history>>
  BY DEF Snapshot
<1>3. plan[r] \in Plans /\ f \in Files /\ ~touched[r]
  <2>1. plan[r] \in Plans /\ f \in Files
    BY <1>2 DEF IInv, TypeOK
  <2> QED
    BY <2>1, <1>2 DEF IInv, Announced, Done
<1>4. \A q \in Runs : q # r => todo'[q] = todo[q] /\ noted'[q] = noted[q]
  BY <1>1 DEF IInv, TypeOK
<1>5. /\ todo'[r] = todo[r] \ {f} /\ noted'[r][f] = runtime[f]
      /\ \A g \in Files : g # f => noted'[r][g] = noted[r][g]
  BY <1>1, <1>3 DEF IInv, TypeOK, Store
<1>6. /\ saved'[plan[r]][f] = runtime[f]
      /\ \A g \in Files : g # f => saved'[plan[r]][g] = saved[plan[r]][g]
      /\ \A p \in Plans : p # plan[r] => saved'[p] = saved[p]
  BY <1>1, <1>3 DEF IInv, TypeOK, Store
<1>7. \A q \in Runs : at[q] # "idle" => plan[q] \in Plans
  BY DEF IInv, TypeOK
<1> USE <1>2, <1>3, <1>4, <1>5, <1>6, <1>7 DEF IInv, history
<1>8. Exclusion' /\ Announced' /\ Compared' /\ Displaced'
  BY DEF Exclusion, Announced, Compared, Displaced, AtWork, Done
<1>9. Snapping'
  <2>1. \A q \in Runs : q # r /\ at[q] = "snapshot" => ~alone[q]
    BY DEF Exclusion, AtWork
  <2>2. alone[r] => /\ snapper[plan[r]] = r /\ runtime = before[r]
                    /\ \A g \in todo[r] : before[r][g] # None
                    /\ \A g \in Files \ todo[r] :
                         /\ noted[r][g] = before[r][g]
                         /\ before[r][g] # None => saved[plan[r]][g] = before[r][g]
    BY DEF Snapping
  <2> QED
    BY <2>1, <2>2 DEF Snapping
<1>10. Listed'
  <2>1. \A q \in Runs : touched[q] \/ at[q] \in Mutating => q # r /\ plan[q] \in Plans
    BY DEF Announced, Done
  <2>2. \A q \in Runs : q # r /\ alone[q] /\ snapper[plan[q]] = q => plan[q] # plan[r]
    BY SnapshotIsOwn
  <2> QED
    BY <2>1, <2>2 DEF Listed
<1>11. Installed' /\ Receipted'
  BY DEF Installed, Receipted
<1>12. UndoBeforeChange' /\ ReportedHasReceipt'
  BY DEF UndoBeforeChange, ReportedHasReceipt
<1> QED
  BY <1>8, <1>9, <1>10, <1>11, <1>12

LEMMA SnapshotEndsStep ==
  ASSUME IInv, NEW r \in Runs, SnapshotEnds(r), TypeOK'
  PROVE  IInv'
<1> USE DEF Mutating
<1>1. /\ at[r] = "snapshot" /\ at' = [at EXCEPT ![r] = "copy"]
      /\ todo[r] = {} /\ todo' = [todo EXCEPT ![r] = Staged[plan[r]]]
      /\ manifest' = [manifest EXCEPT ![plan[r]] = [by |-> r, files |-> noted[r]]]
      /\ UNCHANGED <<bundle, runtime, saved, receipts, reported, plan, differs, noted, started, history>>
  BY DEF SnapshotEnds, Step
<1>2. plan[r] \in Plans /\ \A q \in Runs : at[q] # "idle" => plan[q] \in Plans
  BY <1>1 DEF IInv, TypeOK
<1>3. /\ manifest'[plan[r]] = [by |-> r, files |-> noted[r]]
      /\ \A p \in Plans : p # plan[r] => manifest'[p] = manifest[p]
  BY <1>1, <1>2 DEF IInv, TypeOK
<1>4. \A q \in Runs : q # r => at'[q] = at[q] /\ todo'[q] = todo[q]
  BY <1>1 DEF IInv, TypeOK
<1>5. at'[r] = "copy" /\ todo'[r] = Staged[plan[r]]
  BY <1>1 DEF IInv, TypeOK
<1>6. manifest'[plan[r]].by = r /\ r # None
  BY <1>3, ActivationAssumption
<1>7. UNCHANGED <<bundle, runtime, saved, receipts, reported, plan, differs, noted, started, history>>
  BY <1>1
<1>8. \A p \in Plans : manifest[p].by # None => manifest'[p].by # None
  BY <1>3, <1>6
<1> USE <1>2, <1>4, <1>5, <1>7, <1>8 DEF IInv, history
<1>9. Exclusion' /\ Compared' /\ Snapping' /\ Displaced'
  BY <1>1 DEF Exclusion, Compared, Snapping, Displaced, AtWork
<1>10. Announced'
  BY <1>1, <1>6 DEF Announced, AtWork, Done
<1>11. Listed'
  <2>1. alone[r] => /\ \A f \in Files : noted[r][f] = before[r][f]
                    /\ \A f \in Files : before[r][f] # None => saved[plan[r]][f] = before[r][f]
    BY <1>1 DEF Snapping
  <2>2. alone[r] => noted[r] = before[r]
    BY <2>1 DEF TypeOK, Store
  <2>3. \A q \in Runs : q # r /\ (touched[q] \/ at[q] \in Mutating) => plan[q] \in Plans
    BY DEF Announced, Done
  <2>4. \A q \in Runs : q # r /\ alone[q] /\ snapper[plan[q]] = q => plan[q] # plan[r]
    BY <1>1, SnapshotIsOwn
  <2> QED
    BY <1>3, <2>1, <2>2, <2>3, <2>4 DEF Listed
<1>12. Installed'
  BY DEF Installed
<1>13. Receipted'
  <2>1. \A c \in receipts : c.by \in Runs
    BY DEF TypeOK, Receipts
  <2> QED
    BY <1>1, <2>1 DEF Receipted
<1>14. UndoBeforeChange' /\ ReportedHasReceipt'
  BY DEF UndoBeforeChange, ReportedHasReceipt
<1> QED
  BY <1>9, <1>10, <1>11, <1>12, <1>13, <1>14

LEMMA CopyStep ==
  ASSUME IInv, NEW r \in Runs, Copy(r), TypeOK'
  PROVE  IInv'
<1> USE DEF Mutating
<1>1. PICK f \in todo[r] : runtime' = [runtime EXCEPT ![f] = PackageOf[plan[r]]]
  BY DEF Copy, IsNext
<1>2. /\ at[r] = "copy" /\ at' = [at EXCEPT ![r] = "verify"]
      /\ touched' = [touched EXCEPT ![r] = TRUE]
      /\ UNCHANGED <<bundle, saved, manifest, receipts, reported, plan, locals, before, alone, snapper>>
  BY DEF Copy, Step
<1>3. plan[r] \in Plans /\ f \in Files /\ AtWork(r)
  BY <1>2 DEF IInv, TypeOK, AtWork
<1>4. runtime'[f] = PackageOf[plan[r]] /\ \A g \in Files : g # f => runtime'[g] = runtime[g]
  BY <1>1, <1>3 DEF IInv, TypeOK, Store
<1>5. \A q \in Runs : q # r => at'[q] = at[q] /\ touched'[q] = touched[q]
  BY <1>2 DEF IInv, TypeOK
<1>6. at'[r] = "verify" /\ touched'[r] = TRUE
  BY <1>2 DEF IInv, TypeOK
<1>7. \A q \in Runs : AtWork(q) /\ q # r => ~alone[q]
  BY <1>3 DEF IInv, Exclusion
<1>8. UNCHANGED <<bundle, saved, manifest, receipts, reported, plan, locals, before, alone, snapper>>
  BY <1>2
<1> USE <1>5, <1>6, <1>8 DEF IInv, locals
<1>9. Exclusion' /\ Announced'
  BY <1>2, <1>3 DEF Exclusion, Announced, AtWork, Done
<1>10. Compared' /\ Snapping' /\ Displaced'
  BY <1>7 DEF Compared, Snapping, Displaced, AtWork
<1>11. Listed'
  BY <1>2 DEF Listed
<1>12. Installed'
  <2>1. \A g \in Staged[plan[r]] : g \in Files
    BY <1>3, ActivationAssumption
  <2> QED
    BY <1>2, <1>4, <1>7, <2>1 DEF Installed, AtWork
<1>13. Receipted'
  <2>1. \A c \in receipts : c.by \in Runs
    BY DEF TypeOK, Receipts
  <2> QED
    BY <1>2, <2>1 DEF Receipted
<1>14. UndoBeforeChange'
  <2>1. manifest[plan[r]].by # None
    BY <1>2 DEF Announced
  <2> QED
    BY <1>3, <1>4, <2>1 DEF UndoBeforeChange
<1>15. ReportedHasReceipt'
  BY DEF ReportedHasReceipt
<1> QED
  BY <1>9, <1>10, <1>11, <1>12, <1>13, <1>14, <1>15

LEMMA VerifyStep ==
  ASSUME IInv, NEW r \in Runs, Verify(r), TypeOK'
  PROVE  IInv'
<1> USE DEF Mutating
<1>1. at[r] = "verify" /\ UNCHANGED <<disk, plan, differs, noted, started, history>>
  BY DEF Verify
<1>2. PICK f \in todo[r], to \in {"copy", "failing"} :
        /\ at' = [at EXCEPT ![r] = to]
        /\ \/ todo' = todo
           \/ todo' = [todo EXCEPT ![r] = todo[r] \ {f}] /\ runtime[f] = PackageOf[plan[r]]
  BY DEF Verify, IsNext
<1>3. \A q \in Runs : q # r => at'[q] = at[q] /\ todo'[q] = todo[q]
  BY <1>2 DEF IInv, TypeOK
<1>4. at'[r] = to
  BY <1>2 DEF IInv, TypeOK
<1>5. \/ todo'[r] = todo[r]
      \/ todo'[r] = todo[r] \ {f} /\ runtime[f] = PackageOf[plan[r]]
  BY <1>2 DEF IInv, TypeOK
<1>6. UNCHANGED <<disk, plan, differs, noted, started, history>>
  BY <1>1
<1> USE <1>3, <1>4, <1>6 DEF IInv, disk, history
<1>7. Exclusion' /\ Announced' /\ Compared' /\ Snapping' /\ Displaced'
  BY <1>1 DEF Exclusion, Announced, Compared, Snapping, Displaced, AtWork, Done
<1>8. Listed'
  BY <1>1 DEF Listed
<1>9. Installed'
  BY <1>1, <1>5 DEF Installed
<1>10. Receipted'
  <2>1. \A c \in receipts : c.by \in Runs
    BY DEF TypeOK, Receipts
  <2> QED
    BY <1>1, <2>1 DEF Receipted
<1>11. UndoBeforeChange' /\ ReportedHasReceipt'
  BY DEF UndoBeforeChange, ReportedHasReceipt
<1> QED
  BY <1>7, <1>8, <1>9, <1>10, <1>11

LEMMA ReceiptStep ==
  ASSUME IInv, NEW r \in Runs, Receipt(r), TypeOK'
  PROVE  IInv'
<1> USE DEF Mutating
<1> DEFINE new == [by |-> r, plan |-> plan[r], status |-> "activated", started |-> TRUE]
<1>1. /\ at[r] = "copy" /\ at' = [at EXCEPT ![r] = "report"] /\ todo[r] = {}
      /\ receipts' = receipts \cup {new}
      /\ UNCHANGED <<bundle, runtime, saved, manifest, reported, plan, locals, history>>
  BY DEF Receipt, Step
<1>2. \A q \in Runs : q # r => at'[q] = at[q]
  BY <1>1 DEF IInv, TypeOK
<1>3. at'[r] = "report"
  BY <1>1 DEF IInv, TypeOK
<1>4. UNCHANGED <<bundle, runtime, saved, manifest, reported, plan, locals, history>>
  BY <1>1
<1> USE <1>2, <1>3, <1>4 DEF IInv, locals, history
<1>5. Exclusion' /\ Announced' /\ Compared' /\ Snapping' /\ Displaced'
  BY <1>1 DEF Exclusion, Announced, Compared, Snapping, Displaced, AtWork, Done
<1>6. Listed' /\ Installed'
  BY <1>1 DEF Listed, Installed
<1>7. Receipted'
  <2>1. \A c \in receipts : c.by \in Runs
    BY DEF TypeOK, Receipts
  <2>2. new \in receipts' /\ new.status = "activated" /\ new.plan = plan'[r]
    BY <1>1
  <2>3. \A c \in receipts' : c \in receipts \/ c.status # "failed"
    BY <1>1
  <2>4. \A c \in receipts : c.status = "failed" => c.by # r
    BY <1>1 DEF Receipted
  <2>5. \A c \in receipts' : c.status = "failed" => at'[c.by] = "failed" /\ started'[c.by] = c.started
    BY <2>1, <2>3, <2>4 DEF Receipted
  <2>6. receipts \subseteq receipts'
    BY <1>1
  <2>7. \A q \in Runs : at'[q] = "report" =>
          todo'[q] = {} /\ \E c \in receipts' : c.status = "activated" /\ c.plan = plan'[q]
    <3>1. todo'[r] = {} /\ plan' = plan /\ todo' = todo
      BY <1>1, <1>4
    <3> QED
      BY <2>2, <2>6, <3>1 DEF Receipted
  <2> QED
    BY <2>5, <2>7 DEF Receipted
<1>8. UndoBeforeChange' /\ ReportedHasReceipt'
  BY <1>1 DEF UndoBeforeChange, ReportedHasReceipt
<1> QED
  BY <1>5, <1>6, <1>7, <1>8

LEMMA ReportStep ==
  ASSUME IInv, NEW r \in Runs, Report(r), TypeOK'
  PROVE  IInv'
<1> USE DEF Mutating
<1>1. /\ at[r] = "report" /\ at' = [at EXCEPT ![r] = "ok"]
      /\ reported' = reported \cup {PackageOf[plan[r]]}
      /\ UNCHANGED <<bundle, runtime, saved, manifest, receipts, plan, locals, history>>
  BY DEF Report, Step
<1>2. \A q \in Runs : q # r => at'[q] = at[q]
  BY <1>1 DEF IInv, TypeOK
<1>3. at'[r] = "ok"
  BY <1>1 DEF IInv, TypeOK
<1>4. UNCHANGED <<bundle, runtime, saved, manifest, receipts, plan, locals, history>>
  BY <1>1
<1> USE <1>2, <1>3, <1>4 DEF IInv, locals, history
<1>5. Exclusion' /\ Announced' /\ Compared' /\ Snapping' /\ Displaced'
  BY <1>1 DEF Exclusion, Announced, Compared, Snapping, Displaced, AtWork, Done
<1>6. Listed' /\ Installed'
  BY <1>1 DEF Listed, Installed
<1>7. Receipted'
  <2>1. \A c \in receipts : c.by \in Runs
    BY DEF TypeOK, Receipts
  <2> QED
    BY <1>1, <2>1 DEF Receipted
<1>8. UndoBeforeChange'
  BY DEF UndoBeforeChange
<1>9. ReportedHasReceipt'
  BY <1>1 DEF ReportedHasReceipt, Receipted
<1> QED
  BY <1>5, <1>6, <1>7, <1>8, <1>9

LEMMA FailureReceiptStep ==
  ASSUME IInv, NEW r \in Runs, FailureReceipt(r), TypeOK'
  PROVE  IInv'
<1> USE DEF Mutating
<1> DEFINE new == [by |-> r, plan |-> plan[r], status |-> "failed", started |-> started[r]]
<1>1. /\ at[r] = "failing" /\ at' = [at EXCEPT ![r] = "failed"]
      /\ receipts' = receipts \cup {new} \/ receipts' = receipts
      /\ UNCHANGED <<bundle, runtime, saved, manifest, reported, plan, locals, history>>
  BY DEF FailureReceipt, Step
<1>2. \A q \in Runs : q # r => at'[q] = at[q]
  BY <1>1 DEF IInv, TypeOK
<1>3. at'[r] = "failed"
  BY <1>1 DEF IInv, TypeOK
<1>4. UNCHANGED <<bundle, runtime, saved, manifest, reported, plan, locals, history>>
  BY <1>1
<1> USE <1>2, <1>3, <1>4 DEF IInv, locals, history
<1>5. Exclusion' /\ Announced' /\ Compared' /\ Snapping' /\ Displaced'
  BY <1>1 DEF Exclusion, Announced, Compared, Snapping, Displaced, AtWork, Done
<1>6. Listed' /\ Installed'
  BY <1>1 DEF Listed, Installed
<1>7. Receipted'
  <2>1. \A c \in receipts : c.by \in Runs
    BY DEF TypeOK, Receipts
  <2>2. \A c \in receipts' : c \in receipts \/ c = new
    BY <1>1
  <2>3. new.by = r /\ new.started = started'[r]
    OBVIOUS
  <2>4. \A c \in receipts' : c.status = "failed" => at'[c.by] = "failed" /\ started'[c.by] = c.started
    BY <2>1, <2>2, <2>3 DEF Receipted
  <2>5. receipts \subseteq receipts'
    BY <1>1
  <2>6. \A q \in Runs : at'[q] = "report" =>
          todo'[q] = {} /\ \E c \in receipts' : c.status = "activated" /\ c.plan = plan'[q]
    BY <2>5 DEF Receipted
  <2> QED
    BY <2>4, <2>6 DEF Receipted
<1>8. UndoBeforeChange' /\ ReportedHasReceipt'
  BY <1>1 DEF UndoBeforeChange, ReportedHasReceipt
<1> QED
  BY <1>5, <1>6, <1>7, <1>8

LEMMA Inductive == IInv /\ [Next]_vars => IInv'
<1> SUFFICES ASSUME IInv, [Next]_vars PROVE IInv' OBVIOUS
<1>1. TypeOK'
  BY TypeStep DEF IInv
<1>2. ASSUME NEW p \in Plans, Stage(p) \/ RestageBegins(p) \/ RestageEnds(p) PROVE IInv'
  BY <1>1, <1>2, StagingStep
<1>3. ASSUME NEW r \in Runs, RunStep(r) PROVE IInv'
  BY <1>1, <1>3, InvokeStep, EndingStep, ValidateStep, CompareStep, SnapshotBeginsStep, SnapshotStep,
     SnapshotEndsStep, CopyStep, VerifyStep, ReceiptStep, ReportStep, FailureReceiptStep
  DEF RunStep
<1>4. CASE UNCHANGED vars
  BY <1>4 DEF vars, disk, locals, history, IInv, TypeOK, Exclusion, Announced, Compared, Snapping,
              Displaced, Listed, Installed, Receipted, UndoBeforeChange, ReportedHasReceipt, AtWork, Done
<1> QED
  BY <1>2, <1>3, <1>4 DEF Next

(***************************************************************************)
(* The theorems.                                                           *)
(***************************************************************************)

\* The inductive invariant holds of every state of the runs and the disk.
THEOREM Invariance == Spec => []IInv
BY Initially, Inductive, PTL DEF Spec

\* Bundles, trust store, snapshots, receipts and runs keep their types.
THEOREM TypeCorrect == Spec => []TypeOK
<1>1. IInv => TypeOK
  BY DEF IInv
<1> QED
  BY <1>1, Invariance, PTL

\* _snapshot_runtime_non_private comes before the first _copy_file_bytes_only of
\* any plan of the package, on disk, whatever dies.
THEOREM UndoFirst == Spec => []UndoBeforeChange
<1>1. IInv => UndoBeforeChange
  BY DEF IInv
<1> QED
  BY <1>1, Invariance, PTL

\* The rollback snapshot of activate_package_runtime is the trust store the run
\* found, for any files and any interleaving, unless runs overlap.
THEOREM RollbackIsFaithful == Spec => []RollbackRestores
<1>1. IInv => RollbackRestores
  BY DEF IInv, Listed, RollbackRestores
<1> QED
  BY <1>1, Invariance, PTL

\* mutation_started: FALSE of write_activation_failure_receipt can be relied on.
THEOREM UnstartedIsHonest == Spec => []UnstartedLeftAlone
<1>1. IInv => UnstartedLeftAlone
  <2> SUFFICES ASSUME IInv, NEW c \in receipts, c.status = "failed", ~c.started, touched[c.by]
               PROVE  FALSE
    BY DEF UnstartedLeftAlone
  <2>1. c.by \in Runs
    BY DEF IInv, TypeOK, Receipts
  <2>2. started[c.by] = c.started
    BY DEF IInv, Receipted
  <2> QED
    BY <2>1, <2>2 DEF IInv, Announced
<1> QED
  BY <1>1, Invariance, PTL

\* GDS is told package_activated only after the receipt was written.
THEOREM ReportsAreReceipted == Spec => []ReportedHasReceipt
<1>1. IInv => ReportedHasReceipt
  BY DEF IInv
<1> QED
  BY <1>1, Invariance, PTL

\* Exit code 0 of --activate-package, with a receipt or with
\* package_runtime_already_activated, means that the bundle is installed.
THEOREM SuccessIsInstalled == Spec => SuccessMeansInstalled
<1>1. IInv /\ [Next]_vars =>
        [\A r \in Runs : (AtWork(r) /\ at'[r] = "ok" /\ alone[r]) =>
           \A f \in Staged[plan[r]] : runtime'[f] = PackageOf[plan[r]]]_vars
  <2> SUFFICES ASSUME IInv, Next, NEW r \in Runs, AtWork(r), at'[r] = "ok", alone[r]
               PROVE  \A f \in Staged[plan[r]] : runtime'[f] = PackageOf[plan[r]]
    BY DEF vars
  <2>1. at[r] # "ok" /\ at \in [Runs -> {"idle", "check", "compare", "snapshot", "copy", "verify",
                      "report", "failing", "ok", "failed", "dead"}]
    BY DEF AtWork, IInv, TypeOK
  <2>2. AlreadyActivated(r) \/ Report(r) \/ ReportLost(r)
    <3>1. at' # at
      BY <2>1
    <3>2. PICK q \in Runs : RunStep(q)
      BY <3>1 DEF Next, Stage, RestageBegins, RestageEnds
    <3>3. ~Compare(q) /\ ~Snapshot(q)
      BY <3>1 DEF Compare, Snapshot
    <3>4. PICK to \in {"check", "compare", "snapshot", "copy", "verify", "report", "failing", "ok", "failed", "dead"} :
            /\ at' = [at EXCEPT ![q] = to]
            /\ to = "ok" => AlreadyActivated(q) \/ Report(q) \/ ReportLost(q)
      BY <3>2, <3>3 DEF RunStep, Invoke, Refuse, Validate, AlreadyActivated, SnapshotBegins, SnapshotEnds, Copy,
                        Verify, Receipt, Report, ReportLost, Fail, FailureReceipt, Die, Step
    <3>5. q = r /\ to = "ok"
      BY <2>1, <3>4
    <3> QED
      BY <3>4, <3>5
  <2>3. runtime' = runtime
    BY <2>2 DEF AlreadyActivated, Report, ReportLost, disk
  <2>4. CASE AlreadyActivated(r)
    BY <2>3, <2>4 DEF AlreadyActivated, Step, IInv, Compared
  <2>5. CASE Report(r) \/ ReportLost(r)
    <3>1. at[r] = "report"
      BY <2>5 DEF Report, ReportLost, Step
    <3>2. todo[r] = {}
      BY <3>1 DEF IInv, Receipted
    <3> QED
      BY <2>3, <3>1, <3>2 DEF IInv, Installed, Mutating
  <2> QED
    BY <2>2, <2>4, <2>5
<1> QED
  BY <1>1, Invariance, PTL DEF Spec, SuccessMeansInstalled
===============================================================================
