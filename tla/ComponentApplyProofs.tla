------------------------ MODULE ComponentApplyProofs ------------------------
(***************************************************************************)
(* Proofs about ComponentApply, for any number of processes, files,        *)
(* operators, revisions and failures.                                      *)
(***************************************************************************)
EXTENDS ComponentApply, FiniteSetTheorems, TLAPS

(***************************************************************************)
(* The inductive invariant.                                                *)
(***************************************************************************)
\* A process that is clean, or any process while processes never overlapped,
\* is the only one.
Alone(p) == \A q \in Procs \ {p} : run[q].at = "idle"

Single ==
  \A p \in Procs : run[p].at # "idle" /\ (run[p].clean \/ ~tangled) => Alone(p)

\* Which command is where.
Routed ==
  \A p \in Procs :
    /\ run[p].at \in {"request", "keep"} => run[p].what \in {"pull", "enroll"}
    /\ run[p].at = "load" => run[p].what \in {"auto", "trust_only", "certificate_and_trust"}
    /\ run[p].at \in Mutates \ {"copy", "applied"} => run[p].what = "trust_only"
    /\ run[p].at = "copy" => run[p].what = "certificate_and_trust"

(***************************************************************************)
(* How far a clean trust-only apply has come.                              *)
(***************************************************************************)
ForeignKept(r) == \A f \in Foreign : disk[f] = r.before[f]

SnapshotOf(r) == \A f \in Files : r.kept[f] = IF f \in Lists THEN r.before[f] ELSE 0

Exact(r) == \A f \in Controlled : disk[f] = IF f \in Carries(r.doc) THEN r.doc ELSE 0

Blame(r) == r.doc <= expired \/ Problems \cap Foreign # {}

Reached(r) ==
  /\ r.at \in {"chain", "snapshot"} => \A f \in Lists : disk[f] = r.before[f]
  /\ r.at \in {"delete", "write", "validate", "restore"} => ForeignKept(r) /\ SnapshotOf(r)
  /\ r.at = "delete" =>
       /\ r.todo \subseteq Controlled
       /\ \A f \in Controlled : f \in r.todo \/ disk[f] = 0
  /\ r.at = "write" =>
       /\ r.todo \subseteq Carries(r.doc)
       /\ \A f \in Controlled : disk[f] = IF f \in Carries(r.doc) \ r.todo THEN r.doc ELSE 0
  /\ r.at \in {"validate", "peers", "applied"} => Exact(r)
  /\ r.at = "restore" =>
       /\ Blame(r)
       /\ \A f \in Lists : f \in r.todo \/ r.before[f] = 0 \/ disk[f] = r.before[f]
  /\ r.at = "refused" =>
       /\ Blame(r)
       /\ \A f \in Lists : r.before[f] = 0 \/ disk[f] = r.before[f]

InPlace == \A p \in Procs : run[p].clean /\ run[p].what = "trust_only" => Reached(run[p])

(***************************************************************************)
(* While processes never overlapped and no package was applied by name,    *)
(* what is installed is at most what the next apply would install.         *)
(***************************************************************************)
Own     == Controlled \cup Of({"leftover"})
Top     == IF cached # 0 THEN cached ELSE package
Ceiling == IF Top = 0 THEN 1 ELSE Top

Ahead(r) ==
  /\ r.at = "load" => r.what # "certificate_and_trust"
  /\ r.at = "keep" => r.doc # 0 /\ r.doc >= cached /\ r.doc >= package
  /\ r.at \in Mutates \cup {"gate"} => r.doc = Top
  /\ r.at \in Mutates => \A f \in Own : r.before[f] <= Top
  /\ r.at \in {"delete", "write", "validate", "restore"} => \A f \in Own : r.kept[f] <= Ceiling
  /\ r.at = "copy" => r.todo \subseteq Packaged
  /\ r.at = "write" => r.todo \subseteq Controlled
  /\ r.at \in Mutates \ {"restore", "refused"} =>
       \A f \in Lists : disk[f] = 0 \/ disk[f] >= r.before[f]

Forward ==
  ~tangled => /\ \A f \in Own : disk[f] <= Ceiling
              /\ \A p \in Procs : Ahead(run[p])

IInv ==
  /\ TypeOK
  /\ Single
  /\ Routed
  /\ InPlace
  /\ Forward

(***************************************************************************)
(* Types.                                                                  *)
(***************************************************************************)
\* The record of an idle process is a process's record.
LEMMA IdleIsRun == gds \in 1 .. MaxRevision => Idle \in Runs
BY ComponentAssumption DEF Idle, Nothing, Runs, Places, Commands

\* Taking an approval out leaves a sequence of approvals.
LEMMA WithoutIsSequence ==
  ASSUME NEW s \in Seq(Approval), NEW i \in DOMAIN s
  PROVE  Without(s, i) \in Seq(Approval)
<1>1. Len(s) \in Nat /\ Len(s) - 1 \in Nat /\ i \in 1 .. Len(s)
  OBVIOUS
<1>2. \A j \in 1 .. Len(s) : s[j] \in Approval
  OBVIOUS
<1>3. \A j \in 1 .. Len(s) - 1 : j \in 1 .. Len(s) /\ j + 1 \in 1 .. Len(s)
  BY <1>1
<1>4. \A n \in Nat : \A t \in [1 .. n -> Approval] : t \in Seq(Approval)
  OBVIOUS
<1>5. Without(s, i) \in [1 .. Len(s) - 1 -> Approval]
  BY <1>2, <1>3 DEF Without
<1> QED
  BY <1>1, <1>4, <1>5

\* The file a loop of the code takes next is one of those left.
LEMMA NextIsOf ==
  ASSUME NEW S \in SUBSET Files, S # {}
  PROVE  NextOf(S) \in S
<1>1. \A f \in Files : Rank(f) \in 0 .. 4
  BY DEF Rank
<1>2. \E f \in S : \A g \in S : Rank(f) <= Rank(g)
  <2> DEFINE Low(n) == \E f \in S : Rank(f) = n
  <2>1. Low(0) \/ Low(1) \/ Low(2) \/ Low(3) \/ Low(4)
    BY <1>1
  <2>2. ASSUME NEW n \in 0 .. 4, Low(n), \A m \in 0 .. 4 : m < n => ~ Low(m)
        PROVE  \E f \in S : \A g \in S : Rank(f) <= Rank(g)
    <3>1. PICK f \in S : Rank(f) = n
      BY <2>2
    <3>2. \A g \in S : ~ (Rank(g) < n)
      BY <1>1, <2>2
    <3>3. \A g \in S : Rank(f) <= Rank(g)
      BY <1>1, <3>1, <3>2
    <3> QED
      BY <3>3
  <2> HIDE DEF Low
  <2>3. CASE Low(0)
    BY <2>2, <2>3
  <2>4. CASE ~ Low(0) /\ Low(1)
    BY <2>2, <2>4
  <2>5. CASE ~ Low(0) /\ ~ Low(1) /\ Low(2)
    BY <2>2, <2>5
  <2>6. CASE ~ Low(0) /\ ~ Low(1) /\ ~ Low(2) /\ Low(3)
    BY <2>2, <2>6
  <2>7. CASE ~ Low(0) /\ ~ Low(1) /\ ~ Low(2) /\ ~ Low(3)
    BY <2>1, <2>2, <2>7
  <2> QED
    BY <2>3, <2>4, <2>5, <2>6, <2>7
<1> QED
  BY <1>2 DEF NextOf

\* What the types say of the processes' records.
LEMMA ActingType ==
  TypeOK => /\ Idle \in Runs /\ Idle.at = "idle" /\ Idle.clean = TRUE /\ Idle.what = "pull"
            /\ \A p \in Procs : run[p] \in Runs
BY IdleIsRun DEF TypeOK, Idle

\* The fields of a process's record.
LEMMA RunType ==
  \A r \in Runs : /\ r.at \in Places /\ r.what \in Commands /\ r.doc \in 0 .. gds
                  /\ r.todo \subseteq Files
                  /\ r.before \in [Files -> 0 .. gds] /\ r.kept \in [Files -> 0 .. gds]
                  /\ r.clean \in BOOLEAN
BY DEF Runs

\* The bound on events holds after one.
LEMMA EventType == TypeOK /\ Event => events' \in 0 .. MaxEvents
BY ComponentAssumption DEF TypeOK, Event

\* A package is staged into files of the runtime.
LEMMA PackagedIsFiles == Packaged \subseteq Files
BY DEF Packaged, Of


(***************************************************************************)
(* The record a step leaves to its process.                                *)
(***************************************************************************)
\* s is a process's record with these fields.
Has(s, at, what, doc, todo, before, kept, clean) ==
  /\ s \in Runs
  /\ s.at = at /\ s.what = what /\ s.doc = doc
  /\ s.todo = todo /\ s.before = before /\ s.kept = kept /\ s.clean = clean

\* A record with some fields replaced has those, and the others as before.
LEMMA Edits ==
  ASSUME NEW r \in Runs
  PROVE
    /\ \A a \in Places :
         Has([r EXCEPT !.at = a],
             a, r.what, r.doc, r.todo, r.before, r.kept, r.clean)
    /\ \A a \in Places, d \in 0 .. gds :
         Has([r EXCEPT !.at = a, !.doc = d],
             a, r.what, d, r.todo, r.before, r.kept, r.clean)
    /\ \A a \in Places, w \in Commands :
         Has([r EXCEPT !.at = a, !.what = w],
             a, w, r.doc, r.todo, r.before, r.kept, r.clean)
    /\ \A a \in Places, w \in Commands, d \in 0 .. gds :
         Has([r EXCEPT !.at = a, !.what = w, !.doc = d],
             a, w, d, r.todo, r.before, r.kept, r.clean)
    /\ \A a \in Places, t \in SUBSET Files :
         Has([r EXCEPT !.at = a, !.todo = t],
             a, r.what, r.doc, t, r.before, r.kept, r.clean)
    /\ \A a \in Places, b \in [Files -> 0 .. gds] :
         Has([r EXCEPT !.at = a, !.before = b],
             a, r.what, r.doc, r.todo, b, r.kept, r.clean)
    /\ \A a \in Places, b \in [Files -> 0 .. gds], t \in SUBSET Files :
         Has([r EXCEPT !.at = a, !.before = b, !.todo = t],
             a, r.what, r.doc, t, b, r.kept, r.clean)
    /\ \A a \in Places, c \in BOOLEAN, k \in [Files -> 0 .. gds], t \in SUBSET Files :
         Has([r EXCEPT !.at = a, !.clean = c, !.kept = k, !.todo = t],
             a, r.what, r.doc, t, r.before, k, c)
    /\ \A t \in SUBSET Files :
         Has([r EXCEPT !.todo = t],
             r.at, r.what, r.doc, t, r.before, r.kept, r.clean)
    /\ \A t \in SUBSET Files, c \in BOOLEAN :
         Has([r EXCEPT !.todo = t, !.clean = c],
             r.at, r.what, r.doc, t, r.before, r.kept, c)
    /\ \A a \in Places, w \in Commands, c \in BOOLEAN :
         Has([r EXCEPT !.at = a, !.what = w, !.clean = c],
             a, w, r.doc, r.todo, r.before, r.kept, c)
<1>1. \A a \in Places :
       Has([r EXCEPT !.at = a],
           a, r.what, r.doc, r.todo, r.before, r.kept, r.clean)
  BY DEF Runs, Has
<1>2. \A a \in Places, d \in 0 .. gds :
       Has([r EXCEPT !.at = a, !.doc = d],
           a, r.what, d, r.todo, r.before, r.kept, r.clean)
  BY DEF Runs, Has
<1>3. \A a \in Places, w \in Commands :
       Has([r EXCEPT !.at = a, !.what = w],
           a, w, r.doc, r.todo, r.before, r.kept, r.clean)
  BY DEF Runs, Has
<1>4. \A a \in Places, w \in Commands, d \in 0 .. gds :
       Has([r EXCEPT !.at = a, !.what = w, !.doc = d],
           a, w, d, r.todo, r.before, r.kept, r.clean)
  BY ZenonT(60) DEF Runs, Has
<1>5. \A a \in Places, t \in SUBSET Files :
       Has([r EXCEPT !.at = a, !.todo = t],
           a, r.what, r.doc, t, r.before, r.kept, r.clean)
  BY DEF Runs, Has
<1>6. \A a \in Places, b \in [Files -> 0 .. gds] :
       Has([r EXCEPT !.at = a, !.before = b],
           a, r.what, r.doc, r.todo, b, r.kept, r.clean)
  BY ZenonT(60) DEF Runs, Has
<1>7. ASSUME NEW a \in Places, NEW b \in [Files -> 0 .. gds], NEW t \in SUBSET Files
      PROVE  Has([r EXCEPT !.at = a, !.before = b, !.todo = t],
             a, r.what, r.doc, t, b, r.kept, r.clean)
  BY DEF Runs, Has
<1>8. ASSUME NEW a \in Places, NEW c \in BOOLEAN, NEW k \in [Files -> 0 .. gds], NEW t \in SUBSET Files
      PROVE  Has([r EXCEPT !.at = a, !.clean = c, !.kept = k, !.todo = t],
             a, r.what, r.doc, t, r.before, k, c)
  BY DEF Runs, Has
<1>9. \A t \in SUBSET Files :
       Has([r EXCEPT !.todo = t],
           r.at, r.what, r.doc, t, r.before, r.kept, r.clean)
  BY DEF Runs, Has
<1>10. \A t \in SUBSET Files, c \in BOOLEAN :
       Has([r EXCEPT !.todo = t, !.clean = c],
           r.at, r.what, r.doc, t, r.before, r.kept, c)
  BY DEF Runs, Has
<1>11. \A a \in Places, w \in Commands, c \in BOOLEAN :
       Has([r EXCEPT !.at = a, !.what = w, !.clean = c],
           a, w, r.doc, r.todo, r.before, r.kept, c)
  BY ZenonT(60) DEF Runs, Has
<1> QED
  BY Zenon, <1>1, <1>2, <1>3, <1>4, <1>5, <1>6, <1>7, <1>8, <1>9, <1>10, <1>11

\* What Finish makes of its process's record.
LEMMA FinishMoves ==
  ASSUME TypeOK, Routed, NEW p \in Procs, Finish(p)
  PROVE  /\ Set(p, run'[p])
         /\ run'[p] = Idle
BY DEF Finish, Set, TypeOK

\* What Ends makes of its process's record.
LEMMA EndsMoves ==
  ASSUME TypeOK, Routed, NEW p \in Procs, Ends(p)
  PROVE  /\ Set(p, run'[p])
         /\ run'[p] = Idle
BY DEF Ends, Set, TypeOK

\* What KeepPackage makes of its process's record.
LEMMA KeepPackageMoves ==
  ASSUME TypeOK, Routed, NEW p \in Procs, KeepPackage(p)
  PROVE  /\ Set(p, run'[p])
         /\ run'[p] = Idle
BY DEF KeepPackage, Set, TypeOK

\* What NothingToDo makes of its process's record.
LEMMA NothingToDoMoves ==
  ASSUME TypeOK, Routed, NEW p \in Procs, NothingToDo(p)
  PROVE  /\ Set(p, run'[p])
         /\ run'[p] = Idle
BY DEF NothingToDo, Set, TypeOK

\* What Request makes of its process's record.
LEMMA RequestMoves ==
  ASSUME TypeOK, Routed, NEW p \in Procs, Request(p)
  PROVE  /\ Set(p, run'[p])
         /\ Has(run'[p], "keep", run[p].what, gds, run[p].todo, run[p].before, run[p].kept, run[p].clean)
<1>1. Set(p, [run[p] EXCEPT !.at = "keep", !.doc = gds]) /\ run[p] \in Runs
  BY DEF Request, TypeOK
<1>2. Set(p, run'[p]) /\ run'[p] = [run[p] EXCEPT !.at = "keep", !.doc = gds]
  BY <1>1 DEF Set, TypeOK
<1>4. "keep" \in Places
  BY DEF Places
<1>3. gds \in 0 .. gds
  BY DEF TypeOK
<1> QED
  BY ZenonT(60), <1>1, <1>2, <1>3, <1>4, Edits

\* What KeepTrust makes of its process's record.
LEMMA KeepTrustMoves ==
  ASSUME TypeOK, Routed, NEW p \in Procs, KeepTrust(p)
  PROVE  /\ Set(p, run'[p])
         /\ IF AutoApply THEN Has(run'[p], "load", "trust_only", run[p].doc, run[p].todo, run[p].before, run[p].kept, run[p].clean) ELSE run'[p] = Idle
<1>1. CASE AutoApply
  <2>1. Set(p, [run[p] EXCEPT !.at = "load", !.what = "trust_only"]) /\ run[p] \in Runs
    BY <1>1 DEF KeepTrust, TypeOK
  <2>2. Set(p, run'[p]) /\ run'[p] = [run[p] EXCEPT !.at = "load", !.what = "trust_only"]
    BY <2>1 DEF Set, TypeOK
  <2> QED
    BY ZenonT(60), <1>1, <2>1, <2>2, Edits DEF Runs, Places, Commands
<1>2. CASE ~ AutoApply
  BY <1>2 DEF KeepTrust, Set, TypeOK
<1> QED
  BY <1>1, <1>2

\* What Load makes of its process's record.
LEMMA LoadMoves ==
  ASSUME TypeOK, Routed, NEW p \in Procs, Load(p)
  PROVE  /\ Set(p, run'[p])
         /\ \/ run'[p] = Idle
            \/ \E mode \in {"trust_only", "certificate_and_trust"} :
                 /\ mode = Mode(run[p].what)
                 /\ Material(mode) # 0
                 /\ Has(run'[p], "gate", mode, Material(mode), run[p].todo, run[p].before, run[p].kept, run[p].clean)
<1> DEFINE mode == Mode(run[p].what)
           s == [run[p] EXCEPT !.at = "gate", !.what = mode, !.doc = Material(mode)]
<1>1. run[p] \in Runs /\ run[p].at = "load" /\ Set(p, IF Material(mode) = 0 THEN Idle ELSE s)
  BY DEF Load, TypeOK
<1>2. mode \in {"trust_only", "certificate_and_trust"}
  BY <1>1 DEF Mode, Routed
<1>3. Material(mode) \in 0 .. gds
  BY DEF Material, TypeOK
<1>4. CASE Material(mode) = 0
  BY <1>1, <1>4 DEF Set, TypeOK
<1>5. CASE Material(mode) # 0
  <2>1. Set(p, run'[p]) /\ run'[p] = s
    BY <1>1, <1>5 DEF Set, TypeOK
  <2>2. mode \in Commands /\ "gate" \in Places
    BY <1>2 DEF Commands, Places
  <2>3. ASSUME NEW w \in Commands, NEW d \in 0 .. gds
        PROVE  Has([run[p] EXCEPT !.at = "gate", !.what = w, !.doc = d], "gate", w, d, run[p].todo, run[p].before, run[p].kept, run[p].clean)
    BY Zenon, <1>1, <2>2, Edits DEF Runs
  <2> HIDE DEF mode
  <2>4. Has(s, "gate", mode, Material(mode), run[p].todo,
            run[p].before, run[p].kept, run[p].clean)
    BY Zenon, <1>3, <2>2, <2>3
  <2> QED
    BY <1>2, <1>5, <2>1, <2>4 DEF mode
<1> QED
  BY <1>4, <1>5

\* What PassGate makes of its process's record.
LEMMA PassGateMoves ==
  ASSUME TypeOK, Routed, NEW p \in Procs, PassGate(p)
  PROVE  /\ Set(p, run'[p])
         /\ \/ /\ run[p].what = "trust_only"
               /\ Has(run'[p], "chain", run[p].what, run[p].doc, run[p].todo, Undisturbed(p), run[p].kept, run[p].clean)
            \/ /\ run[p].what = "certificate_and_trust"
               /\ Has(run'[p], "copy", run[p].what, run[p].doc, Packaged, Undisturbed(p), run[p].kept, run[p].clean)
<1> DEFINE r == run[p]
           b == Undisturbed(p)
<1>1. r \in Runs
  BY DEF TypeOK
<1>2. Packaged \in SUBSET Files /\ b \in [Files -> 0 .. gds]
  BY PackagedIsFiles DEF TypeOK, Undisturbed, Nothing
<1>3. "chain" \in Places /\ "copy" \in Places
  BY DEF Places
<1>4. CASE r.what = "trust_only"
  <2>1. Set(p, [r EXCEPT !.at = "chain", !.before = b])
    BY <1>4 DEF PassGate, StagePackage
  <2>2. Set(p, run'[p]) /\ run'[p] = [r EXCEPT !.at = "chain", !.before = b]
    BY <2>1 DEF Set, TypeOK
  <2> HIDE DEF b
  <2>3. Has([r EXCEPT !.at = "chain", !.before = b], "chain",
            r.what, r.doc, r.todo, b, r.kept, r.clean)
    BY Zenon, <1>1, <1>2, <1>3, Edits DEF Runs
  <2> QED
    BY <1>4, <2>2, <2>3 DEF b
<1>5. CASE r.what # "trust_only"
  <2>1. Set(p, [r EXCEPT !.at = "copy", !.before = b, !.todo = Packaged])
        /\ r.what = "certificate_and_trust"
    BY <1>5 DEF PassGate, StagePackage
  <2>2. Set(p, run'[p])
        /\ run'[p] = [r EXCEPT !.at = "copy", !.before = b, !.todo = Packaged]
    BY <2>1 DEF Set, TypeOK
  <2> HIDE DEF b
  <2>3. Has([r EXCEPT !.at = "copy", !.before = b, !.todo = Packaged], "copy",
            r.what, r.doc, Packaged, b, r.kept, r.clean)
    BY Zenon, <1>1, <1>2, <1>3, Edits DEF Runs
  <2> QED
    BY <2>1, <2>2, <2>3 DEF b
<1> QED
  BY <1>4, <1>5

\* What Copy makes of its process's record.
LEMMA CopyMoves ==
  ASSUME TypeOK, Routed, NEW p \in Procs, Copy(p)
  PROVE  /\ Set(p, run'[p])
         /\ \/ /\ run[p].todo = {} /\ UNCHANGED disk
               /\ Has(run'[p], "applied", run[p].what, run[p].doc, run[p].todo, run[p].before, run[p].kept, run[p].clean)
            \/ /\ run[p].todo # {}
               /\ disk' = [disk EXCEPT ![NextOf(run[p].todo)] = run[p].doc]
               /\ Has(run'[p], run[p].at, run[p].what, run[p].doc, run[p].todo \ {NextOf(run[p].todo)}, run[p].before, run[p].kept, run[p].clean)
<1> DEFINE r == run[p]
           f == NextOf(r.todo)
<1>1. r \in Runs /\ r.todo \in SUBSET Files /\ r.todo \ {f} \in SUBSET Files
  BY DEF TypeOK, Runs
<1>2. CASE r.todo = {}
  <2>1. Set(p, [r EXCEPT !.at = "applied"]) /\ UNCHANGED disk
    BY <1>2 DEF Copy
  <2>2. Set(p, run'[p]) /\ run'[p] = [r EXCEPT !.at = "applied"]
    BY <2>1 DEF Set, TypeOK
  <2> QED
    BY ZenonT(60), <1>1, <1>2, <2>1, <2>2, Edits DEF Runs, Places
<1>3. Has([r EXCEPT !.todo = r.todo \ {f}],
          r.at, r.what, r.doc, r.todo \ {f}, r.before, r.kept, r.clean)
  <2> HIDE DEF f
  <2> QED
    BY Zenon, <1>1, Edits DEF Runs
<1>5. ASSUME r.todo # {}, Set(p, [r EXCEPT !.todo = r.todo \ {f}]),
             disk' = [disk EXCEPT ![f] = run[p].doc]
      PROVE  /\ Set(p, run'[p]) /\ disk' = [disk EXCEPT ![f] = run[p].doc]
             /\ Has(run'[p], r.at, r.what, r.doc, r.todo \ {f},
                    r.before, r.kept, r.clean)
  <2>1. Set(p, run'[p]) /\ run'[p] = [r EXCEPT !.todo = r.todo \ {f}]
    BY <1>5 DEF Set, TypeOK
  <2> QED
    BY <1>3, <1>5, <2>1
<1> QED
  BY <1>2, <1>5 DEF Copy

\* What Delete makes of its process's record.
LEMMA DeleteMoves ==
  ASSUME TypeOK, Routed, NEW p \in Procs, Delete(p)
  PROVE  /\ Set(p, run'[p])
         /\ \/ /\ run[p].todo # {}
               /\ disk' = [disk EXCEPT ![NextOf(run[p].todo)] = 0]
               /\ Has(run'[p], run[p].at, run[p].what, run[p].doc, run[p].todo \ {NextOf(run[p].todo)}, run[p].before, run[p].kept, run[p].clean)
            \/ /\ UNCHANGED disk
               /\ Has(run'[p], run[p].at, run[p].what, run[p].doc, run[p].todo \ {NextOf(run[p].todo)}, run[p].before, run[p].kept, FALSE)
<1> DEFINE r == run[p]
           f == NextOf(r.todo)
<1>1. r \in Runs /\ r.todo \in SUBSET Files /\ r.todo \ {f} \in SUBSET Files
  BY DEF TypeOK, Runs
<1>3. Has([r EXCEPT !.todo = r.todo \ {f}],
          r.at, r.what, r.doc, r.todo \ {f}, r.before, r.kept, r.clean)
  <2> HIDE DEF f
  <2> QED
    BY Zenon, <1>1, Edits DEF Runs
<1>4. Has([r EXCEPT !.todo = r.todo \ {f}, !.clean = FALSE],
          r.at, r.what, r.doc, r.todo \ {f}, r.before, r.kept, FALSE)
  <2> HIDE DEF f
  <2> QED
    BY Zenon, <1>1, Edits DEF Runs
<1>5. ASSUME r.todo # {}, Set(p, [r EXCEPT !.todo = r.todo \ {f}]),
             disk' = [disk EXCEPT ![f] = 0]
      PROVE  /\ Set(p, run'[p]) /\ disk' = [disk EXCEPT ![f] = 0]
             /\ Has(run'[p], r.at, r.what, r.doc, r.todo \ {f},
                    r.before, r.kept, r.clean)
  <2>1. Set(p, run'[p]) /\ run'[p] = [r EXCEPT !.todo = r.todo \ {f}]
    BY <1>5 DEF Set, TypeOK
  <2> QED
    BY <1>3, <1>5, <2>1
<1>6. ASSUME Set(p, [r EXCEPT !.todo = r.todo \ {f}, !.clean = FALSE])
      PROVE  /\ Set(p, run'[p])
             /\ Has(run'[p], r.at, r.what, r.doc, r.todo \ {f},
                    r.before, r.kept, FALSE)
  <2>1. Set(p, run'[p]) /\ run'[p] = [r EXCEPT !.todo = r.todo \ {f}, !.clean = FALSE]
    BY <1>6 DEF Set, TypeOK
  <2> QED
    BY <1>4, <2>1
<1> QED
  BY <1>5, <1>6 DEF Delete

\* What Write makes of its process's record.
LEMMA WriteMoves ==
  ASSUME TypeOK, Routed, NEW p \in Procs, Write(p)
  PROVE  /\ Set(p, run'[p])
         /\ \/ /\ run[p].todo # {}
               /\ disk' = [disk EXCEPT ![NextOf(run[p].todo)] = run[p].doc]
               /\ Has(run'[p], run[p].at, run[p].what, run[p].doc, run[p].todo \ {NextOf(run[p].todo)}, run[p].before, run[p].kept, run[p].clean)
            \/ /\ UNCHANGED disk
               /\ Has(run'[p], run[p].at, run[p].what, run[p].doc, run[p].todo \ {NextOf(run[p].todo)}, run[p].before, run[p].kept, FALSE)
<1> DEFINE r == run[p]
           f == NextOf(r.todo)
<1>1. r \in Runs /\ r.todo \in SUBSET Files /\ r.todo \ {f} \in SUBSET Files
  BY DEF TypeOK, Runs
<1>3. Has([r EXCEPT !.todo = r.todo \ {f}],
          r.at, r.what, r.doc, r.todo \ {f}, r.before, r.kept, r.clean)
  <2> HIDE DEF f
  <2> QED
    BY Zenon, <1>1, Edits DEF Runs
<1>4. Has([r EXCEPT !.todo = r.todo \ {f}, !.clean = FALSE],
          r.at, r.what, r.doc, r.todo \ {f}, r.before, r.kept, FALSE)
  <2> HIDE DEF f
  <2> QED
    BY Zenon, <1>1, Edits DEF Runs
<1>5. ASSUME r.todo # {}, Set(p, [r EXCEPT !.todo = r.todo \ {f}]),
             disk' = [disk EXCEPT ![f] = run[p].doc]
      PROVE  /\ Set(p, run'[p]) /\ disk' = [disk EXCEPT ![f] = run[p].doc]
             /\ Has(run'[p], r.at, r.what, r.doc, r.todo \ {f},
                    r.before, r.kept, r.clean)
  <2>1. Set(p, run'[p]) /\ run'[p] = [r EXCEPT !.todo = r.todo \ {f}]
    BY <1>5 DEF Set, TypeOK
  <2> QED
    BY <1>3, <1>5, <2>1
<1>6. ASSUME Set(p, [r EXCEPT !.todo = r.todo \ {f}, !.clean = FALSE])
      PROVE  /\ Set(p, run'[p])
             /\ Has(run'[p], r.at, r.what, r.doc, r.todo \ {f},
                    r.before, r.kept, FALSE)
  <2>1. Set(p, run'[p]) /\ run'[p] = [r EXCEPT !.todo = r.todo \ {f}, !.clean = FALSE]
    BY <1>6 DEF Set, TypeOK
  <2> QED
    BY <1>4, <2>1
<1> QED
  BY <1>5, <1>6 DEF Write

\* What Restore makes of its process's record.
LEMMA RestoreMoves ==
  ASSUME TypeOK, Routed, NEW p \in Procs, Restore(p)
  PROVE  /\ Set(p, run'[p])
         /\ \/ /\ run[p].todo # {}
               /\ disk' = [disk EXCEPT ![NextOf(run[p].todo)] = run[p].kept[NextOf(run[p].todo)]]
               /\ Has(run'[p], run[p].at, run[p].what, run[p].doc, run[p].todo \ {NextOf(run[p].todo)}, run[p].before, run[p].kept, run[p].clean)
            \/ /\ UNCHANGED disk
               /\ Has(run'[p], run[p].at, run[p].what, run[p].doc, run[p].todo \ {NextOf(run[p].todo)}, run[p].before, run[p].kept, FALSE)
<1> DEFINE r == run[p]
           f == NextOf(r.todo)
<1>1. r \in Runs /\ r.todo \in SUBSET Files /\ r.todo \ {f} \in SUBSET Files
  BY DEF TypeOK, Runs
<1>3. Has([r EXCEPT !.todo = r.todo \ {f}],
          r.at, r.what, r.doc, r.todo \ {f}, r.before, r.kept, r.clean)
  <2> HIDE DEF f
  <2> QED
    BY Zenon, <1>1, Edits DEF Runs
<1>4. Has([r EXCEPT !.todo = r.todo \ {f}, !.clean = FALSE],
          r.at, r.what, r.doc, r.todo \ {f}, r.before, r.kept, FALSE)
  <2> HIDE DEF f
  <2> QED
    BY Zenon, <1>1, Edits DEF Runs
<1>5. ASSUME r.todo # {}, Set(p, [r EXCEPT !.todo = r.todo \ {f}]),
             disk' = [disk EXCEPT ![f] = run[p].kept[NextOf(run[p].todo)]]
      PROVE  /\ Set(p, run'[p]) /\ disk' = [disk EXCEPT ![f] = run[p].kept[NextOf(run[p].todo)]]
             /\ Has(run'[p], r.at, r.what, r.doc, r.todo \ {f},
                    r.before, r.kept, r.clean)
  <2>1. Set(p, run'[p]) /\ run'[p] = [r EXCEPT !.todo = r.todo \ {f}]
    BY <1>5 DEF Set, TypeOK
  <2> QED
    BY <1>3, <1>5, <2>1
<1>6. ASSUME Set(p, [r EXCEPT !.todo = r.todo \ {f}, !.clean = FALSE])
      PROVE  /\ Set(p, run'[p])
             /\ Has(run'[p], r.at, r.what, r.doc, r.todo \ {f},
                    r.before, r.kept, FALSE)
  <2>1. Set(p, run'[p]) /\ run'[p] = [r EXCEPT !.todo = r.todo \ {f}, !.clean = FALSE]
    BY <1>6 DEF Set, TypeOK
  <2> QED
    BY <1>4, <2>1
<1> QED
  BY <1>5, <1>6 DEF Restore

\* What WriteChain makes of its process's record.
LEMMA WriteChainMoves ==
  ASSUME TypeOK, Routed, NEW p \in Procs, WriteChain(p)
  PROVE  /\ Set(p, run'[p])
         /\ Has(run'[p], "snapshot", run[p].what, run[p].doc, run[p].todo, run[p].before, run[p].kept, run[p].clean)
<1>1. Set(p, [run[p] EXCEPT !.at = "snapshot"]) /\ run[p] \in Runs
  BY DEF WriteChain, TypeOK
<1>2. Set(p, run'[p]) /\ run'[p] = [run[p] EXCEPT !.at = "snapshot"]
  BY <1>1 DEF Set, TypeOK
<1>4. "snapshot" \in Places
  BY DEF Places
<1> QED
  BY Zenon, <1>1, <1>2, <1>4, Edits

\* What WritePeers makes of its process's record.
LEMMA WritePeersMoves ==
  ASSUME TypeOK, Routed, NEW p \in Procs, WritePeers(p)
  PROVE  /\ Set(p, run'[p])
         /\ Has(run'[p], "applied", run[p].what, run[p].doc, run[p].todo, run[p].before, run[p].kept, run[p].clean)
<1>1. Set(p, [run[p] EXCEPT !.at = "applied"]) /\ run[p] \in Runs
  BY DEF WritePeers, TypeOK
<1>2. Set(p, run'[p]) /\ run'[p] = [run[p] EXCEPT !.at = "applied"]
  BY <1>1 DEF Set, TypeOK
<1>4. "applied" \in Places
  BY DEF Places
<1> QED
  BY Zenon, <1>1, <1>2, <1>4, Edits

\* What WriteEnds makes of its process's record.
LEMMA WriteEndsMoves ==
  ASSUME TypeOK, Routed, NEW p \in Procs, WriteEnds(p)
  PROVE  /\ Set(p, run'[p])
         /\ Has(run'[p], "validate", run[p].what, run[p].doc, run[p].todo, run[p].before, run[p].kept, run[p].clean)
<1>1. Set(p, [run[p] EXCEPT !.at = "validate"]) /\ run[p] \in Runs
  BY DEF WriteEnds, TypeOK
<1>2. Set(p, run'[p]) /\ run'[p] = [run[p] EXCEPT !.at = "validate"]
  BY <1>1 DEF Set, TypeOK
<1>4. "validate" \in Places
  BY DEF Places
<1> QED
  BY Zenon, <1>1, <1>2, <1>4, Edits

\* What RestoreEnds makes of its process's record.
LEMMA RestoreEndsMoves ==
  ASSUME TypeOK, Routed, NEW p \in Procs, RestoreEnds(p)
  PROVE  /\ Set(p, run'[p])
         /\ Has(run'[p], "refused", run[p].what, run[p].doc, run[p].todo, run[p].before, run[p].kept, run[p].clean)
<1>1. Set(p, [run[p] EXCEPT !.at = "refused"]) /\ run[p] \in Runs
  BY DEF RestoreEnds, TypeOK
<1>2. Set(p, run'[p]) /\ run'[p] = [run[p] EXCEPT !.at = "refused"]
  BY <1>1 DEF Set, TypeOK
<1>4. "refused" \in Places
  BY DEF Places
<1> QED
  BY Zenon, <1>1, <1>2, <1>4, Edits

\* What DeleteEnds makes of its process's record.
LEMMA DeleteEndsMoves ==
  ASSUME TypeOK, Routed, NEW p \in Procs, DeleteEnds(p)
  PROVE  /\ Set(p, run'[p])
         /\ Has(run'[p], "write", run[p].what, run[p].doc, Carries(run[p].doc), run[p].before, run[p].kept, run[p].clean)
<1>1. Set(p, [run[p] EXCEPT !.at = "write", !.todo = Carries(run[p].doc)]) /\ run[p] \in Runs
  BY DEF DeleteEnds, TypeOK
<1>2. Set(p, run'[p]) /\ run'[p] = [run[p] EXCEPT !.at = "write", !.todo = Carries(run[p].doc)]
  BY <1>1 DEF Set, TypeOK
<1>4. "write" \in Places
  BY DEF Places
<1>3. Carries(run[p].doc) \in SUBSET Files
  BY DEF Carries, Of
<1> QED
  BY ZenonT(60), <1>1, <1>2, <1>3, <1>4, Edits

\* What SnapshotLists makes of its process's record.
LEMMA SnapshotListsMoves ==
  ASSUME TypeOK, Routed, NEW p \in Procs, SnapshotLists(p)
  PROVE  /\ Set(p, run'[p])
         /\ \E unreadable \in SUBSET Lists :
              Has(run'[p], "delete", run[p].what, run[p].doc, {f \in Controlled : disk[f] # 0}, run[p].before, [f \in Files |-> IF f \in Lists \ unreadable THEN disk[f] ELSE 0], run[p].clean /\ unreadable = {})
<1> DEFINE r == run[p]
           t == {f \in Controlled : disk[f] # 0}
           K(u) == [f \in Files |-> IF f \in Lists \ u THEN disk[f] ELSE 0]
           C(u) == r.clean /\ u = {}
<1>1. PICK u \in {{}} \cup {{f} : f \in Lists} :
        Set(p, [r EXCEPT !.at = "delete", !.clean = r.clean /\ u = {}, !.kept = K(u), !.todo = t])
  BY Zenon DEF SnapshotLists, Snapshot
<1>2. r \in Runs /\ r.clean \in BOOLEAN /\ u \in SUBSET Lists /\ "delete" \in Places
  BY <1>1 DEF TypeOK, Runs, Places
<1>3. t \in SUBSET Files
  BY DEF Controlled, Of
<1>4. K(u) \in [Files -> 0 .. gds]
  BY DEF TypeOK
<1>5. (r.clean /\ u = {}) \in BOOLEAN
  OBVIOUS
<1>6. Set(p, run'[p])
      /\ run'[p] = [r EXCEPT !.at = "delete", !.clean = r.clean /\ u = {}, !.kept = K(u), !.todo = t]
  BY <1>1 DEF Set, TypeOK
<1>7. Has(run'[p], "delete", r.what, r.doc, t, r.before, K(u), r.clean /\ u = {})
  <2>1. ASSUME NEW c \in BOOLEAN, NEW k \in [Files -> 0 .. gds], NEW v \in SUBSET Files
        PROVE  Has([r EXCEPT !.at = "delete", !.clean = c, !.kept = k, !.todo = v],
                   "delete", r.what, r.doc, v, r.before, k, c)
    BY Zenon, <1>2, Edits DEF Runs
  <2>2. C(u) \in BOOLEAN /\ K(u) \in [Files -> 0 .. gds] /\ t \in SUBSET Files
    BY <1>3, <1>4, <1>5
  <2>3. run'[p] = [r EXCEPT !.at = "delete", !.clean = C(u), !.kept = K(u), !.todo = t]
    BY <1>6
  <2> HIDE DEF r, t, K, C
  <2>5. Has([r EXCEPT !.at = "delete", !.clean = C(u), !.kept = K(u), !.todo = t],
            "delete", r.what, r.doc, t, r.before, K(u), C(u))
    BY <2>1, <2>2, Zenon
  <2>4. Has(run'[p], "delete", r.what, r.doc, t, r.before, K(u), C(u))
    BY <2>3, <2>5, Zenon
  <2> QED
    BY <2>4 DEF C, r, K, t
<1> QED
  BY Zenon, <1>2, <1>6, <1>7

\* What Validate makes of its process's record.
LEMMA ValidateMoves ==
  ASSUME TypeOK, Routed, NEW p \in Procs, Validate(p)
  PROVE  /\ Set(p, run'[p])
         /\ \/ Problems = {} /\ Has(run'[p], "peers", run[p].what, run[p].doc, run[p].todo, run[p].before, run[p].kept, run[p].clean)
            \/ /\ Problems # {}
               /\ Has(run'[p], "restore", run[p].what, run[p].doc, {f \in Files : run[p].kept[f] # 0}, run[p].before, run[p].kept, run[p].clean)
<1> DEFINE r == run[p]
           t == {f \in Files : r.kept[f] # 0}
<1>1. r \in Runs /\ "peers" \in Places /\ "restore" \in Places /\ t \in SUBSET Files
  BY DEF TypeOK, Places
<1>2. CASE Problems = {}
  <2>1. Set(p, [r EXCEPT !.at = "peers"])
    BY <1>2 DEF Validate
  <2>2. Set(p, run'[p]) /\ run'[p] = [r EXCEPT !.at = "peers"]
    BY <2>1 DEF Set, TypeOK
  <2> QED
    BY ZenonT(60), <1>1, <1>2, <2>2, Edits
<1>3. CASE Problems # {}
  <2>1. Set(p, [r EXCEPT !.at = "restore", !.todo = t])
    BY <1>3 DEF Validate
  <2>2. Set(p, run'[p]) /\ run'[p] = [r EXCEPT !.at = "restore", !.todo = t]
    BY <2>1 DEF Set, TypeOK
  <2> HIDE DEF t
  <2>3. Has([r EXCEPT !.at = "restore", !.todo = t], "restore", r.what, r.doc, t,
            r.before, r.kept, r.clean)
    BY Zenon, <1>1, Edits DEF Runs
  <2> QED
    BY <1>3, <2>2, <2>3 DEF t
<1> QED
  BY <1>2, <1>3

\* A step of one process keeps the types if its new record does.
LEMMA SetKeepsType ==
  ASSUME TypeOK, NEW p \in Procs, Set(p, run'[p]), run'[p] \in Runs, UNCHANGED gds,
         run'[p].at \in Mutates \cup {"gate"} =>
           run'[p].doc # 0 /\ run'[p].what \in {"trust_only", "certificate_and_trust"}
  PROVE  /\ run' \in [Procs -> Runs']
         /\ \A q \in Procs : run'[q].at \in Mutates \cup {"gate"} =>
              run'[q].doc # 0 /\ run'[q].what \in {"trust_only", "certificate_and_trust"}
BY DEF TypeOK, Set, Runs


\* A disturbed process keeps its place and its work, and is clean no more.
LEMMA DisturbedHas ==
  ASSUME NEW rs \in [Procs -> Runs], NEW ps, gds \in 1 .. MaxRevision
  PROVE  /\ Disturbed(rs, ps) \in [Procs -> Runs]
         /\ \A q \in Procs \ ps : Disturbed(rs, ps)[q] = rs[q]
         /\ \A q \in Procs \cap ps :
              Has(Disturbed(rs, ps)[q], rs[q].at, rs[q].what, rs[q].doc,
                  rs[q].todo, Nothing, rs[q].kept, FALSE)
<1>1. Nothing \in [Files -> 0 .. gds]
  BY ComponentAssumption DEF Nothing
<1>2. \A q \in Procs : rs[q] \in Runs
  OBVIOUS
<1>3. ASSUME NEW r \in Runs
      PROVE  Has([r EXCEPT !.clean = FALSE, !.before = Nothing],
                 r.at, r.what, r.doc, r.todo, Nothing, r.kept, FALSE)
  BY <1>1 DEF Runs, Has
<1>4. ASSUME NEW q \in Procs \cap ps
      PROVE  Has(Disturbed(rs, ps)[q], rs[q].at, rs[q].what, rs[q].doc,
                 rs[q].todo, Nothing, rs[q].kept, FALSE)
  <2>1. Disturbed(rs, ps)[q] = [rs[q] EXCEPT !.clean = FALSE, !.before = Nothing]
    BY DEF Disturbed
  <2> QED
    BY Zenon, <1>2, <1>3, <2>1
<1>5. \A q \in Procs \ ps : Disturbed(rs, ps)[q] = rs[q]
  BY DEF Disturbed
<1>6. \A q \in Procs : Disturbed(rs, ps)[q] \in Runs
  BY <1>2, <1>4, <1>5 DEF Has
<1> QED
  BY Zenon, <1>4, <1>5, <1>6 DEF Disturbed

\* A command beginning beside others leaves them disturbed.
LEMMA BeginMoves ==
  ASSUME TypeOK, NEW p \in Procs, NEW w \in Commands, Begin(p, w)
  PROVE  /\ run' \in [Procs -> Runs]
         /\ Has(run'[p], IF w \in {"pull", "enroll"} THEN "request" ELSE "load",
                w, 0, {}, Nothing, Nothing, Others(p) = {})
         /\ \A q \in Procs \ {p} :
              IF run[q].at = "idle" THEN run'[q] = run[q]
              ELSE Has(run'[q], run[q].at, run[q].what, run[q].doc,
                       run[q].todo, Nothing, run[q].kept, FALSE)
<1> DEFINE at == IF w \in {"pull", "enroll"} THEN "request" ELSE "load"
           r  == [Idle EXCEPT !.at = at, !.what = w, !.clean = (Others(p) = {})]
           rs == [run EXCEPT ![p] = r]
<1>1. gds \in 1 .. MaxRevision /\ Idle \in Runs /\ at \in Places
  BY IdleIsRun DEF TypeOK, Places
<1>2. Has(r, at, w, 0, {}, Nothing, Nothing, Others(p) = {})
  <2>1. ASSUME NEW a \in Places, NEW c \in BOOLEAN
        PROVE  Has([Idle EXCEPT !.at = a, !.what = w, !.clean = c],
                   a, w, Idle.doc, Idle.todo, Idle.before, Idle.kept, c)
    BY Zenon, <1>1, Edits
  <2> HIDE DEF at
  <2>2. Has(r, at, w, Idle.doc, Idle.todo, Idle.before, Idle.kept, Others(p) = {})
    BY Zenon, <1>1, <2>1
  <2> QED
    BY <2>2 DEF Idle
<1>3. run' = Disturbed(rs, Others(p))
  BY DEF Begin, HoldsKey
<1> HIDE DEF r, at
<1>4. rs \in [Procs -> Runs] /\ rs[p] = r /\ \A q \in Procs \ {p} : rs[q] = run[q]
  BY <1>2 DEF TypeOK, Has
<1> HIDE DEF rs
<1>5. p \notin Others(p) /\ \A q \in Procs \ {p} : q \in Others(p) <=> run[q].at # "idle"
  BY DEF Others
<1>8. /\ Disturbed(rs, Others(p)) \in [Procs -> Runs]
      /\ \A q \in Procs \ Others(p) : Disturbed(rs, Others(p))[q] = rs[q]
      /\ \A q \in Procs \cap Others(p) :
           Has(Disturbed(rs, Others(p))[q], rs[q].at, rs[q].what, rs[q].doc,
               rs[q].todo, Nothing, rs[q].kept, FALSE)
  BY <1>1, <1>4, DisturbedHas
<1>6. run' \in [Procs -> Runs] /\ run'[p] = r
  BY <1>3, <1>4, <1>5, <1>8
<1>7. ASSUME NEW q \in Procs \ {p}
      PROVE  IF run[q].at = "idle" THEN run'[q] = run[q]
             ELSE Has(run'[q], run[q].at, run[q].what, run[q].doc,
                      run[q].todo, Nothing, run[q].kept, FALSE)
  BY <1>3, <1>4, <1>5, <1>8
<1> QED
  BY <1>2, <1>6, <1>7 DEF at

\* A renewed CRL of the installation's own disturbs every process at work.
LEMMA RenewMoves ==
  ASSUME TypeOK, NEW f \in Files, RenewLocal(f)
  PROVE  /\ run' \in [Procs -> Runs]
         /\ \A q \in Procs :
              IF run[q].at = "idle" THEN run'[q] = run[q]
              ELSE Has(run'[q], run[q].at, run[q].what, run[q].doc,
                       run[q].todo, Nothing, run[q].kept, FALSE)
<1> DEFINE ps == {q \in Procs : run[q].at # "idle"}
<1>1. run' = Disturbed(run, ps)
  BY DEF RenewLocal
<1>2. \A q \in Procs : q \in ps <=> run[q].at # "idle"
  OBVIOUS
<1> HIDE DEF ps
<1>3. run \in [Procs -> Runs] /\ gds \in 1 .. MaxRevision
  BY DEF TypeOK
<1>4. run' \in [Procs -> Runs]
  BY <1>1, <1>3, DisturbedHas
<1>6. /\ \A q \in Procs \ ps : Disturbed(run, ps)[q] = run[q]
      /\ \A q \in Procs \cap ps :
           Has(Disturbed(run, ps)[q], run[q].at, run[q].what, run[q].doc,
               run[q].todo, Nothing, run[q].kept, FALSE)
  BY <1>3, DisturbedHas
<1>5. ASSUME NEW q \in Procs
      PROVE  IF run[q].at = "idle" THEN run'[q] = run[q]
             ELSE Has(run'[q], run[q].at, run[q].what, run[q].doc,
                      run[q].todo, Nothing, run[q].kept, FALSE)
  BY <1>1, <1>2, <1>6
<1> QED
  BY <1>4, <1>5

\* A process works on its own record only, and does not become clean again.
LEMMA WorkMoves ==
  ASSUME TypeOK, Routed, NEW p \in Procs, Work(p)
  PROVE  /\ Set(p, run'[p]) /\ run[p].at # "idle"
         /\ run'[p] \in Runs
         /\ \/ run'[p] = Idle
            \/ run'[p].at # "idle" /\ (run'[p].clean => run[p].clean)
         /\ UNCHANGED <<around, tangled>>
<1>1. CASE Request(p)
  BY Zenon, <1>1, RequestMoves, ActingType DEF Request, Has, TypeOK, Runs
<1>2. CASE KeepPackage(p)
  BY <1>2, KeepPackageMoves, ActingType DEF KeepPackage, Has, TypeOK, Runs
<1>3. CASE KeepTrust(p)
  BY Zenon, <1>3, KeepTrustMoves, ActingType DEF KeepTrust, Has, TypeOK, Runs
<1>4. CASE Load(p)
  BY Zenon, <1>4, LoadMoves, ActingType DEF Load, Has, TypeOK, Runs
<1>5. CASE PassGate(p)
  BY Zenon, <1>5, PassGateMoves, ActingType DEF PassGate, StagePackage, Has, TypeOK, Runs
<1>6. CASE NothingToDo(p)
  BY <1>6, NothingToDoMoves, ActingType DEF NothingToDo, Has, TypeOK, Runs
<1>7. CASE Copy(p)
  BY <1>7, CopyMoves, ActingType DEF Copy, Has, TypeOK, Runs
<1>8. CASE WriteChain(p)
  BY <1>8, WriteChainMoves, ActingType DEF WriteChain, WriteAll, Has, TypeOK, Runs
<1>9. CASE SnapshotLists(p)
  BY Zenon, <1>9, SnapshotListsMoves, ActingType DEF SnapshotLists, Snapshot, Has, TypeOK, Runs
<1>10. CASE Delete(p)
  BY Zenon, <1>10, DeleteMoves, ActingType DEF Delete, Event, Has, TypeOK, Runs
<1>11. CASE DeleteEnds(p)
  BY Zenon, <1>11, DeleteEndsMoves, ActingType DEF DeleteEnds, Has, TypeOK, Runs
<1>12. CASE Write(p)
  BY Zenon, <1>12, WriteMoves, ActingType DEF Write, Event, Has, TypeOK, Runs
<1>13. CASE WriteEnds(p)
  BY <1>13, WriteEndsMoves, ActingType DEF WriteEnds, Has, TypeOK, Runs
<1>14. CASE Validate(p)
  BY Zenon, <1>14, ValidateMoves, ActingType DEF Validate, Has, TypeOK, Runs
<1>15. CASE Restore(p)
  BY Zenon, <1>15, RestoreMoves, ActingType DEF Restore, Event, Has, TypeOK, Runs
<1>16. CASE RestoreEnds(p)
  BY <1>16, RestoreEndsMoves, ActingType DEF RestoreEnds, Has, TypeOK, Runs
<1>17. CASE WritePeers(p)
  BY <1>17, WritePeersMoves, ActingType DEF WritePeers, WriteAll, Has, TypeOK, Runs
<1>18. CASE Finish(p)
  BY <1>18, FinishMoves, ActingType DEF Finish, Has, TypeOK, Runs
<1>19. CASE Ends(p)
  BY <1>19, EndsMoves, ActingType DEF Ends, Has, TypeOK, Runs
<1> QED
  BY <1>1, <1>2, <1>3, <1>4, <1>5, <1>6, <1>7, <1>8, <1>9, <1>10, <1>11, <1>12, <1>13, <1>14, <1>15, <1>16, <1>17, <1>18, <1>19 DEF Work, TrustOnly

\* A step of a process keeps the types of the files, the caches and the bound.
LEMMA WorkIsTyped ==
  ASSUME TypeOK, Routed, NEW p \in Procs, Work(p)
  PROVE  /\ run'[p].at \in Mutates \cup {"gate"} =>
              run'[p].doc # 0 /\ run'[p].what \in {"trust_only", "certificate_and_trust"}
         /\ disk' \in [Files -> 0 .. gds]
         /\ cached' \in 0 .. gds /\ package' \in 0 .. gds /\ key' \in BOOLEAN
         /\ events' \in 0 .. MaxEvents
<1>0. run[p] \in Runs /\ Idle.at = "idle"
  BY ActingType
<1>1. CASE Request(p)
  BY Zenon, <1>0, <1>1, RequestMoves, RunType, EventType DEF Request, Has, TypeOK, Mutates, caches, around
<1>2. CASE KeepPackage(p)
  BY <1>0, <1>2, KeepPackageMoves, RunType, EventType DEF KeepPackage, Has, TypeOK, Mutates, caches, around
<1>3. CASE KeepTrust(p)
  BY Zenon, <1>0, <1>3, KeepTrustMoves, RunType, EventType DEF KeepTrust, Has, TypeOK, Mutates, caches, around
<1>4. CASE Load(p)
  BY Zenon, <1>0, <1>4, LoadMoves, RunType, EventType DEF Load, Has, TypeOK, Mutates, caches, around
<1>5. CASE PassGate(p)
  BY Zenon, <1>0, <1>5, PassGateMoves, RunType, EventType DEF PassGate, StagePackage, Has, TypeOK, Mutates, caches, around
<1>6. CASE NothingToDo(p)
  BY <1>0, <1>6, NothingToDoMoves, RunType, EventType DEF NothingToDo, Has, TypeOK, Mutates, caches, around
<1>7. CASE Copy(p)
  BY <1>0, <1>7, CopyMoves, RunType, EventType DEF Copy, Has, TypeOK, Mutates, caches, around
<1>8. CASE WriteChain(p)
  BY <1>0, <1>8, WriteChainMoves, RunType, EventType DEF WriteChain, WriteAll, Has, TypeOK, Mutates, caches, around
<1>9. CASE SnapshotLists(p)
  BY Zenon, <1>0, <1>9, SnapshotListsMoves, RunType, EventType DEF SnapshotLists, Snapshot, Has, TypeOK, Mutates, caches, around
<1>10. CASE Delete(p)
  <2>1. disk' \in [Files -> 0 .. gds] /\ events' \in 0 .. MaxEvents
    <3>1. 0 \in 0 .. gds
      BY DEF TypeOK
    <3>2. \A f : [disk EXCEPT ![f] = 0] \in [Files -> 0 .. gds]
      BY <3>1 DEF TypeOK
    <3> QED
      BY <1>10, <3>2, EventType DEF Delete, TypeOK
  <2> QED
    BY Zenon, <1>0, <1>10, <2>1, DeleteMoves DEF Delete, Has, TypeOK, Mutates, caches
<1>11. CASE DeleteEnds(p)
  BY Zenon, <1>0, <1>11, DeleteEndsMoves, RunType, EventType DEF DeleteEnds, Has, TypeOK, Mutates, caches, around
<1>12. CASE Write(p)
  BY Zenon, <1>0, <1>12, WriteMoves, RunType, EventType DEF Write, Has, TypeOK, Mutates, caches, around
<1>13. CASE WriteEnds(p)
  BY <1>0, <1>13, WriteEndsMoves, RunType, EventType DEF WriteEnds, Has, TypeOK, Mutates, caches, around
<1>14. CASE Validate(p)
  BY Zenon, <1>0, <1>14, ValidateMoves, RunType, EventType DEF Validate, Has, TypeOK, Mutates, caches, around
<1>15. CASE Restore(p)
  <2>1. disk' \in [Files -> 0 .. gds] /\ events' \in 0 .. MaxEvents
    <3>1. NextOf(run[p].todo) \in Files /\ run[p].kept \in [Files -> 0 .. gds]
      BY <1>0, <1>15, RunType, NextIsOf DEF Restore
    <3>2. [disk EXCEPT ![NextOf(run[p].todo)] = run[p].kept[NextOf(run[p].todo)]]
            \in [Files -> 0 .. gds]
      BY <3>1 DEF TypeOK
    <3> QED
      BY <1>15, <3>2, EventType DEF Restore, TypeOK
  <2> QED
    BY Zenon, <1>0, <1>15, <2>1, RestoreMoves DEF Restore, Has, TypeOK, Mutates, caches
<1>16. CASE RestoreEnds(p)
  BY <1>0, <1>16, RestoreEndsMoves, RunType, EventType DEF RestoreEnds, Has, TypeOK, Mutates, caches, around
<1>17. CASE WritePeers(p)
  BY <1>0, <1>17, WritePeersMoves, RunType, EventType DEF WritePeers, WriteAll, Has, TypeOK, Mutates, caches, around
<1>18. CASE Finish(p)
  BY <1>0, <1>18, FinishMoves, RunType, EventType DEF Finish, Has, TypeOK, Mutates, caches, around
<1>19. CASE Ends(p)
  BY <1>0, <1>19, EndsMoves, RunType, EventType DEF Ends, Has, TypeOK, Mutates, caches, around
<1> QED
  BY <1>1, <1>2, <1>3, <1>4, <1>5, <1>6, <1>7, <1>8, <1>9, <1>10, <1>11, <1>12, <1>13, <1>14, <1>15, <1>16, <1>17, <1>18, <1>19 DEF Work, TrustOnly

\* The types hold at the start.
LEMMA TypeInit == Init => TypeOK
<1> SUFFICES ASSUME Init PROVE TypeOK
  OBVIOUS
<1>1. gds \in 1 .. MaxRevision /\ expired \in 0 .. gds
  BY ComponentAssumption DEF Init
<1>2. disk \in [Files -> 0 .. gds] /\ approvals \in Seq(Approval)
  BY DEF Init
<1> DEFINE MaxIsNat == 0 \in 0 .. MaxEvents
<1>4. MaxIsNat
  BY ComponentAssumption
<1>3. run \in [Procs -> Runs] /\ \A p \in Procs : run[p].at = "idle"
  BY <1>1, IdleIsRun DEF Init, Idle
<1> QED
  BY <1>1, <1>2, <1>3, <1>4 DEF Init, TypeOK, Mutates

\* The types hold after a step.
LEMMA TypeStep == TypeOK /\ Routed /\ [Next]_vars => TypeOK'
<1> SUFFICES ASSUME TypeOK, Routed, [Next]_vars PROVE TypeOK'
  OBVIOUS
<1> USE DEF around, caches, vars
<1>1. CASE UNCHANGED vars
  BY <1>1 DEF TypeOK, Runs
<1>2. CASE Publish
  <2>1. gds' = gds + 1 /\ gds \in Nat /\ gds' \in 1 .. MaxRevision /\ 0 .. gds \subseteq 0 .. gds'
    BY <1>2, ComponentAssumption DEF Publish, TypeOK
  <2>2. ASSUME NEW r \in Runs PROVE r \in Runs'
    BY <2>1 DEF Runs
  <2>3. run' \in [Procs -> Runs'] /\ disk' \in [Files -> 0 .. gds']
    BY <1>2, <2>1, <2>2 DEF Publish, TypeOK
  <2> QED
    BY <1>2, <2>1, <2>3 DEF Publish, TypeOK
<1>3. CASE Age
  BY <1>3, EventType DEF Age, TypeOK, Runs
<1>4. CASE ChangeCalendar
  BY <1>4, EventType DEF ChangeCalendar, TypeOK, Runs
<1>5. ASSUME NEW a \in Signed, CreateApproval(a) PROVE TypeOK'
  <2>1. approvals' \in Seq(Approval)
    BY <1>5, ComponentAssumption DEF CreateApproval, TypeOK
  <2> QED
    BY <1>5, <2>1 DEF CreateApproval, TypeOK, Runs
<1>6. ASSUME NEW i \in DOMAIN approvals, ApprovalExpires(i) PROVE TypeOK'
  <2>1. approvals' \in Seq(Approval)
    BY <1>6, WithoutIsSequence DEF ApprovalExpires, TypeOK
  <2> QED
    BY <1>6, <2>1, EventType DEF ApprovalExpires, TypeOK, Runs
<1>7. ASSUME NEW f \in Files, RenewLocal(f) PROVE TypeOK'
  <2>1. disk' \in [Files -> 0 .. gds]
    BY <1>7 DEF RenewLocal, TypeOK
  <2>2. /\ run' \in [Procs -> Runs]
        /\ \A q \in Procs : run'[q].at = run[q].at /\ run'[q].what = run[q].what
                            /\ run'[q].doc = run[q].doc
    BY <1>7, RenewMoves DEF Has
  <2>3. Runs' = Runs
    BY <1>7 DEF RenewLocal, Runs
  <2> QED
    BY <1>7, <2>1, <2>2, <2>3, EventType DEF RenewLocal, TypeOK
<1>8. ASSUME NEW p \in Procs, NEW w \in Commands, Begin(p, w) PROVE TypeOK'
  <2>1. /\ run' \in [Procs -> Runs]
        /\ \A q \in Procs : q # p =>
             run'[q].at = run[q].at /\ run'[q].what = run[q].what /\ run'[q].doc = run[q].doc
        /\ run'[p].at \in {"request", "load"}
    <3>1. \A q \in Procs \ {p} :
            IF run[q].at = "idle" THEN run'[q] = run[q]
            ELSE Has(run'[q], run[q].at, run[q].what, run[q].doc,
                     run[q].todo, Nothing, run[q].kept, FALSE)
      BY <1>8, BeginMoves
    <3>2. \A q \in Procs \ {p} :
            run'[q].at = run[q].at /\ run'[q].what = run[q].what /\ run'[q].doc = run[q].doc
      BY <3>1 DEF Has
    <3>3. run' \in [Procs -> Runs]
      BY <1>8, BeginMoves
    <3>4. run'[p].at \in {"request", "load"}
      BY <1>8, BeginMoves DEF Has
    <3> QED
      BY <3>2, <3>3, <3>4
  <2>2. Runs' = Runs
    BY <1>8 DEF Begin, HoldsKey, Runs
  <2>3. key' \in BOOLEAN /\ tangled' \in BOOLEAN /\ events' \in 0 .. MaxEvents
    BY <1>8, EventType DEF Begin, HoldsKey, TypeOK
  <2>4. \A q \in Procs : run'[q].at \in Mutates \cup {"gate"} =>
          run'[q].doc # 0 /\ run'[q].what \in {"trust_only", "certificate_and_trust"}
    BY <2>1 DEF TypeOK, Mutates
  <2>5. UNCHANGED <<gds, expired, calendar, approvals, cached, package, disk>>
    BY <1>8 DEF Begin, HoldsKey
  <2>6. run' \in [Procs -> Runs']
    BY <2>1, <2>2
  <2> QED
    BY <2>3, <2>4, <2>5, <2>6 DEF TypeOK
<1>9. ASSUME NEW p \in Procs, Work(p) PROVE TypeOK'
  <2>1. /\ run' \in [Procs -> Runs']
        /\ \A q \in Procs : run'[q].at \in Mutates \cup {"gate"} =>
             run'[q].doc # 0 /\ run'[q].what \in {"trust_only", "certificate_and_trust"}
    BY <1>9, WorkMoves, WorkIsTyped, SetKeepsType DEF around
  <2> QED
    BY <1>9, <2>1, WorkMoves, WorkIsTyped DEF TypeOK
<1> QED
  BY <1>1, <1>2, <1>3, <1>4, <1>5, <1>6, <1>7, <1>8, <1>9 DEF Next, Around

(***************************************************************************)
(* What the other processes see of a step.                                 *)
(***************************************************************************)
\* What happens around the commands leaves every process where it is.
LEMMA AroundMoves ==
  ASSUME TypeOK, Around
  PROVE  /\ \A q \in Procs :
              /\ run'[q].at = run[q].at /\ run'[q].what = run[q].what
              /\ run'[q].doc = run[q].doc
              /\ run'[q].todo = run[q].todo /\ run'[q].kept = run[q].kept
              /\ run'[q] = run[q] \/ (run'[q].clean = FALSE /\ run'[q].before = Nothing)
         /\ UNCHANGED <<caches, tangled>>
<1>1. CASE \E f \in Files : RenewLocal(f)
  BY <1>1, RenewMoves DEF RenewLocal, Has
<1>2. CASE ~ \E f \in Files : RenewLocal(f)
  BY <1>2 DEF Around, Publish, Age, ChangeCalendar, CreateApproval, ApprovalExpires
<1> QED
  BY <1>1, <1>2

\* A process's step leaves the other processes' records alone.
LEMMA OthersStay ==
  ASSUME TypeOK, Routed, NEW p \in Procs, Work(p)
  PROVE  \A q \in Procs \ {p} : run'[q] = run[q]
BY WorkMoves DEF Set, TypeOK

\* The disjuncts of a step.
LEMMA NextCases ==
  ASSUME [Next]_vars
  PROVE  \/ UNCHANGED vars
         \/ Around
         \/ \E p \in Procs, w \in Commands : Begin(p, w)
         \/ \E p \in Procs : Work(p)
BY DEF Next

\* A clean process stays the only one.
LEMMA SingleStep == TypeOK /\ Single /\ Routed /\ [Next]_vars => Single'
<1> SUFFICES ASSUME TypeOK, Single, Routed, [Next]_vars PROVE Single'
  OBVIOUS
<1>1. CASE UNCHANGED vars
  BY <1>1 DEF vars, Single, Alone
<1>2. CASE Around
  <2>1. \A q \in Procs : run'[q].at = run[q].at /\ (run'[q].clean => run[q].clean)
    BY <1>2, AroundMoves
  <2>2. UNCHANGED tangled
    BY <1>2, AroundMoves
  <2> QED
    BY <2>1, <2>2 DEF Single, Alone
<1>3. ASSUME NEW p \in Procs, NEW w \in Commands, Begin(p, w) PROVE Single'
  <2>1. /\ run'[p].clean <=> Others(p) = {}
        /\ \A q \in Procs \ {p} :
             /\ run'[q].at = run[q].at
             /\ run[q].at # "idle" => run'[q].clean = FALSE
    <3>1. \A q \in Procs \ {p} :
            IF run[q].at = "idle" THEN run'[q] = run[q]
            ELSE Has(run'[q], run[q].at, run[q].what, run[q].doc,
                     run[q].todo, Nothing, run[q].kept, FALSE)
      BY <1>3, BeginMoves
    <3>2. \A q \in Procs \ {p} : /\ run'[q].at = run[q].at
                                  /\ run[q].at # "idle" => run'[q].clean = FALSE
      BY <3>1 DEF Has
    <3> QED
      BY <1>3, <3>2, BeginMoves DEF Has
  <2>2. tangled' = (tangled \/ Others(p) # {} \/ w = "certificate_and_trust")
    BY <1>3 DEF Begin, HoldsKey
  <2> QED
    BY <2>1, <2>2 DEF Single, Alone, Others
<1>4. ASSUME NEW p \in Procs, Work(p) PROVE Single'
  <2>1. /\ \A q \in Procs \ {p} : run'[q] = run[q]
        /\ run[p].at # "idle" /\ UNCHANGED tangled
        /\ run'[p].at = "idle" \/ (run'[p].clean => run[p].clean)
    BY <1>4, OthersStay, WorkMoves, ActingType
  <2> QED
    BY <2>1 DEF Single, Alone
<1> QED
  BY <1>1, <1>2, <1>3, <1>4, NextCases

\* A process's step takes it where its command belongs.
LEMMA WorkRouted ==
  ASSUME TypeOK, Routed, NEW p \in Procs, Work(p)
  PROVE  /\ run'[p].at \in {"request", "keep"} => run'[p].what \in {"pull", "enroll"}
         /\ run'[p].at = "load" => run'[p].what \in {"auto", "trust_only", "certificate_and_trust"}
         /\ run'[p].at \in Mutates \ {"copy", "applied"} => run'[p].what = "trust_only"
         /\ run'[p].at = "copy" => run'[p].what = "certificate_and_trust"
<1>0. run[p] \in Runs /\ Idle.at = "idle"
  BY ActingType
<1>1. CASE Request(p)
  BY Zenon, <1>0, <1>1, RequestMoves, RunType DEF Request, Has, Routed, Mutates
<1>2. CASE KeepPackage(p)
  BY <1>0, <1>2, KeepPackageMoves, RunType DEF KeepPackage, Has, Routed, Mutates
<1>3. CASE KeepTrust(p)
  BY Zenon, <1>0, <1>3, KeepTrustMoves, RunType DEF KeepTrust, Has, Routed, Mutates
<1>4. CASE Load(p)
  BY Zenon, <1>0, <1>4, LoadMoves, RunType DEF Load, Has, Routed, Mutates
<1>5. CASE PassGate(p)
  BY Zenon, <1>0, <1>5, PassGateMoves, RunType DEF PassGate, StagePackage, Has, Routed, Mutates
<1>6. CASE NothingToDo(p)
  BY <1>0, <1>6, NothingToDoMoves, RunType DEF NothingToDo, Has, Routed, Mutates
<1>7. CASE Copy(p)
  BY <1>0, <1>7, CopyMoves, RunType DEF Copy, Has, Routed, Mutates
<1>8. CASE WriteChain(p)
  BY <1>0, <1>8, WriteChainMoves, RunType DEF WriteChain, Has, Routed, Mutates
<1>9. CASE SnapshotLists(p)
  BY Zenon, <1>0, <1>9, SnapshotListsMoves, RunType DEF SnapshotLists, Snapshot, Has, Routed, Mutates
<1>10. CASE Delete(p)
  BY Zenon, <1>0, <1>10, DeleteMoves, RunType DEF Delete, Has, Routed, Mutates
<1>11. CASE DeleteEnds(p)
  BY Zenon, <1>0, <1>11, DeleteEndsMoves, RunType DEF DeleteEnds, Has, Routed, Mutates
<1>12. CASE Write(p)
  BY Zenon, <1>0, <1>12, WriteMoves, RunType DEF Write, Has, Routed, Mutates
<1>13. CASE WriteEnds(p)
  BY <1>0, <1>13, WriteEndsMoves, RunType DEF WriteEnds, Has, Routed, Mutates
<1>14. CASE Validate(p)
  BY ZenonT(60), <1>0, <1>14, ValidateMoves, RunType DEF Validate, Has, Routed, Mutates
<1>15. CASE Restore(p)
  BY Zenon, <1>0, <1>15, RestoreMoves, RunType DEF Restore, Has, Routed, Mutates
<1>16. CASE RestoreEnds(p)
  BY <1>0, <1>16, RestoreEndsMoves, RunType DEF RestoreEnds, Has, Routed, Mutates
<1>17. CASE WritePeers(p)
  BY <1>0, <1>17, WritePeersMoves, RunType DEF WritePeers, Has, Routed, Mutates
<1>18. CASE Finish(p)
  BY <1>0, <1>18, FinishMoves, RunType DEF Finish, Has, Routed, Mutates
<1>19. CASE Ends(p)
  BY <1>0, <1>19, EndsMoves, RunType DEF Ends, Has, Routed, Mutates
<1> QED
  BY <1>1, <1>2, <1>3, <1>4, <1>5, <1>6, <1>7, <1>8, <1>9, <1>10, <1>11, <1>12, <1>13, <1>14, <1>15, <1>16, <1>17, <1>18, <1>19 DEF Work, TrustOnly

\* Commands stay where they belong.
LEMMA RoutedStep == TypeOK /\ Routed /\ [Next]_vars => Routed'
<1> SUFFICES ASSUME TypeOK, Routed, [Next]_vars PROVE Routed'
  OBVIOUS
<1>1. CASE UNCHANGED vars
  BY <1>1 DEF vars, Routed
<1>2. CASE Around
  BY ZenonT(60), <1>2, AroundMoves DEF Routed
<1>3. ASSUME NEW p \in Procs, NEW w \in Commands, Begin(p, w) PROVE Routed'
  <2>1. /\ run'[p].what = w
        /\ run'[p].at = IF w \in {"pull", "enroll"} THEN "request" ELSE "load"
    BY <1>3, BeginMoves DEF Has
  <2>2. \A q \in Procs \ {p} : run'[q].at = run[q].at /\ run'[q].what = run[q].what
    <3>1. \A q \in Procs \ {p} :
            IF run[q].at = "idle" THEN run'[q] = run[q]
            ELSE Has(run'[q], run[q].at, run[q].what, run[q].doc,
                     run[q].todo, Nothing, run[q].kept, FALSE)
      BY <1>3, BeginMoves
    <3> QED
      BY <3>1 DEF Has
  <2>3. w \notin {"pull", "enroll"} => w \in {"auto", "trust_only", "certificate_and_trust"}
    BY DEF Commands
  <2> QED
    BY <2>1, <2>2, <2>3 DEF Routed, Mutates
<1>4. ASSUME NEW p \in Procs, Work(p) PROVE Routed'
  BY <1>4, OthersStay, WorkRouted DEF Routed
<1> QED
  BY <1>1, <1>2, <1>3, <1>4, NextCases

(***************************************************************************)
(* How far a clean apply has come.                                         *)
(***************************************************************************)
\* The CRL files are those GDS controls and the others, and no CA or peer files.
LEMMA Sorted ==
  /\ Lists \subseteq Files /\ Controlled \subseteq Lists /\ Foreign \subseteq Lists
  /\ Lists = Controlled \cup Foreign /\ Controlled \cap Foreign = {}
  /\ \A n : Carries(n) \subseteq Controlled
  /\ \A f \in Lists : Kind[f] \notin {"chain"} /\ Kind[f] \notin {"peers"}
BY ComponentAssumption DEF Lists, Controlled, Foreign, Carries, Of, Kinds

\* A clean apply after PassGate: what is installed, and what is left to do.
LEMMA ReachedPassGate ==
  ASSUME TypeOK, Routed, NEW p \in Procs, PassGate(p), run'[p].clean, run'[p].what = "trust_only"
  PROVE  Reached(run[p])'
<1>1. run'[p].at = "chain" /\ run'[p].before = disk /\ disk' = disk
  BY Zenon, PassGateMoves DEF PassGate, StagePackage, Has, Undisturbed
<1> QED
  BY <1>1 DEF Reached

\* A clean apply after WriteChain: what is installed, and what is left to do.
LEMMA ReachedWriteChain ==
  ASSUME TypeOK, Routed, InPlace, NEW p \in Procs, WriteChain(p),
         run'[p].clean, run'[p].what = "trust_only"
  PROVE  Reached(run[p])'
<1>1. /\ run'[p].at = "snapshot" /\ run'[p].before = run[p].before
      /\ run[p].at = "chain" /\ run[p].clean /\ run[p].what = "trust_only"
  BY WriteChainMoves DEF WriteChain, Has
<1>2. \A f \in Lists : disk[f] = run[p].before[f]
  BY <1>1 DEF InPlace, Reached
<1>3. \A f \in Lists : disk'[f] = disk[f]
  BY Sorted DEF WriteChain, WriteAll
<1> QED
  BY <1>1, <1>2, <1>3 DEF Reached

\* A clean apply after Snapshot: what is installed, and what is left to do.
LEMMA ReachedSnapshot ==
  ASSUME TypeOK, Routed, InPlace, NEW p \in Procs, SnapshotLists(p),
         run'[p].clean, run'[p].what = "trust_only"
  PROVE  Reached(run[p])'
<1>1. PICK unreadable \in SUBSET Lists :
        Has(run'[p], "delete", run[p].what, run[p].doc,
            {f \in Controlled : disk[f] # 0}, run[p].before,
            [f \in Files |-> IF f \in Lists \ unreadable THEN disk[f] ELSE 0],
            run[p].clean /\ unreadable = {})
  BY SnapshotListsMoves
<1>2. /\ run'[p].at = "delete" /\ run'[p].before = run[p].before
      /\ run'[p].todo = {f \in Controlled : disk[f] # 0}
      /\ run'[p].kept = [f \in Files |-> IF f \in Lists THEN disk[f] ELSE 0]
      /\ run[p].at = "snapshot" /\ run[p].clean /\ run[p].what = "trust_only"
      /\ disk' = disk
  <2>1. run[p].clean /\ unreadable = {}
    BY <1>1 DEF Has
  <2> QED
    BY <1>1, <2>1 DEF Has, SnapshotLists, Snapshot
<1>3. \A f \in Lists : disk[f] = run[p].before[f]
  BY <1>2 DEF InPlace, Reached
<1>4. ForeignKept(run[p])' /\ SnapshotOf(run[p])'
  BY <1>2, <1>3, Sorted DEF ForeignKept, SnapshotOf
<1> QED
  BY <1>2, <1>4 DEF Reached

\* A clean apply after Delete: what is installed, and what is left to do.
LEMMA ReachedDelete ==
  ASSUME TypeOK, Routed, InPlace, NEW p \in Procs, Delete(p),
         run'[p].clean, run'[p].what = "trust_only"
  PROVE  Reached(run[p])'
<1> DEFINE f == NextOf(run[p].todo)
<1>1. /\ run'[p].at = "delete" /\ run'[p].before = run[p].before /\ run'[p].kept = run[p].kept
      /\ run'[p].todo = run[p].todo \ {f} /\ disk' = [disk EXCEPT ![f] = 0]
      /\ run[p].at = "delete" /\ run[p].clean /\ run[p].what = "trust_only"
      /\ run[p].todo # {}
  BY Zenon, DeleteMoves DEF Delete, Has
<1>2. /\ ForeignKept(run[p]) /\ SnapshotOf(run[p]) /\ run[p].todo \subseteq Controlled
      /\ \A g \in Controlled : g \in run[p].todo \/ disk[g] = 0
  BY <1>1 DEF InPlace, Reached
<1>3. f \in Controlled /\ f \in run[p].todo
  BY <1>1, <1>2, NextIsOf, Sorted
<1> HIDE DEF f
<1>4. ForeignKept(run[p])' /\ SnapshotOf(run[p])'
  BY <1>1, <1>2, <1>3, Sorted DEF ForeignKept, SnapshotOf, TypeOK
<1>5. \A g \in Controlled : g \in run'[p].todo \/ disk'[g] = 0
  BY <1>1, <1>2, <1>3, Sorted DEF TypeOK
<1> QED
  BY <1>1, <1>2, <1>4, <1>5 DEF Reached

\* A clean apply after DeleteEnds: what is installed, and what is left to do.
LEMMA ReachedDeleteEnds ==
  ASSUME TypeOK, Routed, InPlace, NEW p \in Procs, DeleteEnds(p),
         run'[p].clean, run'[p].what = "trust_only"
  PROVE  Reached(run[p])'
<1>1. /\ run'[p].at = "write" /\ run'[p].before = run[p].before /\ run'[p].kept = run[p].kept
      /\ run'[p].todo = Carries(run[p].doc) /\ disk' = disk /\ run'[p].doc = run[p].doc
      /\ run[p].at = "delete" /\ run[p].clean /\ run[p].what = "trust_only"
      /\ run[p].todo = {}
  BY Zenon, DeleteEndsMoves DEF DeleteEnds, Has
<1>2. /\ ForeignKept(run[p]) /\ SnapshotOf(run[p])
      /\ \A g \in Controlled : disk[g] = 0
  BY <1>1 DEF InPlace, Reached
<1>3. ForeignKept(run[p])' /\ SnapshotOf(run[p])'
  BY <1>1, <1>2 DEF ForeignKept, SnapshotOf
<1>4. Carries(run'[p].doc) \ run'[p].todo = {}
  BY <1>1
<1> QED
  BY <1>1, <1>2, <1>3, <1>4 DEF Reached, Carries

\* A clean apply after Write: what is installed, and what is left to do.
LEMMA ReachedWrite ==
  ASSUME TypeOK, Routed, InPlace, NEW p \in Procs, Write(p),
         run'[p].clean, run'[p].what = "trust_only"
  PROVE  Reached(run[p])'
<1> DEFINE f == NextOf(run[p].todo)
           C == Carries(run[p].doc)
<1>1. /\ run'[p].at = "write" /\ run'[p].before = run[p].before /\ run'[p].kept = run[p].kept
      /\ run'[p].todo = run[p].todo \ {f} /\ disk' = [disk EXCEPT ![f] = run[p].doc]
      /\ run'[p].doc = run[p].doc
      /\ run[p].at = "write" /\ run[p].clean /\ run[p].what = "trust_only"
      /\ run[p].todo # {}
  BY Zenon, WriteMoves DEF Write, Has
<1>2. /\ ForeignKept(run[p]) /\ SnapshotOf(run[p]) /\ run[p].todo \subseteq C
      /\ \A g \in Controlled : disk[g] = IF g \in C \ run[p].todo THEN run[p].doc ELSE 0
  BY <1>1 DEF InPlace, Reached
<1>3. f \in Controlled /\ f \in run[p].todo /\ f \in C /\ C \subseteq Controlled
  BY <1>1, <1>2, NextIsOf, Sorted
<1>6. Carries(run[p].doc)' = C
  BY <1>1 DEF Carries
<1> HIDE DEF f, C
<1>4. ForeignKept(run[p])' /\ SnapshotOf(run[p])'
  BY <1>1, <1>2, <1>3, Sorted DEF ForeignKept, SnapshotOf, TypeOK
<1>5. \A g \in Controlled : disk'[g] = IF g \in C \ run'[p].todo THEN run[p].doc ELSE 0
  BY <1>1, <1>2, <1>3, Sorted DEF TypeOK
<1>7. run'[p].todo \subseteq C
  BY <1>1, <1>2
<1> QED
  BY <1>1, <1>4, <1>5, <1>6, <1>7 DEF Reached

\* A clean apply after WriteEnds: what is installed, and what is left to do.
LEMMA ReachedWriteEnds ==
  ASSUME TypeOK, Routed, InPlace, NEW p \in Procs, WriteEnds(p),
         run'[p].clean, run'[p].what = "trust_only"
  PROVE  Reached(run[p])'
<1>1. /\ run'[p].at = "validate" /\ run'[p].before = run[p].before /\ run'[p].kept = run[p].kept
      /\ disk' = disk /\ run'[p].doc = run[p].doc
      /\ run[p].at = "write" /\ run[p].clean /\ run[p].what = "trust_only"
      /\ run[p].todo = {}
  BY WriteEndsMoves DEF WriteEnds, Has
<1>2. ForeignKept(run[p]) /\ SnapshotOf(run[p]) /\ Exact(run[p])
  BY <1>1 DEF InPlace, Reached, Exact
<1>3. ForeignKept(run[p])' /\ SnapshotOf(run[p])' /\ Exact(run[p])'
  BY <1>1, <1>2 DEF ForeignKept, SnapshotOf, Exact, Carries
<1> QED
  BY <1>1, <1>3 DEF Reached

\* A clean apply after Validate: what is installed, and what is left to do.
LEMMA ReachedValidate ==
  ASSUME TypeOK, Routed, InPlace, NEW p \in Procs, Validate(p),
         run'[p].clean, run'[p].what = "trust_only"
  PROVE  Reached(run[p])'
<1>1. /\ run'[p].before = run[p].before /\ run'[p].kept = run[p].kept
      /\ disk' = disk /\ run'[p].doc = run[p].doc /\ expired' = expired
      /\ run[p].at = "validate" /\ run[p].clean /\ run[p].what = "trust_only"
      /\ \/ run'[p].at = "peers"
         \/ /\ Problems # {} /\ run'[p].at = "restore"
            /\ run'[p].todo = {f \in Files : run[p].kept[f] # 0}
  BY Zenon, ValidateMoves DEF Validate, Has, around
<1>2. ForeignKept(run[p]) /\ SnapshotOf(run[p]) /\ Exact(run[p])
  BY <1>1 DEF InPlace, Reached
<1>3. ForeignKept(run[p])' /\ SnapshotOf(run[p])' /\ Exact(run[p])'
  BY <1>1, <1>2 DEF ForeignKept, SnapshotOf, Exact, Carries
<1>4. Problems # {} => Blame(run[p])
  <2>1. ASSUME NEW f \in Problems, f \notin Foreign PROVE run[p].doc <= expired
    <3>1. f \in Controlled /\ disk[f] # 0 /\ disk[f] <= expired
      BY <2>1, Sorted DEF Problems
    <3> QED
      BY <1>2, <3>1 DEF Exact
  <2> QED
    BY <2>1 DEF Blame
<1>5. Problems # {} => Blame(run[p])'
  BY <1>1, <1>4 DEF Blame, Problems
<1>6. run'[p].at = "restore" =>
        \A f \in Lists : f \in run'[p].todo \/ run'[p].before[f] = 0 \/ disk'[f] = run'[p].before[f]
  BY <1>1, <1>2, Sorted DEF SnapshotOf
<1> QED
  BY <1>1, <1>3, <1>5, <1>6 DEF Reached

\* A clean apply after Restore: what is installed, and what is left to do.
LEMMA ReachedRestore ==
  ASSUME TypeOK, Routed, InPlace, NEW p \in Procs, Restore(p),
         run'[p].clean, run'[p].what = "trust_only"
  PROVE  Reached(run[p])'
<1> DEFINE f == NextOf(run[p].todo)
<1>1. /\ run'[p].at = "restore" /\ run'[p].before = run[p].before /\ run'[p].kept = run[p].kept
      /\ run'[p].todo = run[p].todo \ {f} /\ disk' = [disk EXCEPT ![f] = run[p].kept[f]]
      /\ run'[p].doc = run[p].doc /\ expired' = expired
      /\ run[p].at = "restore" /\ run[p].clean /\ run[p].what = "trust_only"
      /\ run[p].todo # {}
  BY Zenon, RestoreMoves DEF Restore, Has, around
<1>2. /\ ForeignKept(run[p]) /\ SnapshotOf(run[p]) /\ Blame(run[p])
      /\ \A g \in Lists : g \in run[p].todo \/ run[p].before[g] = 0 \/ disk[g] = run[p].before[g]
  BY <1>1 DEF InPlace, Reached
<1>3. f \in Files /\ disk \in [Files -> 0 .. gds]
  <2>1. run[p] \in Runs
    BY DEF TypeOK
  <2> QED
    BY <1>1, <2>1, RunType, NextIsOf DEF TypeOK
<1> HIDE DEF f
<1>4. f \in Lists => disk'[f] = run[p].before[f]
  BY <1>1, <1>2, <1>3 DEF SnapshotOf
<1>5. \A g \in Foreign : disk'[g] = disk[g]
  BY <1>1, <1>2, <1>3, <1>4, Sorted DEF ForeignKept
<1>6. ForeignKept(run[p])' /\ SnapshotOf(run[p])'
  BY <1>1, <1>2, <1>5 DEF ForeignKept, SnapshotOf
<1>7. Blame(run[p])'
  BY <1>1, <1>2, <1>5, Sorted DEF Blame, Problems
<1>8. \A g \in Lists : g \in run'[p].todo \/ run'[p].before[g] = 0 \/ disk'[g] = run'[p].before[g]
  BY <1>1, <1>2, <1>3, <1>4, Sorted
<1> QED
  BY <1>1, <1>6, <1>7, <1>8 DEF Reached

\* A clean apply after RestoreEnds: what is installed, and what is left to do.
LEMMA ReachedRestoreEnds ==
  ASSUME TypeOK, Routed, InPlace, NEW p \in Procs, RestoreEnds(p),
         run'[p].clean, run'[p].what = "trust_only"
  PROVE  Reached(run[p])'
<1>1. /\ run'[p].at = "refused" /\ run'[p].before = run[p].before
      /\ disk' = disk /\ run'[p].doc = run[p].doc /\ expired' = expired
      /\ run[p].at = "restore" /\ run[p].clean /\ run[p].what = "trust_only"
      /\ run[p].todo = {}
  BY RestoreEndsMoves DEF RestoreEnds, Has, around
<1>2. /\ Blame(run[p])
      /\ \A g \in Lists : run[p].before[g] = 0 \/ disk[g] = run[p].before[g]
  BY <1>1 DEF InPlace, Reached
<1>3. Blame(run[p])'
  BY <1>1, <1>2 DEF Blame, Problems
<1> QED
  BY <1>1, <1>2, <1>3 DEF Reached

\* A clean apply after WritePeers: what is installed, and what is left to do.
LEMMA ReachedWritePeers ==
  ASSUME TypeOK, Routed, InPlace, NEW p \in Procs, WritePeers(p),
         run'[p].clean, run'[p].what = "trust_only"
  PROVE  Reached(run[p])'
<1>1. /\ run'[p].at = "applied" /\ run'[p].doc = run[p].doc
      /\ run[p].at = "peers" /\ run[p].clean /\ run[p].what = "trust_only"
  BY WritePeersMoves DEF WritePeers, Has
<1>2. Exact(run[p])
  BY <1>1 DEF InPlace, Reached
<1>3. \A f \in Controlled : disk'[f] = disk[f]
  BY Sorted DEF WritePeers, WriteAll
<1>4. Exact(run[p])'
  BY <1>1, <1>2, <1>3 DEF Exact, Carries
<1> QED
  BY <1>1, <1>4 DEF Reached

\* A process's step takes a clean apply from one stage to the next.
LEMMA WorkReached ==
  ASSUME TypeOK, Routed, InPlace, NEW p \in Procs, Work(p),
         run'[p].clean, run'[p].what = "trust_only"
  PROVE  Reached(run[p])'
<1>1. CASE Request(p)
  BY <1>1, RequestMoves DEF Has, Reached
<1>2. CASE KeepPackage(p)
  BY <1>2, KeepPackageMoves DEF Idle
<1>3. CASE KeepTrust(p)
  BY <1>3, KeepTrustMoves, ActingType DEF Has, Reached
<1>4. CASE Load(p)
  BY <1>4, LoadMoves, ActingType DEF Has, Reached
<1>5. CASE PassGate(p)
  BY <1>5, ReachedPassGate
<1>6. CASE NothingToDo(p)
  BY <1>6, NothingToDoMoves DEF Idle
<1>7. CASE Copy(p)
  BY <1>7, CopyMoves DEF Copy, Has, Routed
<1>8. CASE WriteChain(p)
  BY <1>8, ReachedWriteChain
<1>9. CASE SnapshotLists(p)
  BY <1>9, ReachedSnapshot
<1>10. CASE Delete(p)
  BY <1>10, ReachedDelete
<1>11. CASE DeleteEnds(p)
  BY <1>11, ReachedDeleteEnds
<1>12. CASE Write(p)
  BY <1>12, ReachedWrite
<1>13. CASE WriteEnds(p)
  BY <1>13, ReachedWriteEnds
<1>14. CASE Validate(p)
  BY <1>14, ReachedValidate
<1>15. CASE Restore(p)
  BY <1>15, ReachedRestore
<1>16. CASE RestoreEnds(p)
  BY <1>16, ReachedRestoreEnds
<1>17. CASE WritePeers(p)
  BY <1>17, ReachedWritePeers
<1>18. CASE Finish(p)
  BY <1>18, FinishMoves DEF Idle
<1>19. CASE Ends(p)
  BY <1>19, EndsMoves DEF Idle
<1> QED
  BY <1>1, <1>2, <1>3, <1>4, <1>5, <1>6, <1>7, <1>8, <1>9, <1>10, <1>11, <1>12, <1>13, <1>14,
     <1>15, <1>16, <1>17, <1>18, <1>19 DEF Work, TrustOnly

\* How far the clean applies have come is kept by every step.
LEMMA InPlaceStep == TypeOK /\ Single /\ Routed /\ InPlace /\ [Next]_vars => InPlace'
<1> SUFFICES ASSUME TypeOK, Single, Routed, InPlace, [Next]_vars PROVE InPlace'
  OBVIOUS
<1>1. CASE UNCHANGED vars
  BY <1>1 DEF vars, around, InPlace, Reached, ForeignKept, SnapshotOf, Exact, Blame, Problems, Carries
<1>2. CASE \E f \in Files : RenewLocal(f)
  <2>1. \A q \in Procs : run'[q].at = "idle" \/ run'[q].clean = FALSE
    <3>1. \A q \in Procs :
            IF run[q].at = "idle" THEN run'[q] = run[q]
            ELSE Has(run'[q], run[q].at, run[q].what, run[q].doc,
                     run[q].todo, Nothing, run[q].kept, FALSE)
      BY <1>2, RenewMoves
    <3> QED
      BY <3>1 DEF Has
  <2> QED
    BY <2>1 DEF InPlace, Reached
<1>3. CASE Around /\ ~ \E f \in Files : RenewLocal(f)
  <2>1. run' = run /\ disk' = disk /\ (expired' = expired \/ expired' = expired + 1)
    BY <1>3 DEF Around, Publish, Age, ChangeCalendar, CreateApproval, ApprovalExpires
  <2>2. \A r \in Runs : Blame(r) => r.doc <= expired' \/ Problems' \cap Foreign # {}
    <3>1. expired \in Nat /\ \A f \in Files : disk[f] \in Nat
      BY DEF TypeOK
    <3>2. Problems \subseteq Problems'
      BY <2>1, <3>1, Sorted DEF Problems
    <3> QED
      BY <2>1, <3>1, <3>2, RunType DEF Blame
  <2>3. ASSUME NEW q \in Procs, run[q].clean, run[q].what = "trust_only" PROVE Reached(run[q])'
    <3>1. Reached(run[q]) /\ run[q] \in Runs
      BY <2>3 DEF InPlace, TypeOK
    <3>2. Blame(run[q]) => Blame(run[q])'
      BY <2>1, <2>2, <3>1 DEF Blame
    <3>3. /\ ForeignKept(run[q]) => ForeignKept(run[q])'
          /\ SnapshotOf(run[q]) => SnapshotOf(run[q])'
          /\ Exact(run[q]) => Exact(run[q])'
      BY <2>1 DEF ForeignKept, SnapshotOf, Exact, Carries
    <3> QED
      BY <2>1, <3>1, <3>2, <3>3 DEF Reached, Carries
  <2> QED
    BY <2>1, <2>3 DEF InPlace
<1>4. ASSUME NEW p \in Procs, NEW w \in Commands, Begin(p, w) PROVE InPlace'
  <2>1. run'[p].at \in {"request", "load"}
    BY <1>4, BeginMoves DEF Has
  <2>2. \A q \in Procs \ {p} : run'[q].at = "idle" \/ run'[q].clean = FALSE
    <3>1. \A q \in Procs \ {p} :
            IF run[q].at = "idle" THEN run'[q] = run[q]
            ELSE Has(run'[q], run[q].at, run[q].what, run[q].doc,
                     run[q].todo, Nothing, run[q].kept, FALSE)
      BY <1>4, BeginMoves
    <3> QED
      BY <3>1 DEF Has
  <2> QED
    BY <2>1, <2>2 DEF InPlace, Reached
<1>5. ASSUME NEW p \in Procs, Work(p) PROVE InPlace'
  <2>1. run[p].at # "idle" /\ \A q \in Procs \ {p} : run'[q] = run[q]
    BY <1>5, WorkMoves, OthersStay
  <2>2. \A q \in Procs \ {p} : run'[q].at = "idle" \/ ~ run'[q].clean
    BY <2>1 DEF Single, Alone
  <2>3. run'[p].clean /\ run'[p].what = "trust_only" => Reached(run[p])'
    BY <1>5, WorkReached
  <2> QED
    BY <2>2, <2>3 DEF InPlace, Reached
<1> QED
  BY <1>1, <1>2, <1>3, <1>4, <1>5, NextCases

(***************************************************************************)
(* No apply takes a CRL back, while processes never overlapped.            *)
(***************************************************************************)
\* A CRL file that is not the installation's own is GDS's or a package's.
LEMMA OwnFiles ==
  /\ Controlled \subseteq Own /\ Own \subseteq Lists /\ Lists \cap Packaged \subseteq Own
  /\ \A f \in Lists : f \in Own \/ Kind[f] = "local"
  /\ \A f \in Own : Kind[f] # "local"
BY ComponentAssumption DEF Own, Lists, Controlled, Packaged, Of, Kinds

\* The numbers the ceiling is made of.
LEMMA CeilingType ==
  TypeOK => /\ Top \in Nat /\ Ceiling \in Nat /\ (Top # 0 => Ceiling = Top)
            /\ Top \in 0 .. gds /\ gds \in Nat /\ cached \in Nat /\ package \in Nat
            /\ \A f \in Files : disk[f] \in Nat
BY DEF TypeOK, Top, Ceiling

\* After Request, nothing installed is ahead of the next apply.
LEMMA AheadRequest ==
  ASSUME TypeOK, Routed, NEW p \in Procs, Request(p), Ahead(run[p]),
         \A f \in Own : disk[f] <= Ceiling
  PROVE  Ahead(run[p])' /\ \A f \in Own : disk'[f] <= Ceiling'
<1>1. /\ run'[p].at = "keep" /\ run'[p].doc = gds /\ UNCHANGED <<disk, cached, package>>
  BY Zenon, RequestMoves DEF Request, Has, caches
<1>9. Top' = Top /\ Ceiling' = Ceiling
  BY <1>1 DEF Top, Ceiling
<1>2. gds # 0 /\ gds >= cached /\ gds >= package
  BY DEF TypeOK
<1>3. Ahead(run[p])'
  BY <1>1, <1>2 DEF Ahead, Mutates
<1> QED
  BY <1>1, <1>3, <1>9

\* After KeepPackage, nothing installed is ahead of the next apply.
LEMMA AheadKeepPackage ==
  ASSUME TypeOK, Routed, NEW p \in Procs, KeepPackage(p), Ahead(run[p]),
         \A f \in Own : disk[f] <= Ceiling
  PROVE  Ahead(run[p])' /\ \A f \in Own : disk'[f] <= Ceiling'
<1>1. /\ run'[p].at = "idle" /\ UNCHANGED <<disk, cached>> /\ package' = run[p].doc
      /\ run[p].doc # 0 /\ run[p].doc >= package /\ run[p].doc \in Nat
  BY KeepPackageMoves, ActingType, RunType DEF KeepPackage, Ahead, TypeOK
<1>2. Ceiling' \in Nat /\ Ceiling <= Ceiling'
  BY <1>1, CeilingType DEF Ceiling, Top
<1>3. Ahead(run[p])'
  BY <1>1 DEF Ahead, Mutates
<1>4. \A f \in Own : disk[f] \in Nat
  BY CeilingType, OwnFiles, Sorted
<1> QED
  BY <1>1, <1>2, <1>3, <1>4, CeilingType

\* After KeepTrust, nothing installed is ahead of the next apply.
LEMMA AheadKeepTrust ==
  ASSUME TypeOK, Routed, NEW p \in Procs, KeepTrust(p), Ahead(run[p]),
         \A f \in Own : disk[f] <= Ceiling
  PROVE  Ahead(run[p])' /\ \A f \in Own : disk'[f] <= Ceiling'
<1>1. /\ run'[p].at = "idle" \/ (run'[p].at = "load" /\ run'[p].what = "trust_only")
      /\ UNCHANGED <<disk, package>> /\ cached' = run[p].doc
      /\ run[p].doc # 0 /\ run[p].doc >= cached /\ run[p].doc >= package /\ run[p].doc \in Nat
  <2>1. run'[p].at = "idle" \/ (run'[p].at = "load" /\ run'[p].what = "trust_only")
    <3>1. CASE AutoApply
      BY <3>1, KeepTrustMoves DEF Has
    <3>2. CASE ~ AutoApply
      BY <3>2, KeepTrustMoves, ActingType
    <3> QED
      BY <3>1, <3>2
  <2>2. UNCHANGED <<disk, package>> /\ cached' = run[p].doc /\ run[p].at = "keep"
    BY DEF KeepTrust
  <2>3. run[p].doc \in Nat
    BY RunType DEF TypeOK
  <2> QED
    BY <2>1, <2>2, <2>3 DEF Ahead
<1>2. Ceiling' \in Nat /\ Ceiling <= Ceiling'
  BY <1>1, CeilingType DEF Ceiling, Top
<1>3. Ahead(run[p])'
  BY <1>1 DEF Ahead, Mutates
<1>4. \A f \in Own : disk[f] \in Nat
  BY CeilingType, OwnFiles, Sorted
<1> QED
  BY <1>1, <1>2, <1>3, <1>4, CeilingType

\* After Load, nothing installed is ahead of the next apply.
LEMMA AheadLoad ==
  ASSUME TypeOK, Routed, NEW p \in Procs, Load(p), Ahead(run[p]),
         \A f \in Own : disk[f] <= Ceiling
  PROVE  Ahead(run[p])' /\ \A f \in Own : disk'[f] <= Ceiling'
<1>1. /\ UNCHANGED <<disk, cached, package>>
      /\ \/ run'[p].at = "idle"
         \/ run'[p].at = "gate" /\ run'[p].doc = Material(Mode(run[p].what))
            /\ Material(Mode(run[p].what)) # 0
      /\ run[p].what # "certificate_and_trust"
  BY Zenon, LoadMoves, ActingType DEF Load, Has, Ahead, caches
<1>9. Top' = Top /\ Ceiling' = Ceiling
  BY <1>1 DEF Top, Ceiling
<1>2. Material(Mode(run[p].what)) # 0 => Material(Mode(run[p].what)) = Top
  <2>1. run[p].what \in {"auto", "trust_only"}
    BY <1>1 DEF Load, Routed
  <2> QED
    BY <2>1 DEF Material, Mode, Top
<1>3. Ahead(run[p])'
  BY <1>1, <1>2, <1>9 DEF Ahead, Mutates
<1> QED
  BY <1>1, <1>3, <1>9

\* After PassGate, nothing installed is ahead of the next apply.
LEMMA AheadPassGate ==
  ASSUME TypeOK, Routed, NEW p \in Procs, PassGate(p), Ahead(run[p]),
         \A f \in Own : disk[f] <= Ceiling
  PROVE  Ahead(run[p])' /\ \A f \in Own : disk'[f] <= Ceiling'
<1>1. /\ UNCHANGED <<disk, cached, package>> /\ run[p].at = "gate"
      /\ \/ run'[p].at = "chain"
         \/ run'[p].at = "copy" /\ run'[p].todo = Packaged
      /\ run'[p].before = Undisturbed(p) /\ run'[p].doc = run[p].doc
  BY Zenon, PassGateMoves DEF PassGate, StagePackage, Has, caches
<1>9. Top' = Top /\ Ceiling' = Ceiling
  BY <1>1 DEF Top, Ceiling
<1>2. Top # 0 /\ run[p].doc = Top
  BY <1>1 DEF Ahead, TypeOK
<1>3. \A f \in Files : run'[p].before[f] = disk[f] \/ run'[p].before[f] = 0
  BY <1>1 DEF Undisturbed, Nothing
<1>4. \A f \in Own : run'[p].before[f] <= Top
  BY <1>2, <1>3, CeilingType, OwnFiles, Sorted
<1>5. \A f \in Lists : disk[f] = 0 \/ disk[f] >= run'[p].before[f]
  BY <1>3, CeilingType, Sorted
<1>6. Ahead(run[p])'
  BY <1>1, <1>2, <1>4, <1>5, <1>9 DEF Ahead, Mutates
<1> QED
  BY <1>1, <1>6, <1>9

\* After Copy, nothing installed is ahead of the next apply.
LEMMA AheadCopy ==
  ASSUME TypeOK, Routed, NEW p \in Procs, Copy(p), Ahead(run[p]),
         \A f \in Own : disk[f] <= Ceiling
  PROVE  Ahead(run[p])' /\ \A f \in Own : disk'[f] <= Ceiling'
<1> DEFINE f == NextOf(run[p].todo)
<1>0. run[p].at = "copy" /\ run[p].doc = Top /\ Top # 0 /\ run[p].todo \subseteq Packaged
  BY DEF Copy, Ahead, TypeOK, Mutates
<1>1. /\ UNCHANGED <<cached, package>>
      /\ \/ run'[p].at = "applied" /\ disk' = disk
         \/ /\ run[p].todo # {} /\ run'[p].at = "copy" /\ run'[p].todo = run[p].todo \ {f}
            /\ disk' = [disk EXCEPT ![f] = run[p].doc]
      /\ run'[p].before = run[p].before /\ run'[p].doc = run[p].doc
  BY CopyMoves DEF Copy, Has, caches
<1>9. Top' = Top /\ Ceiling' = Ceiling
  BY <1>1 DEF Top, Ceiling
<1>2. /\ \A g \in Own : run[p].before[g] <= Top
      /\ \A g \in Lists : disk[g] = 0 \/ disk[g] >= run[p].before[g]
  BY <1>0 DEF Ahead, Mutates
<1>3. CASE disk' = disk
  <2>1. Ahead(run[p])'
    BY <1>0, <1>1, <1>2, <1>3, <1>9 DEF Ahead, Mutates
  <2> QED
    BY <1>3, <1>9, <2>1
<1>4. CASE run[p].todo # {} /\ disk' = [disk EXCEPT ![f] = run[p].doc]
  <2>1. f \in Packaged
    BY <1>0, <1>4, NextIsOf, PackagedIsFiles
  <2> HIDE DEF f
  <2>2. disk \in [Files -> 0 .. gds]
    BY DEF TypeOK
  <2>3. \A g \in Own : disk'[g] <= Ceiling
    BY <1>0, <1>4, <2>2, CeilingType, OwnFiles, Sorted
  <2>4. \A g \in Lists : disk'[g] = 0 \/ disk'[g] >= run[p].before[g]
    <3>1. ASSUME NEW g \in Lists, g = f PROVE disk'[g] >= run[p].before[g]
      <4>1. g \in Own /\ disk'[g] = Top
        BY <1>0, <1>4, <2>1, <2>2, <3>1, OwnFiles, Sorted
      <4>2. run[p].before[g] \in Nat
        BY <4>1, RunType, OwnFiles, Sorted DEF TypeOK
      <4> QED
        BY <1>2, <4>1, <4>2, CeilingType
    <3> QED
      BY <1>2, <1>4, <2>2, <3>1, Sorted
  <2>5. Ahead(run[p])'
    BY <1>0, <1>1, <1>2, <1>9, <2>4 DEF Ahead, Mutates
  <2> QED
    BY <1>9, <2>3, <2>5
<1> QED
  BY <1>1, <1>3, <1>4

\* After WriteChain, nothing installed is ahead of the next apply.
LEMMA AheadWriteChain ==
  ASSUME TypeOK, Routed, NEW p \in Procs, WriteChain(p), Ahead(run[p]),
         \A f \in Own : disk[f] <= Ceiling
  PROVE  Ahead(run[p])' /\ \A f \in Own : disk'[f] <= Ceiling'
<1>0. run[p].at = "chain"
  BY DEF WriteChain
<1>1. /\ UNCHANGED <<cached, package>> /\ run'[p].at = "snapshot"
      /\ run'[p].before = run[p].before /\ run'[p].doc = run[p].doc
  BY WriteChainMoves DEF WriteChain, Has, caches
<1>9. Top' = Top /\ Ceiling' = Ceiling
  BY <1>1 DEF Top, Ceiling
<1>2. \A f \in Lists : disk'[f] = disk[f]
  BY Sorted DEF WriteChain, WriteAll
<1>3. Ahead(run[p])'
  BY <1>0, <1>1, <1>2, <1>9 DEF Ahead, Mutates
<1> QED
  BY <1>2, <1>3, <1>9, OwnFiles

\* After Snapshot, nothing installed is ahead of the next apply.
LEMMA AheadSnapshot ==
  ASSUME TypeOK, Routed, NEW p \in Procs, SnapshotLists(p), Ahead(run[p]),
         \A f \in Own : disk[f] <= Ceiling
  PROVE  Ahead(run[p])' /\ \A f \in Own : disk'[f] <= Ceiling'
<1>0. run[p].at = "snapshot"
  BY DEF SnapshotLists, Snapshot
<1>1. PICK unreadable \in SUBSET Lists :
        Has(run'[p], "delete", run[p].what, run[p].doc,
            {f \in Controlled : disk[f] # 0}, run[p].before,
            [f \in Files |-> IF f \in Lists \ unreadable THEN disk[f] ELSE 0],
            run[p].clean /\ unreadable = {})
  BY SnapshotListsMoves
<1>2. /\ UNCHANGED <<cached, package, disk>> /\ run'[p].at = "delete"
      /\ run'[p].before = run[p].before /\ run'[p].doc = run[p].doc
      /\ run'[p].kept = [f \in Files |-> IF f \in Lists \ unreadable THEN disk[f] ELSE 0]
  BY <1>1 DEF SnapshotLists, Snapshot, Has, caches
<1>9. Top' = Top /\ Ceiling' = Ceiling
  BY <1>2 DEF Top, Ceiling
<1>3. \A f \in Own : run'[p].kept[f] <= Ceiling
  BY <1>2, CeilingType, OwnFiles, Sorted
<1>4. Ahead(run[p])'
  BY <1>0, <1>2, <1>3, <1>9 DEF Ahead, Mutates
<1> QED
  BY <1>2, <1>4, <1>9

\* After Delete, nothing installed is ahead of the next apply.
LEMMA AheadDelete ==
  ASSUME TypeOK, Routed, NEW p \in Procs, Delete(p), Ahead(run[p]),
         \A f \in Own : disk[f] <= Ceiling
  PROVE  Ahead(run[p])' /\ \A f \in Own : disk'[f] <= Ceiling'
<1> DEFINE f == NextOf(run[p].todo)
<1>0. run[p].at = "delete"
  BY DEF Delete
<1>1. /\ UNCHANGED <<cached, package>> /\ run'[p].at = "delete"
      /\ run'[p].before = run[p].before /\ run'[p].doc = run[p].doc /\ run'[p].kept = run[p].kept
      /\ disk' = disk \/ disk' = [disk EXCEPT ![f] = 0]
  BY Zenon, DeleteMoves DEF Delete, Has, caches
<1>9. Top' = Top /\ Ceiling' = Ceiling
  BY <1>1 DEF Top, Ceiling
<1> HIDE DEF f
<1>2. \A g \in Files : disk'[g] = disk[g] \/ disk'[g] = 0
  BY <1>1 DEF TypeOK
<1>3. Ahead(run[p])'
  BY <1>0, <1>1, <1>2, <1>9, Sorted DEF Ahead, Mutates
<1>4. \A g \in Own : disk'[g] <= Ceiling
  BY <1>2, CeilingType, OwnFiles, Sorted
<1> QED
  BY <1>3, <1>4, <1>9

\* After DeleteEnds, nothing installed is ahead of the next apply.
LEMMA AheadDeleteEnds ==
  ASSUME TypeOK, Routed, NEW p \in Procs, DeleteEnds(p), Ahead(run[p]),
         \A f \in Own : disk[f] <= Ceiling
  PROVE  Ahead(run[p])' /\ \A f \in Own : disk'[f] <= Ceiling'
<1>0. run[p].at = "delete"
  BY DEF DeleteEnds
<1>1. /\ UNCHANGED <<cached, package, disk>> /\ run'[p].at = "write"
      /\ run'[p].before = run[p].before /\ run'[p].doc = run[p].doc /\ run'[p].kept = run[p].kept
      /\ run'[p].todo \subseteq Controlled
  BY ZenonT(60), DeleteEndsMoves, Sorted DEF DeleteEnds, Has, caches
<1>9. Top' = Top /\ Ceiling' = Ceiling
  BY <1>1 DEF Top, Ceiling
<1>3. Ahead(run[p])'
  BY <1>0, <1>1, <1>9 DEF Ahead, Mutates
<1> QED
  BY <1>1, <1>3, <1>9

\* After Write, nothing installed is ahead of the next apply.
LEMMA AheadWrite ==
  ASSUME TypeOK, Routed, NEW p \in Procs, Write(p), Ahead(run[p]),
         \A f \in Own : disk[f] <= Ceiling
  PROVE  Ahead(run[p])' /\ \A f \in Own : disk'[f] <= Ceiling'
<1> DEFINE f == NextOf(run[p].todo)
<1>0. /\ run[p].at = "write" /\ run[p].doc = Top /\ Top # 0 /\ run[p].todo \subseteq Controlled
      /\ run[p].todo # {}
  BY DEF Write, Ahead, TypeOK, Mutates
<1>1. /\ UNCHANGED <<cached, package>> /\ run'[p].at = "write" /\ run'[p].todo \subseteq run[p].todo
      /\ run'[p].before = run[p].before /\ run'[p].doc = run[p].doc /\ run'[p].kept = run[p].kept
      /\ disk' = disk \/ disk' = [disk EXCEPT ![f] = run[p].doc]
  BY Zenon, WriteMoves DEF Write, Has, caches
<1>9. Top' = Top /\ Ceiling' = Ceiling
  BY <1>1 DEF Top, Ceiling
<1>2. f \in Controlled
  BY <1>0, NextIsOf, Sorted
<1> HIDE DEF f
<1>3. /\ \A g \in Own : run[p].before[g] <= Top
      /\ \A g \in Lists : disk[g] = 0 \/ disk[g] >= run[p].before[g]
      /\ \A g \in Own : run[p].kept[g] <= Ceiling
  BY <1>0 DEF Ahead, Mutates
<1>4. \A g \in Files : disk'[g] = disk[g] \/ (g = f /\ disk'[g] = Top)
  BY <1>0, <1>1 DEF TypeOK
<1>5. \A g \in Own : disk'[g] <= Ceiling
  BY <1>0, <1>4, CeilingType, OwnFiles, Sorted
<1>6. \A g \in Lists : disk'[g] = 0 \/ disk'[g] >= run[p].before[g]
  <2>1. \A g \in Own : run[p].before[g] \in Nat
    BY RunType, OwnFiles, Sorted DEF TypeOK
  <2> QED
    BY <1>2, <1>3, <1>4, <2>1, CeilingType, OwnFiles, Sorted
<1>7. Ahead(run[p])'
  BY <1>0, <1>1, <1>3, <1>6, <1>9 DEF Ahead, Mutates
<1> QED
  BY <1>5, <1>7, <1>9

\* After WriteEnds, nothing installed is ahead of the next apply.
LEMMA AheadWriteEnds ==
  ASSUME TypeOK, Routed, NEW p \in Procs, WriteEnds(p), Ahead(run[p]),
         \A f \in Own : disk[f] <= Ceiling
  PROVE  Ahead(run[p])' /\ \A f \in Own : disk'[f] <= Ceiling'
<1>0. run[p].at = "write"
  BY DEF WriteEnds
<1>1. /\ UNCHANGED <<cached, package, disk>> /\ run'[p].at = "validate"
      /\ run'[p].before = run[p].before /\ run'[p].doc = run[p].doc /\ run'[p].kept = run[p].kept
  BY WriteEndsMoves DEF WriteEnds, Has, caches
<1>9. Top' = Top /\ Ceiling' = Ceiling
  BY <1>1 DEF Top, Ceiling
<1>3. Ahead(run[p])'
  BY <1>0, <1>1, <1>9 DEF Ahead, Mutates
<1> QED
  BY <1>1, <1>3, <1>9

\* After Validate, nothing installed is ahead of the next apply.
LEMMA AheadValidate ==
  ASSUME TypeOK, Routed, NEW p \in Procs, Validate(p), Ahead(run[p]),
         \A f \in Own : disk[f] <= Ceiling
  PROVE  Ahead(run[p])' /\ \A f \in Own : disk'[f] <= Ceiling'
<1>0. run[p].at = "validate"
  BY DEF Validate
<1>1. /\ UNCHANGED <<cached, package, disk>> /\ run'[p].at \in {"peers", "restore"}
      /\ run'[p].before = run[p].before /\ run'[p].doc = run[p].doc /\ run'[p].kept = run[p].kept
  BY Zenon, ValidateMoves DEF Validate, Has, caches
<1>9. Top' = Top /\ Ceiling' = Ceiling
  BY <1>1 DEF Top, Ceiling
<1>3. Ahead(run[p])'
  BY <1>0, <1>1, <1>9 DEF Ahead, Mutates
<1> QED
  BY <1>1, <1>3, <1>9

\* After Restore, nothing installed is ahead of the next apply.
LEMMA AheadRestore ==
  ASSUME TypeOK, Routed, NEW p \in Procs, Restore(p), Ahead(run[p]),
         \A f \in Own : disk[f] <= Ceiling
  PROVE  Ahead(run[p])' /\ \A f \in Own : disk'[f] <= Ceiling'
<1> DEFINE f == NextOf(run[p].todo)
<1>0. run[p].at = "restore"
  BY DEF Restore
<1>1. /\ UNCHANGED <<cached, package>> /\ run'[p].at = "restore"
      /\ run'[p].before = run[p].before /\ run'[p].doc = run[p].doc /\ run'[p].kept = run[p].kept
      /\ disk' = disk \/ disk' = [disk EXCEPT ![f] = run[p].kept[f]]
  BY Zenon, RestoreMoves DEF Restore, Has, caches
<1>9. Top' = Top /\ Ceiling' = Ceiling
  BY <1>1 DEF Top, Ceiling
<1> HIDE DEF f
<1>2. \A g \in Files : disk'[g] = disk[g] \/ disk'[g] = run[p].kept[g]
  BY <1>1 DEF TypeOK
<1>3. Ahead(run[p])'
  BY <1>0, <1>1, <1>9 DEF Ahead, Mutates
<1>4. \A g \in Own : run[p].kept[g] <= Ceiling
  BY <1>0 DEF Ahead
<1>5. \A g \in Own : disk'[g] <= Ceiling
  BY <1>2, <1>4, OwnFiles, Sorted
<1> QED
  BY <1>3, <1>5, <1>9

\* After RestoreEnds, nothing installed is ahead of the next apply.
LEMMA AheadRestoreEnds ==
  ASSUME TypeOK, Routed, NEW p \in Procs, RestoreEnds(p), Ahead(run[p]),
         \A f \in Own : disk[f] <= Ceiling
  PROVE  Ahead(run[p])' /\ \A f \in Own : disk'[f] <= Ceiling'
<1>0. run[p].at = "restore"
  BY DEF RestoreEnds
<1>1. /\ UNCHANGED <<cached, package, disk>> /\ run'[p].at = "refused"
      /\ run'[p].before = run[p].before /\ run'[p].doc = run[p].doc
  BY RestoreEndsMoves DEF RestoreEnds, Has, caches
<1>9. Top' = Top /\ Ceiling' = Ceiling
  BY <1>1 DEF Top, Ceiling
<1>3. Ahead(run[p])'
  BY <1>0, <1>1, <1>9 DEF Ahead, Mutates
<1> QED
  BY <1>1, <1>3, <1>9

\* After WritePeers, nothing installed is ahead of the next apply.
LEMMA AheadWritePeers ==
  ASSUME TypeOK, Routed, NEW p \in Procs, WritePeers(p), Ahead(run[p]),
         \A f \in Own : disk[f] <= Ceiling
  PROVE  Ahead(run[p])' /\ \A f \in Own : disk'[f] <= Ceiling'
<1>0. run[p].at = "peers"
  BY DEF WritePeers
<1>1. /\ UNCHANGED <<cached, package>> /\ run'[p].at = "applied"
      /\ run'[p].before = run[p].before /\ run'[p].doc = run[p].doc
  BY WritePeersMoves DEF WritePeers, Has, caches
<1>9. Top' = Top /\ Ceiling' = Ceiling
  BY <1>1 DEF Top, Ceiling
<1>2. \A f \in Lists : disk'[f] = disk[f]
  BY Sorted DEF WritePeers, WriteAll
<1>3. Ahead(run[p])'
  BY <1>0, <1>1, <1>2, <1>9 DEF Ahead, Mutates
<1> QED
  BY <1>2, <1>3, <1>9, OwnFiles

\* After NothingToDo, nothing installed is ahead of the next apply.
LEMMA AheadNothingToDo ==
  ASSUME TypeOK, Routed, NEW p \in Procs, NothingToDo(p), Ahead(run[p]),
         \A f \in Own : disk[f] <= Ceiling
  PROVE  Ahead(run[p])' /\ \A f \in Own : disk'[f] <= Ceiling'
<1>1. UNCHANGED <<cached, package, disk>> /\ run'[p].at = "idle"
  BY NothingToDoMoves, ActingType DEF NothingToDo, caches
<1>9. Top' = Top /\ Ceiling' = Ceiling
  BY <1>1 DEF Top, Ceiling
<1>3. Ahead(run[p])'
  BY <1>1 DEF Ahead, Mutates
<1> QED
  BY <1>1, <1>3, <1>9

\* After Finish, nothing installed is ahead of the next apply.
LEMMA AheadFinish ==
  ASSUME TypeOK, Routed, NEW p \in Procs, Finish(p), Ahead(run[p]),
         \A f \in Own : disk[f] <= Ceiling
  PROVE  Ahead(run[p])' /\ \A f \in Own : disk'[f] <= Ceiling'
<1>1. UNCHANGED <<cached, package, disk>> /\ run'[p].at = "idle"
  BY FinishMoves, ActingType DEF Finish, caches
<1>9. Top' = Top /\ Ceiling' = Ceiling
  BY <1>1 DEF Top, Ceiling
<1>3. Ahead(run[p])'
  BY <1>1 DEF Ahead, Mutates
<1> QED
  BY <1>1, <1>3, <1>9

\* After Ends, nothing installed is ahead of the next apply.
LEMMA AheadEnds ==
  ASSUME TypeOK, Routed, NEW p \in Procs, Ends(p), Ahead(run[p]),
         \A f \in Own : disk[f] <= Ceiling
  PROVE  Ahead(run[p])' /\ \A f \in Own : disk'[f] <= Ceiling'
<1>1. UNCHANGED <<cached, package, disk>> /\ run'[p].at = "idle"
  BY EndsMoves, ActingType DEF Ends, caches
<1>9. Top' = Top /\ Ceiling' = Ceiling
  BY <1>1 DEF Top, Ceiling
<1>3. Ahead(run[p])'
  BY <1>1 DEF Ahead, Mutates
<1> QED
  BY <1>1, <1>3, <1>9

\* What is installed stays at most what the next apply would install.
LEMMA ForwardStep == TypeOK /\ Single /\ Routed /\ Forward /\ [Next]_vars => Forward'
<1> SUFFICES ASSUME TypeOK, Single, Routed, Forward, [Next]_vars, ~ tangled' PROVE Forward'
  BY DEF Forward
<1>0. \A q \in Procs : run'[q].at = "idle" => Ahead(run[q])'
  BY DEF Ahead, Mutates
<1>1. CASE UNCHANGED vars
  BY <1>1 DEF vars, caches, Forward, Ahead, Top, Ceiling
<1>2. ASSUME NEW f \in Files, RenewLocal(f) PROVE Forward'
  <2>1. /\ ~ tangled /\ UNCHANGED <<cached, package>> /\ Kind[f] = "local"
        /\ disk' = [disk EXCEPT ![f] = gds] /\ gds \in Nat
    BY <1>2 DEF RenewLocal, caches, TypeOK
  <2>2. Top' = Top /\ Ceiling' = Ceiling
    BY <2>1 DEF Top, Ceiling
  <2>3. \A g \in Own : disk'[g] = disk[g]
    BY <2>1, OwnFiles DEF TypeOK
  <2>4. \A g \in Files : disk'[g] \in Nat
    BY <2>1 DEF TypeOK
  <2>5. ASSUME NEW q \in Procs, run[q].at # "idle" PROVE Ahead(run[q])'
    <3>1. Has(run'[q], run[q].at, run[q].what, run[q].doc,
              run[q].todo, Nothing, run[q].kept, FALSE)
      BY <1>2, <2>5, RenewMoves
    <3>2. \A g \in Files : run'[q].before[g] = 0
      BY <3>1 DEF Has, Nothing
    <3>3. Ahead(run[q])
      BY <2>1 DEF Forward
    <3>4. /\ \A g \in Own : run'[q].before[g] <= Top
          /\ \A g \in Lists : disk'[g] >= run'[q].before[g]
      BY <2>4, <3>2, CeilingType, OwnFiles, Sorted
    <3> QED
      BY <2>1, <2>2, <3>1, <3>3, <3>4 DEF Has, Ahead
  <2>6. ASSUME NEW q \in Procs, run[q].at = "idle" PROVE run'[q].at = "idle"
    BY <1>2, <2>6, RenewMoves
  <2>7. \A q \in Procs : Ahead(run[q])'
    BY <1>0, <2>5, <2>6
  <2>8. \A g \in Own : disk'[g] <= Ceiling'
    BY <2>1, <2>2, <2>3 DEF Forward
  <2> QED
    BY <2>7, <2>8 DEF Forward
<1>3. CASE Around /\ ~ \E f \in Files : RenewLocal(f)
  <2>1. UNCHANGED <<run, disk, cached, package, tangled>>
    BY <1>3 DEF Around, Publish, Age, ChangeCalendar, CreateApproval, ApprovalExpires, caches
  <2> QED
    BY <2>1 DEF Forward, Ahead, Top, Ceiling
<1>4. ASSUME NEW p \in Procs, NEW w \in Commands, Begin(p, w) PROVE Forward'
  <2>1. /\ ~ tangled /\ Others(p) = {} /\ w # "certificate_and_trust"
        /\ UNCHANGED <<disk, cached, package>>
    BY <1>4 DEF Begin, HoldsKey
  <2>2. \A q \in Procs \ {p} : run'[q].at = "idle"
    BY <1>4, <2>1, BeginMoves DEF Others
  <2>3. run'[p].at \in {"request", "load"} /\ run'[p].what = w
    BY <1>4, BeginMoves DEF Has
  <2>4. Ahead(run[p])'
    BY <2>1, <2>3 DEF Ahead, Mutates
  <2>5. Top' = Top /\ Ceiling' = Ceiling
    BY <2>1 DEF Top, Ceiling
  <2>6. \A f \in Own : disk'[f] <= Ceiling'
    BY <2>1, <2>5 DEF Forward
  <2>7. \A q \in Procs : Ahead(run[q])'
    BY <1>0, <2>2, <2>4
  <2> QED
    BY <2>6, <2>7 DEF Forward
<1>5. ASSUME NEW p \in Procs, Work(p) PROVE Forward'
  <2>0. /\ ~ tangled /\ run[p].at # "idle" /\ \A q \in Procs \ {p} : run'[q] = run[q]
    BY <1>5, WorkMoves, OthersStay
  <2>9. \A q \in Procs \ {p} : run'[q].at = "idle"
    BY <2>0 DEF Single, Alone
  <2>8. Ahead(run[p]) /\ \A f \in Own : disk[f] <= Ceiling
    BY <2>0 DEF Forward
  <2>7. Ahead(run[p])' /\ \A f \in Own : disk'[f] <= Ceiling'
    <3>1. CASE Request(p)
      BY <2>8, <3>1, AheadRequest
    <3>2. CASE KeepPackage(p)
      BY <2>8, <3>2, AheadKeepPackage
    <3>3. CASE KeepTrust(p)
      BY <2>8, <3>3, AheadKeepTrust
    <3>4. CASE Load(p)
      BY <2>8, <3>4, AheadLoad
    <3>5. CASE PassGate(p)
      BY <2>8, <3>5, AheadPassGate
    <3>6. CASE NothingToDo(p)
      BY <2>8, <3>6, AheadNothingToDo
    <3>7. CASE Copy(p)
      BY <2>8, <3>7, AheadCopy
    <3>8. CASE WriteChain(p)
      BY <2>8, <3>8, AheadWriteChain
    <3>9. CASE SnapshotLists(p)
      BY <2>8, <3>9, AheadSnapshot
    <3>10. CASE Delete(p)
      BY <2>8, <3>10, AheadDelete
    <3>11. CASE DeleteEnds(p)
      BY <2>8, <3>11, AheadDeleteEnds
    <3>12. CASE Write(p)
      BY <2>8, <3>12, AheadWrite
    <3>13. CASE WriteEnds(p)
      BY <2>8, <3>13, AheadWriteEnds
    <3>14. CASE Validate(p)
      BY <2>8, <3>14, AheadValidate
    <3>15. CASE Restore(p)
      BY <2>8, <3>15, AheadRestore
    <3>16. CASE RestoreEnds(p)
      BY <2>8, <3>16, AheadRestoreEnds
    <3>17. CASE WritePeers(p)
      BY <2>8, <3>17, AheadWritePeers
    <3>18. CASE Finish(p)
      BY <2>8, <3>18, AheadFinish
    <3>19. CASE Ends(p)
      BY <2>8, <3>19, AheadEnds
    <3> QED
      BY <1>5, <3>1, <3>2, <3>3, <3>4, <3>5, <3>6, <3>7, <3>8, <3>9, <3>10, <3>11, <3>12, <3>13, <3>14, <3>15, <3>16, <3>17, <3>18, <3>19 DEF Work, TrustOnly
  <2>6. \A q \in Procs : Ahead(run[q])'
    BY <1>0, <2>7, <2>9
  <2> QED
    BY <2>6, <2>7 DEF Forward
<1> QED
  BY <1>1, <1>2, <1>3, <1>4, <1>5, NextCases

(***************************************************************************)
(* The theorems.                                                           *)
(***************************************************************************)
\* The invariant holds at the start.
LEMMA InitInvariant == Init => IInv
<1> SUFFICES ASSUME Init PROVE IInv
  OBVIOUS
<1>1. TypeOK
  BY TypeInit
<1>2. \A p \in Procs : run[p].at = "idle"
  BY DEF Init, Idle
<1>3. Single /\ Routed /\ InPlace
  BY <1>2 DEF Single, Routed, InPlace, Reached, Mutates
<1>4. \A f \in Own : disk[f] <= Ceiling
  BY OwnFiles, Sorted DEF Init, Ceiling, Top
<1>5. Forward
  BY <1>2, <1>4 DEF Forward, Ahead, Mutates
<1> QED
  BY <1>1, <1>3, <1>5 DEF IInv

\* The invariant holds after a step.
LEMMA StepInvariant == IInv /\ [Next]_vars => IInv'
BY TypeStep, SingleStep, RoutedStep, InPlaceStep, ForwardStep DEF IInv

\* The inductive invariant of the component commands, from which the others follow.
THEOREM Invariant == Spec => []IInv
<1>1. Init => IInv
  BY InitInvariant
<1>2. IInv /\ [Next]_vars => IInv'
  BY StepInvariant
<1> QED
  BY <1>1, <1>2, PTL DEF Spec

\* Every command keeps its record, the caches and the files within what they
\* hold: the type invariant of the component commands.
THEOREM TypeCorrect == Spec => []TypeOK
<1>1. IInv => TypeOK
  BY DEF IInv
<1> QED
  BY <1>1, Invariant, PTL

\* A clean trust-only apply leaves exactly the artifact's files, and no apply
\* takes a CRL back while processes never overlapped
\* (_write_target_stage_material, component_apply_trust_once).
THEOREM AppliesExactly == Spec => []ApplyIsExact
<1>1. ASSUME IInv PROVE ApplyIsExact
  <2> SUFFICES ASSUME NEW p \in Procs, run[p].at = "applied"
               PROVE  /\ run[p].clean /\ run[p].what = "trust_only" =>
                           \A f \in Controlled : disk[f] = IF f \in Carries(run[p].doc) THEN run[p].doc ELSE 0
                      /\ ~tangled => \A f \in Lists : disk[f] = 0 \/ disk[f] >= run[p].before[f]
    BY DEF ApplyIsExact
  <2>1. run[p].clean /\ run[p].what = "trust_only" => Exact(run[p])
    BY <1>1 DEF IInv, InPlace, Reached
  <2>2. ~tangled => \A f \in Lists : disk[f] = 0 \/ disk[f] >= run[p].before[f]
    BY <1>1 DEF IInv, Forward, Ahead, Mutates
  <2> QED
    BY <2>1, <2>2 DEF Exact
<1> QED
  BY <1>1, Invariant, PTL

\* A clean apply is refused only for an expired artifact or for CRLs GDS does
\* not control, and the CRL files there were are back as they were
\* (_validate_crl_dirs, _restore_crl_snapshot).
THEOREM RefusalsAreHarmless == Spec => []RefusalIsHarmless
<1>1. ASSUME IInv PROVE RefusalIsHarmless
  <2> SUFFICES ASSUME NEW p \in Procs, run[p].clean, run[p].at \in {"restore", "refused"}
               PROVE  /\ run[p].doc <= expired \/ Problems \cap Foreign # {}
                      /\ run[p].at = "refused" =>
                           \A f \in Lists : run[p].before[f] # 0 => disk[f] = run[p].before[f]
    BY DEF RefusalIsHarmless
  <2>1. run[p].what = "trust_only"
    BY <1>1 DEF IInv, Routed, Mutates
  <2>2. Reached(run[p])
    BY <1>1, <2>1 DEF IInv, InPlace
  <2> QED
    BY <2>2 DEF Reached, Blame
<1> QED
  BY <1>1, Invariant, PTL

(***************************************************************************)
(* Agreement.                                                              *)
(***************************************************************************)
\* Where there is agreement, each approval that counts has one to go with.
LEMMA AgreementHasPairs ==
  ASSUME Agreed
  PROVE  /\ Counted # {} /\ Counted \subseteq DOMAIN approvals
         /\ \A i \in Counted : \E j \in Counted : Pair(i, j)
<1>1. Counted \subseteq DOMAIN approvals
  BY DEF Counted, Newest
<1>2. Counted # {}
  <2>1. SUFFICES ASSUME Counted = {} PROVE FALSE
    OBVIOUS
  <2>2. OperatorsOf(Counted) = {}
    BY <2>1 DEF OperatorsOf
  <2>3. Cardinality({}) = 0
    BY FS_EmptySet
  <2> QED
    BY <2>2, <2>3 DEF Agreed, Required
<1>3. ASSUME NEW i \in Counted PROVE \E j \in Counted : Pair(i, j)
  <2>1. CASE ~ DualApproval
    BY <2>1 DEF Pair
  <2>2. CASE DualApproval
    <3>1. SUFFICES ASSUME \A j \in Counted : approvals[j].by = approvals[i].by PROVE FALSE
      BY DEF Pair
    <3>2. OperatorsOf(Counted) = {approvals[i].by}
      BY <3>1 DEF OperatorsOf
    <3>3. Cardinality({approvals[i].by}) = 1
      BY FS_Singleton
    <3> QED
      BY <2>2, <3>2, <3>3 DEF Agreed, Required
  <2> QED
    BY <2>1, <2>2
<1> QED
  BY <1>1, <1>2, <1>3

\* An open gate means that the operators permit the work.
LEMMA GatePermits == GateOpens => Permitted
<1> SUFFICES ASSUME GateOpens PROVE Permitted
  OBVIOUS
<1>1. CASE calendar
  <2>1. ApprovalRequired => \E i, j \in DOMAIN approvals : Pair(i, j)
    BY AgreementHasPairs DEF GateOpens
  <2> QED
    BY <1>1, <2>1 DEF Permitted
<1>2. CASE ~ calendar
  <2>1. EmergencyMode /\ Agreed /\ \E i \in Counted : approvals[i].emergency
    BY <1>2 DEF GateOpens, Override
  <2>2. \E i, j \in DOMAIN approvals : Pair(i, j) /\ approvals[i].emergency
    BY <2>1, AgreementHasPairs
  <2> QED
    BY <2>1, <2>2 DEF Permitted
<1> QED
  BY <1>1, <1>2

\* A process comes to write through the gate only, and changes the runtime
\* only where it writes.
LEMMA WorkWrites ==
  ASSUME TypeOK, Routed, NEW p \in Procs, Work(p)
  PROVE  /\ run'[p].at \in Mutates /\ run[p].at \notin Mutates => GateOpens
         /\ disk' # disk => run[p].at \in Mutates
         /\ run'[p] = run[p] => UNCHANGED disk
         /\ UNCHANGED key
<1> USE DEF caches, Mutates
<1>0. Idle.at = "idle" /\ run[p].todo \subseteq Files
  BY ActingType, RunType
<1>1. CASE Request(p)
  BY <1>0, <1>1, RequestMoves DEF Request, Has
<1>2. CASE KeepPackage(p)
  BY <1>0, <1>2, KeepPackageMoves DEF KeepPackage
<1>3. CASE KeepTrust(p)
  BY <1>0, <1>3, KeepTrustMoves DEF KeepTrust, Has
<1>4. CASE Load(p)
  BY <1>0, <1>4, LoadMoves DEF Load, Has
<1>5. CASE PassGate(p)
  BY <1>0, <1>5, PassGateMoves DEF PassGate, Has
<1>6. CASE NothingToDo(p)
  BY <1>0, <1>6, NothingToDoMoves DEF NothingToDo
<1>7. CASE Copy(p)
  <2>1. run[p].at \in Mutates /\ UNCHANGED key
    BY <1>7 DEF Copy
  <2>2. disk' # disk => run'[p].todo # run[p].todo
    BY <1>0, <1>7, CopyMoves, NextIsOf DEF Copy, Has
  <2> QED
    BY <2>1, <2>2
<1>8. CASE WriteChain(p)
  BY <1>0, <1>8, WriteChainMoves DEF WriteChain, Has
<1>9. CASE SnapshotLists(p)
  BY <1>0, <1>9, SnapshotListsMoves DEF SnapshotLists, Snapshot, Has
<1>10. CASE Delete(p)
  <2>1. run[p].at \in Mutates /\ UNCHANGED key
    BY <1>10 DEF Delete
  <2>2. disk' # disk => run'[p].todo # run[p].todo
    BY <1>0, <1>10, DeleteMoves, NextIsOf DEF Delete, Has
  <2> QED
    BY <2>1, <2>2
<1>11. CASE DeleteEnds(p)
  BY <1>0, <1>11, DeleteEndsMoves DEF DeleteEnds, Has
<1>12. CASE Write(p)
  <2>1. run[p].at \in Mutates /\ UNCHANGED key
    BY <1>12 DEF Write
  <2>2. disk' # disk => run'[p].todo # run[p].todo
    BY <1>0, <1>12, WriteMoves, NextIsOf DEF Write, Has
  <2> QED
    BY <2>1, <2>2
<1>13. CASE WriteEnds(p)
  BY <1>0, <1>13, WriteEndsMoves DEF WriteEnds, Has
<1>14. CASE Validate(p)
  BY <1>0, <1>14, ValidateMoves DEF Validate, Has
<1>15. CASE Restore(p)
  <2>1. run[p].at \in Mutates /\ UNCHANGED key
    BY <1>15 DEF Restore
  <2>2. disk' # disk => run'[p].todo # run[p].todo
    BY <1>0, <1>15, RestoreMoves, NextIsOf DEF Restore, Has
  <2> QED
    BY <2>1, <2>2
<1>16. CASE RestoreEnds(p)
  BY <1>0, <1>16, RestoreEndsMoves DEF RestoreEnds, Has
<1>17. CASE WritePeers(p)
  BY <1>0, <1>17, WritePeersMoves DEF WritePeers, Has
<1>18. CASE Finish(p)
  BY <1>0, <1>18, FinishMoves DEF Finish
<1>19. CASE Ends(p)
  BY <1>0, <1>19, EndsMoves DEF Ends
<1> QED
  BY <1>1, <1>2, <1>3, <1>4, <1>5, <1>6, <1>7, <1>8, <1>9, <1>10, <1>11, <1>12, <1>13, <1>14, <1>15, <1>16, <1>17, <1>18, <1>19 DEF Work, TrustOnly

\* Every process begins to write, and every private key is created, when the
\* operators permit it, by agreement of two where the level is dual and out of
\* the window only for an emergency one of them has asked for
\* (load_active_approval_for_target, evaluate_activation_gate, main).
THEOREM WritesAgreed == Spec => WritesAreAgreed
<1> DEFINE
     Writes(p) == run'[p].at \in Mutates => run[p].at \in Mutates \/ Permitted
     Keys      == key' # key => Permitted
     Changes   == disk' # disk =>
                    \/ \E p \in Procs : run[p].at \in Mutates /\ run'[p] # run[p]
                    \/ \E f \in Of({"local"}) : \A g \in Files \ {f} : disk'[g] = disk[g]
<1>1. ASSUME IInv, [Next]_vars PROVE [AgreedStep]_vars
  <2>0. TypeOK /\ Routed
    BY <1>1 DEF IInv
  <2>1. CASE UNCHANGED vars
    BY <2>1
  <2>2. CASE Around
    <3>1. (\A p \in Procs : Writes(p)) /\ Keys
      BY <2>0, <2>2, AroundMoves DEF caches
    <3>2. ASSUME NEW f \in Files, RenewLocal(f)
          PROVE  f \in Of({"local"}) /\ \A g \in Files \ {f} : disk'[g] = disk[g]
      BY <2>0, <3>2 DEF RenewLocal, Of, TypeOK
    <3>3. Changes
      BY <2>2, <3>2 DEF Around, Publish, Age, ChangeCalendar, CreateApproval, ApprovalExpires
    <3> QED
      BY <3>1, <3>3 DEF AgreedStep
  <2>3. ASSUME NEW p \in Procs, NEW w \in Commands, Begin(p, w) PROVE AgreedStep
    <3>1. UNCHANGED disk /\ Keys
      BY <2>0, <2>3, GatePermits DEF Begin, HoldsKey, KeyGateOpens, TypeOK
    <3>2. run'[p].at \notin Mutates
      BY <2>0, <2>3, BeginMoves DEF Has, Mutates
    <3>3. \A q \in Procs \ {p} :
            IF run[q].at = "idle" THEN run'[q] = run[q]
            ELSE Has(run'[q], run[q].at, run[q].what, run[q].doc, run[q].todo,
                     Nothing, run[q].kept, FALSE)
      BY Zenon, <2>0, <2>3, BeginMoves
    <3>4. \A q \in Procs \ {p} : run'[q].at = run[q].at
      BY <3>3 DEF Has
    <3> QED
      BY <3>1, <3>2, <3>4 DEF AgreedStep
  <2>4. ASSUME NEW p \in Procs, Work(p) PROVE AgreedStep
    <3>1. \A q \in Procs \ {p} : run'[q] = run[q]
      BY <2>0, <2>4, OthersStay
    <3>2. /\ run'[p].at \in Mutates /\ run[p].at \notin Mutates => Permitted
          /\ disk' # disk => run[p].at \in Mutates /\ run'[p] # run[p]
          /\ UNCHANGED key
      BY <2>0, <2>4, WorkWrites, GatePermits
    <3> QED
      BY <3>1, <3>2 DEF AgreedStep
  <2> QED
    BY <1>1, <2>1, <2>2, <2>3, <2>4, NextCases
<1> QED
  BY <1>1, Invariant, PTL DEF Spec, WritesAreAgreed
=============================================================================
