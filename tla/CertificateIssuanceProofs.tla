----------------------- MODULE CertificateIssuanceProofs -----------------------
(***************************************************************************)
(* Proofs about certificate issuance, for any number of calls, CSRs and    *)
(* lines.                                                                  *)
(***************************************************************************)
EXTENDS CertificateIssuance, FiniteSetTheorems, SequenceTheorems, TLAPS

\* What each step of a call finds in the database.
Phase(c) ==
  /\ pc[c] \in {"new", "check", "insert"} => status[c] = "none"
  /\ pc[c] \in {"sign", "fail", "store", "issued"} => status[c] = "VALIDATED"
  /\ pc[c] \in {"lineage", "package", "packaged"} => status[c] = "ISSUED"
  /\ pc[c] \in {"new", "check", "insert", "sign", "fail", "store"} => c \notin stored
  /\ pc[c] \in {"issued", "lineage", "package", "packaged", "respond"} => c \in stored
  /\ pc[c] \in {"new", "check", "insert", "sign", "fail", "store", "issued",
                "lineage", "package"} => generation[c] = 0 /\ supersedes[c] = None
  /\ pc[c] \in {"packaged", "respond"} => generation[c] > 0
  /\ pc[c] # "new" => csr[c] \in Csrs
  /\ pc[c] \in {"new", "check", "insert", "sign", "fail", "store", "issued",
                "lineage"} => previous[c] = None

RowInv(c) ==
  /\ c \in stored => status[c] \in Live
  /\ status[c] \in {"ISSUED", "PACKAGED"} => c \in stored
  /\ status[c] = "PACKAGED" => generation[c] > 0
  /\ generation[c] > 0 => csr[c] \in Csrs

\* g is a generation the line may hold next, after package p.
Follows(l, g, p) ==
  /\ g \in Nat \ {0}
  /\ IF g = 1 THEN p = None
              ELSE \E d \in PackagesOf(l) : p = d /\ generation[d] + 1 = g

ReadInv == \A c \in Calls : pc[c] = "package" => Follows(LineOf[c], next[c], previous[c])

EnrolledInv ==
  \A c \in Calls : enrolled[c] =>
    /\ pc[c] # "new"
    /\ \E d \in stored : csr[d] = csr[c]
    /\ kind[c] # "renewal" => pc[c] \in {"check", "done"} /\ c \notin stored

IInv ==
  /\ \A c \in Calls : Phase(c)
  /\ \A c \in Calls : RowInv(c)
  /\ ReadInv
  /\ LineageIsAChain
  /\ EnrolledInv

-------------------------------------------------------------------------------
LEMMA TypeStep == TypeOK /\ [Next]_vars => TypeOK'
<1> SUFFICES ASSUME TypeOK, [Next]_vars PROVE TypeOK'
  OBVIOUS
<1> USE IssuanceAssumption DEF TypeOK, tables, locals
<1>1. CASE UNCHANGED vars
  BY <1>1 DEF vars
<1>2. ASSUME NEW c \in Calls, NEW s \in Csrs,
             NEW k \in Kinds, Begin(c, s, k)
      PROVE  TypeOK'
  BY <1>2 DEF Begin, Transition, Steps
<1>3. ASSUME NEW c \in Calls, NEW s \in Csrs, DryRun(c, s) PROVE TypeOK'
  BY <1>3 DEF DryRun, Answer, SetStatus, Transition, Steps, Abandoned
<1>4. ASSUME NEW c \in Calls, Step(c) PROVE TypeOK'
  <2>1. CASE CheckDuplicate(c)
    BY <2>1 DEF CheckDuplicate, Answer, Transition, Steps
  <2>2. CASE InsertRequest(c)
    BY <2>2 DEF InsertRequest, Answer, SetStatus, Transition, Steps, Live, Abandoned
  <2>3. CASE Sign(c)
    BY <2>3 DEF Sign, Transition, Steps
  <2>4. CASE SignFailed(c)
    BY <2>4 DEF SignFailed, Answer, SetStatus, Transition, Steps, Abandoned
  <2>5. CASE StoreCertificate(c)
    BY <2>5 DEF StoreCertificate, Transition, Steps
  <2>6. CASE MarkIssued(c)
    BY <2>6 DEF MarkIssued, SetStatus, Transition, Steps, Live
  <2>7. CASE ReadLineage(c)
    BY <2>7 DEF ReadLineage, Newest, PackagesOf, Transition, Steps
  <2>8. CASE StorePackage(c)
    BY <2>8 DEF StorePackage, Answer, Transition, Steps
  <2>9. CASE MarkPackaged(c)
    BY <2>9 DEF MarkPackaged, SetStatus, Transition, Steps, Live
  <2>10. CASE Respond(c)
    BY <2>10 DEF Respond, Answer, Transition, Steps
  <2> QED
    BY <1>4, <2>1, <2>2, <2>3, <2>4, <2>5, <2>6, <2>7, <2>8, <2>9, <2>10 DEF Step
<1>5. ASSUME NEW c \in Calls, Abort(c) PROVE TypeOK'
  BY <1>5 DEF Abort, Answer, Transition, Steps
<1> QED
  BY <1>1, <1>2, <1>3, <1>4, <1>5 DEF Next

\* A call's step leaves the other calls where they are.
LEMMA Alone ==
  ASSUME TypeOK, NEW c \in Calls, NEW from, NEW to, Transition(c, from, to)
  PROVE  pc' = [pc EXCEPT ![c] = to] /\ pc[c] = from /\ pc'[c] = to
         /\ \A d \in Calls \ {c} : pc'[d] = pc[d]
BY DEF Transition, TypeOK

\* The phase and the row of a call that did not move, when the rest of it did
\* not change either.
Same(d) ==
  /\ pc'[d] = pc[d] /\ status'[d] = status[d] /\ (d \in stored' <=> d \in stored)
  /\ generation'[d] = generation[d] /\ supersedes'[d] = supersedes[d]
  /\ csr'[d] = csr[d] /\ previous'[d] = previous[d] /\ next'[d] = next[d]
  /\ kind'[d] = kind[d] /\ enrolled'[d] = enrolled[d]

LEMMA SamePhase ==
  ASSUME NEW d \in Calls, Same(d), Phase(d), RowInv(d)
  PROVE  Phase(d)' /\ RowInv(d)'
BY DEF Same, Phase, RowInv

\* Every step is the step of one call.
LEMMA OneCall ==
  ASSUME TypeOK, NEW c \in Calls,
         \/ \E s \in Csrs, k \in Kinds : Begin(c, s, k)
         \/ \E s \in Csrs : DryRun(c, s)
         \/ Step(c)
         \/ Abort(c)
  PROVE  \A d \in Calls \ {c} : Same(d)
<1> USE DEF TypeOK, tables, locals, Same, Transition, Answer, SetStatus
<1>1. ASSUME NEW s \in Csrs, NEW k \in Kinds, Begin(c, s, k)
      PROVE  \A d \in Calls \ {c} : Same(d)
  BY <1>1 DEF Begin
<1>2. ASSUME NEW s \in Csrs, DryRun(c, s) PROVE \A d \in Calls \ {c} : Same(d)
  BY <1>2 DEF DryRun
<1>3. CASE Abort(c)
  BY <1>3 DEF Abort
<1>4. CASE Step(c)
  <2>1. CASE CheckDuplicate(c)
    BY <2>1 DEF CheckDuplicate
  <2>2. CASE InsertRequest(c)
    BY <2>2 DEF InsertRequest
  <2>3. CASE Sign(c)
    BY <2>3 DEF Sign
  <2>4. CASE SignFailed(c)
    BY <2>4 DEF SignFailed
  <2>5. CASE StoreCertificate(c)
    BY <2>5 DEF StoreCertificate
  <2>6. CASE MarkIssued(c)
    BY <2>6 DEF MarkIssued
  <2>7. CASE ReadLineage(c)
    BY <2>7 DEF ReadLineage
  <2>8. CASE StorePackage(c)
    BY <2>8 DEF StorePackage
  <2>9. CASE MarkPackaged(c)
    BY <2>9 DEF MarkPackaged
  <2>10. CASE Respond(c)
    BY <2>10 DEF Respond
  <2> QED
    BY <1>4, <2>1, <2>2, <2>3, <2>4, <2>5, <2>6, <2>7, <2>8, <2>9, <2>10 DEF Step
<1> QED
  BY <1>1, <1>2, <1>3, <1>4

-------------------------------------------------------------------------------
(***************************************************************************)
(* Phases and rows.                                                        *)
(***************************************************************************)
LEMMA PhaseStep ==
  TypeOK /\ IInv /\ [Next]_vars => \A d \in Calls : Phase(d)' /\ RowInv(d)'
<1> SUFFICES ASSUME TypeOK, IInv, [Next]_vars, NEW d \in Calls
             PROVE  Phase(d)' /\ RowInv(d)'
  OBVIOUS
<1>p. Phase(d) /\ RowInv(d)
  BY DEF IInv
<1>1. CASE UNCHANGED vars
  <2>1. Same(d)
    BY <1>1 DEF Same, vars, tables, locals
  <2> QED BY <1>p, <2>1, SamePhase
<1>2. ASSUME NEW c \in Calls, c # d,
             \/ \E s \in Csrs, k \in Kinds : Begin(c, s, k)
             \/ \E s \in Csrs : DryRun(c, s)
             \/ Step(c)
             \/ Abort(c)
      PROVE  Phase(d)' /\ RowInv(d)'
  BY <1>2, <1>p, OneCall, SamePhase
<1> USE DEF TypeOK, tables, locals, Phase, RowInv, Live, Abandoned
<1>3. ASSUME NEW s \in Csrs, NEW k \in Kinds, Begin(d, s, k)
      PROVE  Phase(d)' /\ RowInv(d)'
  BY <1>3, <1>p DEF Begin, Transition
<1>4. ASSUME NEW s \in Csrs, DryRun(d, s) PROVE Phase(d)' /\ RowInv(d)'
  BY <1>4, <1>p DEF DryRun, Answer, SetStatus, Transition
<1>5. CASE Abort(d)
  BY <1>5, <1>p DEF Abort, Answer, Transition
<1>6. CASE Step(d)
  <2>1. CASE CheckDuplicate(d)
    BY <2>1, <1>p DEF CheckDuplicate, Answer, Transition
  <2>2. CASE InsertRequest(d)
    BY <2>2, <1>p DEF InsertRequest, Answer, SetStatus, Transition
  <2>3. CASE Sign(d)
    BY <2>3, <1>p DEF Sign, Transition
  <2>4. CASE SignFailed(d)
    BY <2>4, <1>p DEF SignFailed, Answer, SetStatus, Transition
  <2>5. CASE StoreCertificate(d)
    BY <2>5, <1>p DEF StoreCertificate, Transition
  <2>6. CASE MarkIssued(d)
    BY <2>6, <1>p DEF MarkIssued, SetStatus, Transition
  <2>7. CASE ReadLineage(d)
    BY <2>7, <1>p DEF ReadLineage, Transition
  <2>8. CASE StorePackage(d)
    <3>1. pc[d] = "package" => next[d] > 0
      BY DEF IInv, ReadInv, Follows
    <3> QED BY <2>8, <1>p, <3>1 DEF StorePackage, Answer, Transition
  <2>9. CASE MarkPackaged(d)
    BY <2>9, <1>p DEF MarkPackaged, SetStatus, Transition
  <2>10. CASE Respond(d)
    BY <2>10, <1>p DEF Respond, Answer, Transition
  <2> QED
    BY <1>6, <2>1, <2>2, <2>3, <2>4, <2>5, <2>6, <2>7, <2>8, <2>9, <2>10 DEF Step
<1> QED
  BY <1>1, <1>2, <1>3, <1>4, <1>5, <1>6 DEF Next

-------------------------------------------------------------------------------
(***************************************************************************)
(* The lineage.                                                            *)
(***************************************************************************)
\* Packages are only added: those there are keep their line, generation and
\* predecessor.
Grows == \A c \in Calls : generation[c] > 0 =>
           /\ generation'[c] = generation[c] /\ supersedes'[c] = supersedes[c]
           /\ csr'[c] = csr[c]

LEMMA FollowsFrame ==
  ASSUME Grows, NEW l, NEW g, NEW p, Follows(l, g, p)
  PROVE  Follows(l, g, p)'
BY DEF Grows, Follows, PackagesOf

\* Nothing is added.
Frozen == \A c \in Calls :
  /\ generation'[c] = generation[c] /\ supersedes'[c] = supersedes[c]
  /\ generation[c] > 0 => csr'[c] = csr[c]

LEMMA ChainFrozen == Frozen /\ LineageIsAChain => Grows /\ LineageIsAChain'
<1> SUFFICES ASSUME Frozen, LineageIsAChain PROVE Grows /\ LineageIsAChain'
  OBVIOUS
<1>1. Grows
  BY DEF Frozen, Grows
<1>2. ASSUME NEW c \in Calls, generation'[c] > 0
      PROVE  PackagesOf(LineOf[c])' = PackagesOf(LineOf[c])
  BY <1>2 DEF Frozen, PackagesOf
<1>3. \A c \in Calls : PackagesOf(LineOf[c]) \subseteq Calls
  BY DEF PackagesOf
<1>4. LineageIsAChain'
  <2> SUFFICES ASSUME NEW c \in Calls, generation'[c] > 0
               PROVE  /\ \A d \in PackagesOf(LineOf[c])' :
                           generation'[d] = generation'[c] => d = c
                      /\ IF generation'[c] = 1
                           THEN supersedes'[c] = None
                           ELSE \E d \in PackagesOf(LineOf[c])' :
                                  supersedes'[c] = d /\ generation'[d] + 1 = generation'[c]
    BY DEF LineageIsAChain
  <2> QED BY <1>2, <1>3 DEF Frozen, LineageIsAChain
<1> QED BY <1>1, <1>4

LEMMA FrozenStep ==
  ASSUME TypeOK, IInv, NEW c \in Calls,
         \/ \E s \in Csrs, k \in Kinds : Begin(c, s, k)
         \/ \E s \in Csrs : DryRun(c, s)
         \/ Step(c) /\ ~ StorePackage(c)
         \/ Abort(c)
  PROVE  Frozen
<1>1. pc[c] = "new" => generation[c] = 0
  BY DEF IInv, Phase
<1> USE DEF TypeOK, tables, locals, Frozen
<1>2. CASE \E s \in Csrs, k \in Kinds : Begin(c, s, k)
  BY <1>1, <1>2 DEF Begin, Transition
<1>3. CASE \E s \in Csrs : DryRun(c, s)
  BY <1>1, <1>3 DEF DryRun, Answer, Transition
<1>4. CASE Abort(c)
  BY <1>4 DEF Abort
<1>5. CASE Step(c) /\ ~ StorePackage(c)
  BY <1>5 DEF Step, CheckDuplicate, InsertRequest, Sign, SignFailed, StoreCertificate,
             MarkIssued, ReadLineage, MarkPackaged, Respond
<1> QED BY <1>2, <1>3, <1>4, <1>5

\* A stored package extends the chain: its generation is free, and it follows
\* the package that was read.
LEMMA StoreExtends ==
  ASSUME TypeOK, IInv, NEW c \in Calls, StorePackage(c)
  PROVE  Grows /\ LineageIsAChain'
<1>1. CASE UNCHANGED tables /\ UNCHANGED locals
  <2>1. Frozen
    BY <1>1 DEF Frozen, tables, locals
  <2> QED BY <2>1, ChainFrozen DEF IInv
<1>2. CASE /\ pc[c] = "package"
           /\ Free(LineOf[c], next[c])
           /\ generation' = [generation EXCEPT ![c] = next[c]]
           /\ supersedes' = [supersedes EXCEPT ![c] = previous[c]]
           /\ UNCHANGED locals
  <2>1. generation[c] = 0 /\ csr' = csr
    BY <1>2 DEF IInv, Phase, locals
  <2>2. Follows(LineOf[c], next[c], previous[c])
    BY <1>2 DEF IInv, ReadInv
  <2>3. Grows
    BY <1>2, <2>1 DEF Grows, TypeOK
  <2>4. /\ generation'[c] = next[c] /\ supersedes'[c] = previous[c] /\ next[c] > 0
        /\ \A d \in Calls \ {c} : generation'[d] = generation[d] /\ supersedes'[d] = supersedes[d]
    BY <1>2, <2>2 DEF TypeOK, Follows
  <2>5. \A l : PackagesOf(l)' = PackagesOf(l) \cup (IF l = LineOf[c] THEN {c} ELSE {})
    BY <2>1, <2>4 DEF PackagesOf
  <2>6. ASSUME NEW d \in Calls, generation'[d] > 0,
               NEW e \in PackagesOf(LineOf[d])', generation'[e] = generation'[d]
        PROVE  e = d
    BY <1>2, <2>1, <2>4, <2>5, <2>6 DEF IInv, LineageIsAChain, Free, PackagesOf
  <2>7. ASSUME NEW d \in Calls, generation'[d] > 0
        PROVE  IF generation'[d] = 1
                 THEN supersedes'[d] = None
                 ELSE \E e \in PackagesOf(LineOf[d])' :
                        supersedes'[d] = e /\ generation'[e] + 1 = generation'[d]
    <3>1. CASE d = c
      <4>1. CASE next[c] = 1
        BY <2>2, <2>4, <3>1, <4>1 DEF Follows
      <4>2. CASE next[c] # 1
        <5>1. PICK e \in PackagesOf(LineOf[c]) :
                previous[c] = e /\ generation[e] + 1 = next[c]
          BY <2>2, <4>2 DEF Follows
        <5>2. e # c /\ e \in Calls
          BY <2>1, <5>1 DEF PackagesOf
        <5>3. e \in PackagesOf(LineOf[c])'
          BY <2>1, <2>4, <5>1, <5>2 DEF PackagesOf
        <5> QED BY <2>4, <3>1, <4>2, <5>1, <5>2, <5>3
      <4> QED BY <4>1, <4>2
    <3>2. CASE d # c
      <4>1. generation[d] > 0 /\ generation'[d] = generation[d] /\ supersedes'[d] = supersedes[d]
        BY <2>4, <2>7, <3>2
      <4>2. CASE generation[d] = 1
        BY <4>1, <4>2 DEF IInv, LineageIsAChain
      <4>3. CASE generation[d] # 1
        <5>1. PICK e \in PackagesOf(LineOf[d]) :
                supersedes[d] = e /\ generation[e] + 1 = generation[d]
          BY <4>1, <4>3 DEF IInv, LineageIsAChain
        <5>2. e # c /\ e \in Calls
          BY <2>1, <5>1 DEF PackagesOf
        <5>3. e \in PackagesOf(LineOf[d])'
          BY <2>1, <2>4, <5>1, <5>2 DEF PackagesOf
        <5> QED BY <2>4, <4>1, <4>3, <5>1, <5>2, <5>3
      <4> QED BY <4>2, <4>3
    <3> QED BY <3>1, <3>2
  <2>8. LineageIsAChain'
    BY <2>1, <2>6, <2>7 DEF LineageIsAChain
  <2> QED BY <2>3, <2>8
<1> QED BY <1>1, <1>2 DEF StorePackage, Transition, tables, locals

\* What ReadLineage reads is a place at the end of the chain.
LEMMA ReadFollows ==
  ASSUME TypeOK, IInv, NEW c \in Calls, ReadLineage(c)
  PROVE  Follows(LineOf[c], next'[c], previous'[c])
<1>1. previous[c] = None
  BY DEF IInv, Phase, ReadLineage, Transition
<1>2. CASE PackagesOf(LineOf[c]) = {} /\ next' = [next EXCEPT ![c] = 1] /\ previous' = previous
  BY <1>1, <1>2 DEF TypeOK, Follows
<1>3. ASSUME NEW p \in Newest(LineOf[c]),
             next' = [next EXCEPT ![c] = generation[p] + 1],
             previous' = [previous EXCEPT ![c] = p]
      PROVE  Follows(LineOf[c], next'[c], previous'[c])
  <2>1. p \in PackagesOf(LineOf[c]) /\ generation[p] \in Nat /\ generation[p] > 0
    BY DEF Newest, PackagesOf, TypeOK
  <2>2. next'[c] = generation[p] + 1 /\ previous'[c] = p
    BY <1>3 DEF TypeOK
  <2>3. next'[c] \in Nat \ {0} /\ next'[c] # 1
    BY <2>1, <2>2
  <2> QED BY <2>1, <2>2, <2>3 DEF Follows
<1> QED BY <1>2, <1>3 DEF ReadLineage

LEMMA LineageStep == TypeOK /\ IInv /\ [Next]_vars => Grows /\ LineageIsAChain'
<1> SUFFICES ASSUME TypeOK, IInv, [Next]_vars PROVE Grows /\ LineageIsAChain'
  OBVIOUS
<1>1. CASE UNCHANGED vars
  <2>1. Frozen
    BY <1>1 DEF vars, tables, locals, Frozen
  <2> QED BY <2>1, ChainFrozen DEF IInv
<1>2. CASE Next
  <2>1. PICK c \in Calls :
          \/ \E s \in Csrs, k \in Kinds : Begin(c, s, k)
          \/ \E s \in Csrs : DryRun(c, s)
          \/ Step(c)
          \/ Abort(c)
    BY <1>2 DEF Next
  <2>2. CASE StorePackage(c)
    BY <2>2, StoreExtends
  <2>3. CASE ~ StorePackage(c)
    <3>1. Frozen
      BY <2>1, <2>3, FrozenStep
    <3> QED BY <3>1, ChainFrozen DEF IInv
  <2> QED BY <2>2, <2>3
<1> QED BY <1>1, <1>2

\* Only ReadLineage brings a call to the point where it stores its package.
LEMMA ToPackage ==
  ASSUME TypeOK, NEW c \in Calls, pc'[c] = "package",
         \/ \E s \in Csrs, k \in Kinds : Begin(c, s, k)
         \/ \E s \in Csrs : DryRun(c, s)
         \/ Step(c)
         \/ Abort(c)
  PROVE  ReadLineage(c)
<1> USE DEF TypeOK, Transition, Answer
<1>1. ~ \E s \in Csrs, k \in Kinds : Begin(c, s, k)
  BY DEF Begin
<1>2. ~ \E s \in Csrs : DryRun(c, s)
  BY DEF DryRun
<1>3. ~ Abort(c)
  BY DEF Abort
<1>4. ~ CheckDuplicate(c) /\ ~ InsertRequest(c) /\ ~ Sign(c) /\ ~ SignFailed(c)
  BY DEF CheckDuplicate, InsertRequest, Sign, SignFailed
<1>5. ~ StoreCertificate(c) /\ ~ MarkIssued(c) /\ ~ StorePackage(c)
  BY DEF StoreCertificate, MarkIssued, StorePackage
<1>6. ~ MarkPackaged(c) /\ ~ Respond(c)
  BY DEF MarkPackaged, Respond
<1> QED BY <1>1, <1>2, <1>3, <1>4, <1>5, <1>6 DEF Step

LEMMA ReadStep == TypeOK /\ IInv /\ [Next]_vars => ReadInv'
<1> SUFFICES ASSUME TypeOK, IInv, [Next]_vars,
                    NEW d \in Calls, pc'[d] = "package"
             PROVE  Follows(LineOf[d], next[d], previous[d])'
  BY DEF ReadInv
<1>g. Grows
  BY LineageStep
<1>1. CASE Same(d)
  <2>1. PICK l, g, p : l = LineOf[d] /\ g = next[d] /\ p = previous[d]
    OBVIOUS
  <2>2. Follows(l, g, p)
    BY <1>1, <2>1 DEF Same, IInv, ReadInv
  <2>3. Follows(l, g, p)'
    BY <1>g, <2>2, FollowsFrame
  <2> QED BY <1>1, <2>1, <2>3 DEF Same, Follows, PackagesOf
<1>2. CASE ReadLineage(d)
  <2>1. PICK l, g, p : l = LineOf[d] /\ g = next'[d] /\ p = previous'[d]
    OBVIOUS
  <2>2. Follows(l, g, p)
    BY <1>2, <2>1, ReadFollows
  <2>3. Follows(l, g, p)'
    BY <1>g, <2>2, FollowsFrame
  <2>4. csr' = csr
    BY <1>2 DEF ReadLineage
  <2> QED BY <2>1, <2>3, <2>4 DEF Follows, PackagesOf
<1>3. CASE UNCHANGED vars
  BY <1>1, <1>3 DEF vars, tables, locals, Same
<1>4. CASE Next
  <2>1. PICK c \in Calls :
          \/ \E s \in Csrs, k \in Kinds : Begin(c, s, k)
          \/ \E s \in Csrs : DryRun(c, s)
          \/ Step(c)
          \/ Abort(c)
    BY <1>4 DEF Next
  <2>2. CASE c = d
    BY <1>2, <2>1, <2>2, ToPackage
  <2>3. CASE c # d
    BY <1>1, <2>1, <2>3, OneCall
  <2> QED BY <2>2, <2>3
<1> QED BY <1>3, <1>4

-------------------------------------------------------------------------------
(***************************************************************************)
(* The chain of packages.                                                  *)
(***************************************************************************)
\* The generations of a line are the numbers from one to the number of its
\* packages.
Numbered ==
  \A l \in Lines :
    /\ IsFiniteSet(PackagesOf(l))
    /\ \A c \in PackagesOf(l) : generation[c] <= Cardinality(PackagesOf(l))
    /\ \A g \in 1 .. Cardinality(PackagesOf(l)) : \E c \in PackagesOf(l) : generation[c] = g

\* A line as the sequence of its packages.
Ordered(l) ==
  /\ Cardinality(PackagesOf(l)) \in Nat
  /\ Lineage[l] \in Seq(Calls)
  /\ Len(Lineage[l]) = Cardinality(PackagesOf(l))
  /\ \A g \in 1 .. Cardinality(PackagesOf(l)) :
       Lineage[l][g] \in PackagesOf(l) /\ generation[Lineage[l][g]] = g

AllOrdered == \A l \in Lines : Ordered(l)

LEMMA InOrder == Numbered => AllOrdered
<1> SUFFICES ASSUME Numbered, NEW l \in Lines PROVE Ordered(l)
  BY DEF AllOrdered
<1> DEFINE n == Cardinality(PackagesOf(l))
           f == [g \in 1 .. n |-> IF \E c \in PackagesOf(l) : generation[c] = g
                                    THEN CHOOSE c \in PackagesOf(l) : generation[c] = g
                                    ELSE None]
<1>1. n \in Nat
  BY FS_CardinalityType DEF Numbered
<1>2. Lineage[l] = f
  BY DEF Lineage
<1>3. \A g \in 1 .. n : \E c \in PackagesOf(l) : generation[c] = g
  BY DEF Numbered
<1> HIDE DEF n
<1>4. \A g \in 1 .. n : f[g] \in PackagesOf(l) /\ generation[f[g]] = g
  BY <1>3
<1>5. f \in [1 .. n -> Calls]
  BY <1>4 DEF PackagesOf
<1>6. f \in Seq(Calls) /\ Len(f) = n
  BY <1>1, <1>5
<1> HIDE DEF f
<1> QED BY <1>1, <1>2, <1>4, <1>6 DEF Ordered, n

\* A generation of a line is one package's.
LEMMA OnePackage ==
  ASSUME LineageIsAChain, NEW l, NEW c \in PackagesOf(l), NEW d \in PackagesOf(l),
         generation[c] = generation[d]
  PROVE  c = d
BY DEF LineageIsAChain, PackagesOf

LEMMA FrozenNumbered ==
  ASSUME Frozen, Numbered
  PROVE  Numbered'
<1>1. /\ \A l : PackagesOf(l)' = PackagesOf(l)
      /\ \A l : \A c \in PackagesOf(l) : generation'[c] = generation[c]
  BY DEF Frozen, PackagesOf
<1> QED BY <1>1 DEF Numbered

\* The part of the chain that a step keeps.
LEMMA SameLine ==
  ASSUME NEW l, PackagesOf(l)' = PackagesOf(l), Ordered(l), Ordered(l)',
         \A c \in PackagesOf(l) : generation'[c] = generation[c], LineageIsAChain
  PROVE  Lineage'[l] = Lineage[l]
<1>1. ASSUME NEW g \in 1 .. Len(Lineage[l]) PROVE Lineage'[l][g] = Lineage[l][g]
  <2>1. /\ Lineage[l][g] \in PackagesOf(l) /\ generation[Lineage[l][g]] = g
        /\ Lineage'[l][g] \in PackagesOf(l) /\ generation[Lineage'[l][g]] = g
    BY DEF Ordered
  <2> QED BY <2>1, OnePackage
<1>2. /\ Lineage[l] \in Seq(Calls) /\ Lineage'[l] \in Seq(Calls)
      /\ Len(Lineage'[l]) = Len(Lineage[l])
  BY DEF Ordered
<1> QED BY <1>1, <1>2, SeqEqual

LEMMA FrozenLineage ==
  ASSUME LineageIsAChain, Frozen, AllOrdered, AllOrdered'
  PROVE  UNCHANGED Lineage
<1>1. /\ \A l : PackagesOf(l)' = PackagesOf(l)
      /\ \A l : \A c \in PackagesOf(l) : generation'[c] = generation[c]
  BY DEF Frozen, PackagesOf
<1>2. \A l \in Lines : Lineage'[l] = Lineage[l]
  BY <1>1, SameLine DEF AllOrdered
<1> QED BY <1>2 DEF Lineage

\* Only StorePackage adds one.
LEMMA OnlyStores ==
  ASSUME TypeOK, IInv, [Next]_vars, ~ Frozen
  PROVE  \E c \in Calls : StorePackage(c)
<1>1. Next
  BY DEF vars, tables, locals, Frozen
<1>2. PICK c \in Calls :
        \/ \E s \in Csrs, k \in Kinds : Begin(c, s, k)
        \/ \E s \in Csrs : DryRun(c, s)
        \/ Step(c)
        \/ Abort(c)
  BY <1>1 DEF Next
<1>3. StorePackage(c)
  BY <1>2, FrozenStep
<1> QED BY <1>3

\* A package that is stored has the number after the last one.
LEMMA StoreAdds ==
  ASSUME TypeOK, IInv, Numbered, NEW c \in Calls, StorePackage(c), ~ Frozen,
         NEW l, l = LineOf[c]
  PROVE  /\ l \in Lines
         /\ IsFiniteSet(PackagesOf(l)) /\ IsFiniteSet(PackagesOf(l)')
         /\ Cardinality(PackagesOf(l)) \in Nat
         /\ Cardinality(PackagesOf(l)') = Cardinality(PackagesOf(l)) + 1
         /\ generation'[c] = Cardinality(PackagesOf(l)) + 1
         /\ PackagesOf(l)' = PackagesOf(l) \cup {c}
         /\ \A m \in Lines \ {l} : PackagesOf(m)' = PackagesOf(m)
         /\ \A m : c \notin PackagesOf(m)
         /\ \A m : \A d \in PackagesOf(m) : d \in Calls /\ generation'[d] = generation[d]
<1> DEFINE n == Cardinality(PackagesOf(l))
<1>1. /\ pc[c] = "package"
      /\ Free(l, next[c])
      /\ generation' = [generation EXCEPT ![c] = next[c]]
      /\ csr' = csr
  BY DEF StorePackage, Answer, Transition, Frozen, tables, locals
<1>2. generation[c] = 0 /\ csr[c] \in Csrs /\ l \in Lines
  BY <1>1, IssuanceAssumption DEF IInv, Phase
<1>3. Follows(l, next[c], previous[c])
  BY <1>1 DEF IInv, ReadInv
<1>4. generation'[c] = next[c] /\ \A d \in Calls \ {c} : generation'[d] = generation[d]
  BY <1>1 DEF TypeOK
<1>5. /\ c \notin PackagesOf(l)
      /\ PackagesOf(l)' = PackagesOf(l) \cup {c}
      /\ \A m \in Lines \ {l} : PackagesOf(m)' = PackagesOf(m)
      /\ \A m : c \notin PackagesOf(m)
      /\ \A m : \A d \in PackagesOf(m) : d \in Calls /\ generation'[d] = generation[d]
  BY <1>1, <1>2, <1>3, <1>4 DEF PackagesOf, Follows
<1>6. IsFiniteSet(PackagesOf(l)) /\ n \in Nat
  BY <1>2, FS_CardinalityType DEF Numbered
<1>7. IsFiniteSet(PackagesOf(l)') /\ Cardinality(PackagesOf(l)') = n + 1
  BY <1>5, <1>6, FS_AddElement
<1>8. next[c] = n + 1
  <2>1. next[c] \in Nat \ {0} /\ next[c] \notin 1 .. n
    BY <1>1, <1>2, <1>3 DEF Free, Numbered, Follows
  <2>2. next[c] <= n + 1
    <3>1. CASE next[c] = 1
      BY <1>6, <3>1
    <3>2. CASE next[c] # 1
      <4>1. PICK d \in PackagesOf(l) : generation[d] + 1 = next[c]
        BY <1>3, <3>2 DEF Follows
      <4>2. generation[d] \in Nat /\ generation[d] <= n
        BY <1>2, <4>1 DEF Numbered, PackagesOf, TypeOK
      <4> QED BY <1>6, <4>1, <4>2
    <3> QED BY <3>1, <3>2
  <2> QED BY <1>6, <2>1, <2>2
<1> QED BY <1>2, <1>4, <1>5, <1>6, <1>7, <1>8

LEMMA StoreNumbered ==
  ASSUME TypeOK, IInv, Numbered, NEW c \in Calls, StorePackage(c), ~ Frozen
  PROVE  Numbered'
<1>1. PICK l : l = LineOf[c]
  OBVIOUS
<1> DEFINE n == Cardinality(PackagesOf(l))
<1>2. /\ l \in Lines
      /\ IsFiniteSet(PackagesOf(l)')
      /\ n \in Nat /\ Cardinality(PackagesOf(l)') = n + 1
      /\ generation'[c] = n + 1
      /\ PackagesOf(l)' = PackagesOf(l) \cup {c}
      /\ \A m \in Lines \ {l} : PackagesOf(m)' = PackagesOf(m)
      /\ \A m : \A d \in PackagesOf(m) : d \in Calls /\ generation'[d] = generation[d]
  BY <1>1, StoreAdds
<1>3. ASSUME NEW d \in PackagesOf(l)' PROVE generation'[d] <= n + 1
  <2>1. CASE d = c
    BY <1>2, <2>1
  <2>2. CASE d # c
    <3>1. generation[d] \in Nat /\ generation[d] <= n /\ generation'[d] = generation[d]
      BY <1>2, <2>2 DEF Numbered, TypeOK
    <3> QED BY <1>2, <3>1
  <2> QED BY <2>1, <2>2
<1>4. ASSUME NEW g \in 1 .. n + 1 PROVE \E d \in PackagesOf(l)' : generation'[d] = g
  <2>1. CASE g = n + 1
    BY <1>2, <2>1
  <2>2. CASE g # n + 1
    <3>1. g \in 1 .. n
      BY <1>2, <2>2
    <3> QED BY <1>2, <3>1 DEF Numbered
  <2> QED BY <2>1, <2>2
<1>5. ASSUME NEW m \in Lines
      PROVE  /\ IsFiniteSet(PackagesOf(m)')
             /\ \A d \in PackagesOf(m)' : generation'[d] <= Cardinality(PackagesOf(m)')
             /\ \A g \in 1 .. Cardinality(PackagesOf(m)') :
                  \E d \in PackagesOf(m)' : generation'[d] = g
  <2>1. CASE m # l
    BY <1>2, <2>1 DEF Numbered
  <2>2. CASE m = l
    <3> HIDE DEF n
    <3> QED BY <1>2, <1>3, <1>4, <2>2
  <2> QED BY <2>1, <2>2
<1> QED BY <1>5 DEF Numbered

LEMMA StoreAppends ==
  ASSUME TypeOK, IInv, Numbered, NEW c \in Calls, StorePackage(c), ~ Frozen,
         NEW l, l = LineOf[c], AllOrdered, AllOrdered'
  PROVE  /\ l \in Lines
         /\ ~ Chains!InChain(c)
         /\ Lineage' = [Lineage EXCEPT ![l] = Append(@, c)]
<1> DEFINE n == Cardinality(PackagesOf(l))
<1>1. /\ l \in Lines
      /\ n \in Nat /\ Cardinality(PackagesOf(l)') = n + 1
      /\ generation'[c] = n + 1
      /\ PackagesOf(l)' = PackagesOf(l) \cup {c}
      /\ \A m \in Lines \ {l} : PackagesOf(m)' = PackagesOf(m)
      /\ \A m : c \notin PackagesOf(m)
      /\ \A m : \A d \in PackagesOf(m) : d \in Calls /\ generation'[d] = generation[d]
  BY StoreAdds
<1>2. ~ Chains!InChain(c)
  <2> SUFFICES ASSUME NEW m \in Lines, NEW i \in DOMAIN Lineage[m], Lineage[m][i] = c
               PROVE  FALSE
    BY DEF Chains!InChain
  <2>1. i \in 1 .. Cardinality(PackagesOf(m))
    BY LenProperties DEF AllOrdered, Ordered
  <2> QED BY <1>1, <2>1 DEF AllOrdered, Ordered
<1>3. LineageIsAChain /\ Ordered(l) /\ Ordered(l)'
  BY <1>1 DEF IInv, AllOrdered
<1>4. ASSUME NEW m \in Lines \ {l} PROVE Lineage'[m] = Lineage[m]
  BY <1>1, <1>3, SameLine DEF AllOrdered
<1>5. Lineage'[l] = Append(Lineage[l], c)
  <2>1. /\ Lineage[l] \in Seq(Calls) /\ Len(Lineage[l]) = n
        /\ Lineage'[l] \in Seq(Calls) /\ Len(Lineage'[l]) = n + 1
    BY <1>1, <1>3 DEF Ordered
  <2>2. /\ Append(Lineage[l], c) \in Seq(Calls) /\ Len(Append(Lineage[l], c)) = n + 1
        /\ \A g \in 1 .. n : Append(Lineage[l], c)[g] = Lineage[l][g]
        /\ Append(Lineage[l], c)[n + 1] = c
    BY <2>1, AppendProperties
  <2>3. ASSUME NEW g \in 1 .. n + 1 PROVE Lineage'[l][g] = Append(Lineage[l], c)[g]
    <3>1. Lineage'[l][g] \in PackagesOf(l) \cup {c} /\ generation'[Lineage'[l][g]] = g
      BY <1>1, <1>3 DEF Ordered
    <3>2. CASE g = n + 1
      <4>1. ASSUME Lineage'[l][g] \in PackagesOf(l) PROVE FALSE
        <5>1. generation[Lineage'[l][g]] = g /\ g <= n
          BY <1>1, <3>1, <4>1 DEF Numbered
        <5> HIDE DEF n
        <5> QED BY <1>1, <3>2, <5>1
      <4> QED BY <2>2, <3>1, <3>2, <4>1
    <3>3. CASE g # n + 1
      <4>1. g \in 1 .. n
        BY <1>1, <3>3
      <4>2. Lineage'[l][g] \in PackagesOf(l) /\ generation[Lineage'[l][g]] = g
        BY <1>1, <3>1, <3>3
      <4>3. Lineage[l][g] \in PackagesOf(l) /\ generation[Lineage[l][g]] = g
        BY <1>3, <4>1 DEF Ordered
      <4> QED BY <1>3, <2>2, <4>1, <4>2, <4>3, OnePackage
    <3> QED BY <3>2, <3>3
  <2> HIDE DEF n
  <2> QED BY ZenonT(60), <2>1, <2>2, <2>3, SeqEqual
<1>6. /\ Lineage = [m \in Lines |-> Lineage[m]]
      /\ Lineage' = [m \in Lines |-> Lineage'[m]]
  BY DEF Lineage
<1> QED BY <1>1, <1>2, <1>4, <1>5, <1>6

LEMMA NumberedStep == TypeOK /\ IInv /\ Numbered /\ [Next]_vars => Numbered'
<1> SUFFICES ASSUME TypeOK, IInv, Numbered, [Next]_vars PROVE Numbered'
  OBVIOUS
<1>1. CASE Frozen
  BY <1>1, FrozenNumbered
<1>2. CASE ~ Frozen
  <2>1. PICK c \in Calls : StorePackage(c)
    BY <1>2, OnlyStores
  <2> QED BY <1>2, <2>1, StoreNumbered
<1> QED BY <1>1, <1>2

LEMMA ChainStep ==
  TypeOK /\ IInv /\ Numbered /\ AllOrdered /\ AllOrdered' /\ [Next]_vars
    => [Chains!Next]_Lineage
<1> SUFFICES ASSUME TypeOK, IInv, Numbered, AllOrdered, AllOrdered', [Next]_vars
             PROVE  [Chains!Next]_Lineage
  OBVIOUS
<1>1. CASE Frozen
  BY <1>1, FrozenLineage DEF IInv
<1>2. CASE ~ Frozen
  <2>1. PICK c \in Calls : StorePackage(c)
    BY <1>2, OnlyStores
  <2>2. PICK l : l = LineOf[c]
    OBVIOUS
  <2>3. l \in Lines /\ Chains!Issue(l, c)
    BY <1>2, <2>1, <2>2, StoreAppends DEF Chains!Issue
  <2> QED BY <2>3 DEF Chains!Next
<1> QED BY <1>1, <1>2

-------------------------------------------------------------------------------
(***************************************************************************)
(* Enrolled CSRs.                                                          *)
(***************************************************************************)
\* A stored certificate stays stored, for the CSR it was issued for.
LEMMA StoredStays ==
  TypeOK /\ IInv /\ [Next]_vars => \A e \in stored : e \in stored' /\ csr'[e] = csr[e]
<1> SUFFICES ASSUME TypeOK, IInv, [Next]_vars, NEW e \in stored
             PROVE  e \in stored' /\ csr'[e] = csr[e]
  OBVIOUS
<1>0. e \in Calls /\ pc[e] # "new"
  BY DEF TypeOK, IInv, Phase
<1>1. CASE UNCHANGED vars
  BY <1>1 DEF vars, tables, locals
<1>2. CASE Next
  <2>1. PICK c \in Calls :
          \/ \E s \in Csrs, k \in Kinds : Begin(c, s, k)
          \/ \E s \in Csrs : DryRun(c, s)
          \/ Step(c)
          \/ Abort(c)
    BY <1>2 DEF Next
  <2>2. CASE c # e
    <3>1. Same(e)
      BY <1>0, <2>1, <2>2, OneCall
    <3> QED BY <3>1 DEF Same
  <2>3. CASE c = e
    <3>1. ~ \E s \in Csrs, k \in Kinds : Begin(c, s, k)
      BY <1>0, <2>3 DEF Begin, Transition
    <3>2. ~ \E s \in Csrs : DryRun(c, s)
      BY <1>0, <2>3 DEF DryRun, Answer, Transition
    <3>3. CASE Abort(c)
      BY <3>3 DEF Abort, tables, locals
    <3>4. CASE Step(c)
      BY <3>4 DEF Step, CheckDuplicate, InsertRequest, Sign, SignFailed, StoreCertificate,
             MarkIssued, ReadLineage, StorePackage, MarkPackaged, Respond, tables, locals
    <3> QED BY <2>1, <3>1, <3>2, <3>3, <3>4
  <2> QED BY <2>2, <2>3
<1> QED BY <1>1, <1>2

LEMMA EnrolledStep == TypeOK /\ IInv /\ [Next]_vars => EnrolledInv'
<1> SUFFICES ASSUME TypeOK, IInv, [Next]_vars, NEW d \in Calls, enrolled'[d]
             PROVE  /\ pc'[d] # "new"
                    /\ \E e \in stored' : csr'[e] = csr'[d]
                    /\ kind'[d] # "renewal" => pc'[d] \in {"check", "done"} /\ d \notin stored'
  BY DEF EnrolledInv
<1>s. \A e \in stored : e \in stored' /\ csr'[e] = csr[e]
  BY StoredStays
<1>1. CASE Same(d)
  BY <1>1, <1>s DEF Same, IInv, EnrolledInv
<1>2. CASE UNCHANGED vars
  BY <1>1, <1>2 DEF vars, tables, locals, Same
<1>3. CASE Next
  <2>1. PICK c \in Calls :
          \/ \E s \in Csrs, k \in Kinds : Begin(c, s, k)
          \/ \E s \in Csrs : DryRun(c, s)
          \/ Step(c)
          \/ Abort(c)
    BY <1>3 DEF Next
  <2>2. CASE c # d
    BY <1>1, <2>1, <2>2, OneCall
  <2>3. CASE c = d
    <3>1. ASSUME NEW s \in Csrs, NEW k \in Kinds, Begin(d, s, k)
          PROVE  /\ pc'[d] # "new"
                 /\ \E e \in stored' : csr'[e] = csr'[d]
                 /\ kind'[d] # "renewal" => pc'[d] \in {"check", "done"} /\ d \notin stored'
      <4>1. pc'[d] = "check" /\ csr'[d] = s /\ enrolled'[d] = (\E e \in stored : csr[e] = s)
            /\ stored' = stored
        BY <3>1 DEF Begin, Transition, TypeOK, tables
      <4>2. d \notin stored
        BY <3>1 DEF Begin, Transition, IInv, Phase
      <4> QED BY <4>1, <4>2, <1>s
    <3>2. ~ \E s \in Csrs : DryRun(d, s)
      BY DEF DryRun, Answer, Transition, IInv, EnrolledInv
    <3>3. CASE Abort(d)
      <4>1. enrolled[d] /\ kind'[d] = kind[d] /\ stored' = stored /\ csr' = csr /\ pc'[d] = "done"
        BY <3>3 DEF Abort, Answer, Transition, TypeOK, tables, locals
      <4> QED BY <4>1 DEF IInv, EnrolledInv
    <3>4. CASE Step(d)
      <4>1. enrolled[d] /\ kind'[d] = kind[d] /\ csr' = csr
        BY <3>4 DEF Step, CheckDuplicate, InsertRequest, Sign, SignFailed, StoreCertificate,
               MarkIssued, ReadLineage, StorePackage, MarkPackaged, Respond, tables, locals
      <4>2. PICK e \in stored : csr[e] = csr[d]
        BY <4>1 DEF IInv, EnrolledInv
      <4>3. e \in Calls /\ LiveRequest(csr[d])
        BY <4>2 DEF LiveRequest, TypeOK, IInv, RowInv
      <4>4. pc'[d] # "new"
        BY <3>4 DEF Step, CheckDuplicate, InsertRequest, Sign, SignFailed, StoreCertificate,
               MarkIssued, ReadLineage, StorePackage, MarkPackaged, Respond,
               Transition, Answer, TypeOK
      <4>5. ASSUME kind[d] # "renewal"
            PROVE  pc'[d] = "done" /\ d \notin stored'
        <5>1. pc[d] \in {"check", "done"} /\ d \notin stored
          BY <4>1, <4>5 DEF IInv, EnrolledInv
        <5>2. CheckDuplicate(d)
          BY <3>4, <5>1 DEF Step, InsertRequest, Sign, SignFailed, StoreCertificate,
                 MarkIssued, ReadLineage, StorePackage, MarkPackaged, Respond,
                 Transition, Answer
        <5> QED BY <4>3, <4>5, <5>1, <5>2 DEF CheckDuplicate, Answer, Transition, tables, TypeOK
      <4> QED BY <1>s, <4>1, <4>2, <4>4, <4>5
    <3> QED BY <2>1, <2>3, <3>1, <3>2, <3>3, <3>4
  <2> QED BY <2>2, <2>3
<1> QED BY <1>2, <1>3

-------------------------------------------------------------------------------
(***************************************************************************)
(* The theorems.                                                           *)
(***************************************************************************)
LEMMA InitInv == Init => TypeOK /\ IInv
<1> SUFFICES ASSUME Init PROVE TypeOK /\ IInv
  OBVIOUS
<1>1. TypeOK
  BY DEF Init, TypeOK, Steps, Live, Abandoned
<1>2. \A c \in Calls : Phase(c) /\ RowInv(c)
  BY DEF Init, Phase, RowInv
<1>3. ReadInv /\ LineageIsAChain /\ EnrolledInv
  BY DEF Init, ReadInv, LineageIsAChain, EnrolledInv
<1> QED BY <1>1, <1>2, <1>3 DEF IInv

\* The inductive invariant: what every step of a call finds in the database
\* when it runs, and that the generation it has read still follows the chain.
THEOREM Invariance == Spec => [](TypeOK /\ IInv)
<1>1. TypeOK /\ IInv /\ [Next]_vars => (TypeOK /\ IInv)'
  <2> SUFFICES ASSUME TypeOK, IInv, [Next]_vars PROVE (TypeOK /\ IInv)'
    OBVIOUS
  <2>1. TypeOK'
    BY TypeStep
  <2>2. \A d \in Calls : Phase(d)' /\ RowInv(d)'
    BY PhaseStep
  <2>3. ReadInv' /\ LineageIsAChain' /\ EnrolledInv'
    BY ReadStep, LineageStep, EnrolledStep
  <2> QED BY <2>1, <2>2, <2>3 DEF IInv
<1> QED BY InitInv, <1>1, PTL DEF Spec

\* The variables keep their types.
THEOREM TypeCorrect == Spec => []TypeOK
BY Invariance, PTL

\* However calls overlap and wherever they are cut short, the packages of a
\* line are a chain of consecutive generations, each superseding the one before.
THEOREM Chain == Spec => []LineageIsAChain
<1>1. IInv => LineageIsAChain
  BY DEF IInv
<1> QED BY <1>1, Invariance, PTL

\* A request that gave its CSR up has no certificate.
THEOREM NoStrayCertificate == Spec => []AbandonedHasNoCertificate
<1>1. IInv => AbandonedHasNoCertificate
  BY DEF IInv, RowInv, AbandonedHasNoCertificate, Live, Abandoned
<1> QED BY <1>1, Invariance, PTL

\* A status is never ahead of the rows it speaks of.
THEOREM Backed == Spec => []StatusIsBacked
<1>1. IInv => StatusIsBacked
  BY DEF IInv, RowInv, StatusIsBacked
<1> QED BY <1>1, Invariance, PTL

\* A CSR that already had its certificate when an enrollment began gets no other
\* from that enrollment.
THEOREM Refused == Spec => []EnrolledCsrIsRefused
<1>1. IInv => EnrolledCsrIsRefused
  BY DEF IInv, EnrolledInv, EnrolledCsrIsRefused
<1> QED BY <1>1, Invariance, PTL

\* ImplementsLineage: the packages of every line are a chain that only grows at
\* its end, although a lineage is read in one transaction and stored in another.
THEOREM Implements == Spec => ImplementsLineage
<1>1. Init => Numbered /\ Chains!Init
  <2> SUFFICES ASSUME Init PROVE Numbered /\ Chains!Init
    OBVIOUS
  <2>1. \A l : PackagesOf(l) = {}
    BY DEF Init, PackagesOf
  <2>2. IsFiniteSet({}) /\ Cardinality({}) = 0
    BY FS_EmptySet
  <2>3. Numbered
    BY <2>1, <2>2 DEF Numbered
  <2>4. \A l \in Lines : Lineage[l] = << >>
    BY <2>1, <2>2, <2>3, InOrder, EmptySeq DEF AllOrdered, Ordered
  <2>5. Chains!Init
    BY <2>4 DEF Lineage, Chains!Init
  <2> QED BY <2>3, <2>5
<1> QED
  BY <1>1, InOrder, NumberedStep, ChainStep, Invariance, PTL
     DEF Spec, ImplementsLineage, Chains!Spec
===============================================================================
