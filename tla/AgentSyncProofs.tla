--------------------------- MODULE AgentSyncProofs ---------------------------
(***************************************************************************)
(* Proofs about AgentSync, for any number of targets, processes, lists and *)
(* revocations.                                                            *)
(***************************************************************************)
EXTENDS AgentSync, TLAPS

(***************************************************************************)
(* The inductive invariant: what the record r of a process may rely on in  *)
(* each step of its turn.  It relies on the cache only until it is         *)
(* overtaken, and on crl.der only if no processes overlapped.              *)
(***************************************************************************)
T(r) == Order[r.place]

\* The mode of the cycle decides its steps, and what its document is.
Moded(r) ==
  /\ r.at \in {"fetch", "signature", "pki"} => required
  /\ r.at \in {"unsigned_crl", "unsigned_pki", "unsigned_fetch"} => ~ required
  /\ r.at \in {"signature", "pki"} => r.document.signed
  /\ r.at \in {"report", "list"} => r.document.signed = required
  /\ r.at = "pki" => ~ r.written
  /\ r.written => required
  /\ r.at \in {"report", "list"} /\ required => r.written

Preparing == {"idle", "load", "unsigned_crl", "unsigned_pki"}

\* What was read from the cache is there still.
Current(r) == ~ r.stale /\ r.at \notin Preparing => r.before = cached[T(r)]

\* The artifact in hand: GDS has gone no further back than that, and it has
\* gone no further back than what is cached.
Fetched(r) ==
  r.at \in {"signature", "pki", "report", "list"} /\ required =>
    /\ r.document.crl \subseteq published[T(r)].crl
    /\ ~ r.stale /\ cached[T(r)].signed => cached[T(r)].crl \subseteq r.document.crl

Checked(r) == r.at \in {"pki", "report", "list"} /\ required => ~ Replayed(r)

Announced(r) == ~ r.stale /\ r.at = "list" => r.document \in reported[T(r)]

\* The CRL came with the artifact of this turn or of an earlier one.
Sourced(r) ==
  ~ spoiled /\ r.written =>
    \E k \in 1 .. r.place :
      /\ crl.source = Order[k]
      /\ k = r.place => r.at \in {"report", "list"} /\ crl.serials = r.document.crl

Sane(r) ==
  Moded(r) /\ Current(r) /\ Fetched(r) /\ Checked(r) /\ Announced(r) /\ Sourced(r)

CachedWasPublished ==
  \A t \in Targets : cached[t].signed => cached[t].crl \subseteq published[t].crl

IInv ==
  /\ TypeOK
  /\ CachedWasPublished
  /\ CrlNotBehindItsList
  /\ \A p \in Procs : Sane(cycle[p])

(***************************************************************************)
(* Facts about the definitions.                                            *)
(***************************************************************************)
LEMMA IdleIsCycle == Nothing \in Document /\ Idle \in Cycle
BY DEF Nothing, Document, Idle, Cycle, Steps

\* Every target has its own place in the configured order.
LEMMA PlacesDiffer ==
  /\ Len(Order) \in Nat /\ Len(Order) >= 1
  /\ DOMAIN Order = 1 .. Len(Order)
  /\ \A i \in DOMAIN Order : Order[i] \in Targets
  /\ \A i, j \in DOMAIN Order : Order[i] = Order[j] => i = j
BY AgentAssumption

\* A turn ends in the next turn or in none.
LEMMA TurnEnds ==
  ASSUME NEW r \in Cycle, r.place \in DOMAIN Order
  PROVE  /\ Turn(r) \in Cycle /\ Turn(r).place \in DOMAIN Order
         /\ Turn(r).at \in {"idle", "load"}
         /\ Turn(r).stale = FALSE
         /\ \/ Turn(r) = Idle
            \/ Turn(r).place = r.place + 1 /\ Turn(r).written = r.written
<1> DEFINE s == [Idle EXCEPT !.at = "load", !.place = r.place + 1, !.written = r.written]
<1>1. r.place \in Nat /\ r.written \in BOOLEAN
  BY DEF Cycle
<1>2. /\ s \in Cycle /\ s.place = r.place + 1 /\ s.at = "load"
      /\ s.stale = FALSE /\ s.written = r.written
  <2>1. ASSUME NEW n \in Nat, NEW w \in BOOLEAN
        PROVE  LET u == [Idle EXCEPT !.at = "load", !.place = n, !.written = w]
               IN  u \in Cycle /\ u.place = n /\ u.at = "load" /\ u.written = w /\ u.stale = Idle.stale
    BY IdleIsCycle DEF Cycle, Steps
  <2>2. r.place + 1 \in Nat /\ Idle.stale = FALSE
    BY <1>1 DEF Idle
  <2> QED
    BY <1>1, <2>1, <2>2
<1>3. Idle.place = 1 /\ Idle.at = "idle" /\ Idle.stale = FALSE
  BY DEF Idle
<1>4. CASE r.place < Len(Order)
  <2>1. Turn(r) = s
    BY <1>4 DEF Turn
  <2>2. r.place + 1 \in DOMAIN Order
    BY <1>1, <1>4, PlacesDiffer
  <2> QED
    BY <1>2, <2>1, <2>2
<1>5. CASE ~ (r.place < Len(Order))
  <2>1. Turn(r) = Idle
    BY <1>5 DEF Turn
  <2> QED
    BY <1>3, <2>1, PlacesDiffer, IdleIsCycle
<1> QED
  BY <1>4, <1>5

\* What a step does to the record of the process that takes it, and what to
\* the others'.
LEMMA GoesAlone ==
  ASSUME NEW p \in Procs, NEW r, TypeOK, Goes(p, r)
  PROVE  cycle'[p] = r /\ \A q \in Procs \ {p} : cycle'[q] = cycle[q]
BY DEF Goes, TypeOK

LEMMA WritesOvertake ==
  ASSUME NEW p \in Procs, NEW r, TypeOK, Writes(p, r)
  PROVE  /\ cycle'[p] = r
         /\ \A q \in Procs \ {p} :
              \/ cycle[q] = Idle /\ cycle'[q] = Idle
              \/ /\ cycle'[q] = [cycle[q] EXCEPT !.stale = TRUE]
                 /\ cycle[q] # Idle
BY DEF Writes, TypeOK

LEMMA GoesType ==
  ASSUME NEW p \in Procs, NEW r \in Cycle, r.place \in DOMAIN Order, TypeOK, Goes(p, r)
  PROVE  cycle' \in [Procs -> Cycle] /\ \A q \in Procs : cycle'[q].place \in DOMAIN Order
BY DEF Goes, TypeOK

LEMMA WritesType ==
  ASSUME NEW p \in Procs, NEW r \in Cycle, r.place \in DOMAIN Order, TypeOK, Writes(p, r)
  PROVE  cycle' \in [Procs -> Cycle] /\ \A q \in Procs : cycle'[q].place \in DOMAIN Order
<1>1. ASSUME NEW q \in Procs PROVE [cycle[q] EXCEPT !.stale = TRUE] \in Cycle
                                   /\ [cycle[q] EXCEPT !.stale = TRUE].place = cycle[q].place
  BY DEF TypeOK, Cycle
<1>2. DOMAIN cycle' = Procs /\ cycle' = [q \in Procs |-> cycle'[q]]
  BY DEF Writes
<1>3. \A q \in Procs : cycle'[q] \in Cycle /\ cycle'[q].place \in DOMAIN Order
  <2>1. Idle.place \in DOMAIN Order
    BY PlacesDiffer DEF Idle
  <2>2. SUFFICES ASSUME NEW q \in Procs
                 PROVE  cycle'[q] \in Cycle /\ cycle'[q].place \in DOMAIN Order
    OBVIOUS
  <2>3. cycle[q].place \in DOMAIN Order
    BY DEF TypeOK
  <2>4. CASE q = p
    BY <2>4, WritesOvertake
  <2>5. CASE q # p
    <3>1. \/ cycle'[q] = Idle
          \/ cycle'[q] = [cycle[q] EXCEPT !.stale = TRUE]
      BY <2>5, WritesOvertake
    <3> QED
      BY <1>1, <2>1, <2>3, <3>1, IdleIsCycle
  <2> QED
    BY <2>4, <2>5
<1> QED
  BY <1>2, <1>3

(***************************************************************************)
(* Type correctness.                                                       *)
(***************************************************************************)
LEMMA TypeInit == Init => TypeOK
<1> SUFFICES ASSUME Init PROVE TypeOK
  OBVIOUS
<1>1. published \in [Targets -> [revision : Nat, signed : Nat, crl : SUBSET Certs]]
  BY DEF Init, Gds!Init
<1>2. \A t \in Targets : published[t].revision \in Nat
  BY <1>1
<1>3. cycle \in [Procs -> Cycle] /\ \A p \in Procs : cycle[p].place \in DOMAIN Order
  BY IdleIsCycle, PlacesDiffer DEF Init, Idle
<1> QED
  BY <1>1, <1>2, <1>3, IdleIsCycle, AgentAssumption DEF Init, Gds!Init, TypeOK

\* GDS, and the operator.
LEMMA TypeGds ==
  ASSUME TypeOK,
         \/ \E c \in Certs : Revoke(c)
         \/ \E t \in Targets :
              \/ BuildList(t)
              \/ \E serials \in SUBSET Certs, v \in 1 .. latest[t] : Publish(t, serials, v)
         \/ Reconfigure
  PROVE  TypeOK'
<1>1. ASSUME NEW c \in Certs, Revoke(c) PROVE TypeOK'
  BY <1>1 DEF TypeOK, Revoke, Gds!Revoke, files
<1>2. ASSUME NEW t \in Targets, BuildList(t) PROVE TypeOK'
  BY <1>2 DEF TypeOK, BuildList, files
<1>3. ASSUME NEW t \in Targets, NEW serials \in SUBSET Certs, NEW v \in 1 .. latest[t],
             Publish(t, serials, v)
      PROVE  TypeOK'
  <2>1. published' \in [Targets -> [revision : Nat, signed : Nat, crl : SUBSET Certs]]
    BY <1>3 DEF TypeOK, Publish, Gds!Publish
  <2>2. v \in Nat /\ version' \in [Targets -> Nat]
    BY <1>3 DEF TypeOK, Publish
  <2> QED
    BY <1>3, <2>1, <2>2 DEF TypeOK, Publish, Gds!Publish, files
<1>4. ASSUME Reconfigure PROVE TypeOK'
  BY <1>4, IdleIsCycle, PlacesDiffer
     DEF TypeOK, Reconfigure, Fault, gds, files, Idle
<1> QED
  BY <1>1, <1>2, <1>3, <1>4

\* The steps of a cycle that write no file.
LEMMA TypeGoes ==
  ASSUME TypeOK, NEW p \in Procs,
         \/ Begin(p) \/ LoadPrevious(p) \/ FetchArtifact(p) \/ FetchSignature(p)
         \/ Reject(p) \/ FetchCrl(p) \/ FetchList(p) \/ TargetFails(p) \/ CycleFails(p)
  PROVE  TypeOK'
<1> DEFINE r == cycle[p]
<1>1. r \in Cycle /\ r.place \in DOMAIN Order /\ Target(p) \in Targets
  BY PlacesDiffer DEF TypeOK, Target
<1>2. /\ Turn(r) \in Cycle /\ Turn(r).place \in DOMAIN Order
      /\ Idle \in Cycle /\ Idle.place \in DOMAIN Order
  <2>1. Idle.place \in DOMAIN Order
    BY PlacesDiffer DEF Idle
  <2> QED
    BY <1>1, <2>1, TurnEnds, IdleIsCycle
<1>3. ASSUME NEW s \in Cycle, s.place \in DOMAIN Order, Goes(p, s),
             faults' \in Nat, UNCHANGED <<gds, required, files>>
      PROVE  TypeOK'
  <2>1. cycle' \in [Procs -> Cycle] /\ \A q \in Procs : cycle'[q].place \in DOMAIN Order
    BY <1>3, GoesType
  <2> QED
    BY <1>3, <2>1 DEF TypeOK, gds, files
<1>4. ASSUME NEW a \in Steps, NEW b \in Document, NEW d \in Document, NEW stale \in BOOLEAN
      PROVE  LET s == [r EXCEPT !.at = a, !.before = b, !.document = d, !.stale = stale]
             IN  s \in Cycle /\ s.place \in DOMAIN Order
  BY <1>1 DEF Cycle
<1>5. faults \in Nat /\ (Fault => faults' \in Nat)
  BY DEF Fault, TypeOK
<1>6. r.before \in Document /\ r.document \in Document /\ r.stale \in BOOLEAN /\ r.at \in Steps
  BY <1>1 DEF Cycle
<1>7. CASE Begin(p)
  <2> DEFINE s == [Idle EXCEPT !.at = IF required THEN "load" ELSE "unsigned_crl"]
  <2>1. s \in Cycle /\ s.place \in DOMAIN Order
    BY <1>2 DEF Idle, Cycle, Steps
  <2> QED
    BY <1>3, <1>5, <1>7, <2>1 DEF Begin
<1>8. CASE LoadPrevious(p)
  <2> DEFINE s == [r EXCEPT !.before = cached[Target(p)],
                            !.at = IF required THEN "fetch" ELSE "unsigned_fetch",
                            !.stale = FALSE]
  <2>1. cached[Target(p)] \in Document
    BY <1>1 DEF TypeOK
  <2>2. s \in Cycle /\ s.place \in DOMAIN Order
    BY <1>1, <2>1 DEF Cycle, Steps
  <2> QED
    BY <1>3, <1>5, <1>8, <2>2 DEF LoadPrevious
<1>9. CASE FetchArtifact(p)
  <2> DEFINE t == Target(p)
             a == [signed |-> TRUE, version |-> version[t],
                   revision |-> published[t].revision, crl |-> published[t].crl]
  <2>1. a \in Document
    BY <1>1 DEF TypeOK, Document
  <2>2. /\ [r EXCEPT !.at = "reject"] \in Cycle
        /\ [r EXCEPT !.at = "reject"].place \in DOMAIN Order
        /\ [r EXCEPT !.at = "signature", !.document = a] \in Cycle
        /\ [r EXCEPT !.at = "signature", !.document = a].place \in DOMAIN Order
    BY <1>1, <2>1 DEF Cycle, Steps
  <2>3. \/ Goes(p, [r EXCEPT !.at = "reject"])
        \/ Goes(p, [r EXCEPT !.at = "signature", !.document = a])
    BY <1>9 DEF FetchArtifact
  <2> QED
    BY <1>3, <1>5, <1>9, <2>2, <2>3 DEF FetchArtifact
<1>10. CASE FetchSignature(p)
  <2>1. \E a \in {"reject", "report", "pki"} : Goes(p, [r EXCEPT !.at = a])
    BY <1>10 DEF FetchSignature
  <2>2. PICK a \in {"reject", "report", "pki"} : Goes(p, [r EXCEPT !.at = a])
    BY <2>1
  <2>3. [r EXCEPT !.at = a] \in Cycle /\ [r EXCEPT !.at = a].place \in DOMAIN Order
    BY <1>1 DEF Cycle, Steps
  <2> QED
    BY <1>3, <1>5, <1>10, <2>2, <2>3 DEF FetchSignature
<1>11. CASE Reject(p)
  BY <1>2, <1>3, <1>5, <1>11 DEF Reject
<1>12. CASE FetchCrl(p)
  <2> DEFINE s == [r EXCEPT !.at = "unsigned_pki", !.document.crl = revoked]
  <2>1. [r.document EXCEPT !.crl = revoked] \in Document
    BY <1>6 DEF TypeOK, Document
  <2>2. s \in Cycle /\ s.place \in DOMAIN Order
    BY <1>1, <2>1 DEF Cycle, Steps
  <2> QED
    BY <1>3, <1>5, <1>12, <2>2 DEF FetchCrl
<1>13. CASE FetchList(p)
  <2> DEFINE d == [Nothing EXCEPT !.version = latest[Target(p)]]
             s == [r EXCEPT !.at = "report", !.document = d]
  <2>1. d \in Document
    BY <1>1, IdleIsCycle DEF TypeOK, Document
  <2>2. s \in Cycle /\ s.place \in DOMAIN Order
    BY <1>1, <2>1 DEF Cycle, Steps
  <2>3. Goes(p, Turn(r)) \/ Goes(p, s)
    BY <1>13 DEF FetchList
  <2> QED
    BY <1>2, <1>3, <1>5, <1>13, <2>2, <2>3 DEF FetchList
<1>14. CASE TargetFails(p)
  <2>1. [r EXCEPT !.at = "reject"] \in Cycle /\ [r EXCEPT !.at = "reject"].place \in DOMAIN Order
    BY <1>1 DEF Cycle, Steps
  <2> QED
    BY <1>3, <1>5, <1>14, <2>1 DEF TargetFails
<1>15. CASE CycleFails(p)
  BY <1>2, <1>3, <1>5, <1>15 DEF CycleFails
<1> QED
  BY <1>7, <1>8, <1>9, <1>10, <1>11, <1>12, <1>13, <1>14, <1>15

\* The steps that write one.
LEMMA TypeWrites ==
  ASSUME TypeOK, NEW p \in Procs,
         WritePki(p) \/ Report(p) \/ WriteList(p) \/ WriteCrl(p)
  PROVE  TypeOK'
<1> DEFINE r == cycle[p]
<1>1. r \in Cycle /\ r.place \in DOMAIN Order /\ Target(p) \in Targets
  BY PlacesDiffer DEF TypeOK, Target
<1>2. /\ r.before \in Document /\ r.document \in Document /\ r.document.crl \in SUBSET Certs
      /\ r.stale \in BOOLEAN
  BY <1>1 DEF Cycle, Document
<1>3. Overlaps(p) \in BOOLEAN
  BY <1>2 DEF Overlaps
<1>4. CASE WritePki(p)
  <2> DEFINE s == [r EXCEPT !.at = "report", !.written = TRUE]
  <2>1. s \in Cycle /\ s.place \in DOMAIN Order
    BY <1>1 DEF Cycle, Steps
  <2>2. cycle' \in [Procs -> Cycle] /\ \A q \in Procs : cycle'[q].place \in DOMAIN Order
    BY <1>4, <2>1, WritesType DEF WritePki
  <2> QED
    BY <1>1, <1>2, <1>3, <1>4, <2>2 DEF WritePki, TypeOK, gds
<1>5. CASE Report(p)
  <2> DEFINE s == [r EXCEPT !.at = "list"]
  <2>1. s \in Cycle /\ s.place \in DOMAIN Order
    BY <1>1 DEF Cycle, Steps
  <2>2. cycle' \in [Procs -> Cycle] /\ \A q \in Procs : cycle'[q].place \in DOMAIN Order
    BY <1>5, <2>1, GoesType DEF Report
  <2>3. reported' \in [Targets -> SUBSET Document]
    BY <1>1, <1>2, <1>5 DEF Report, WithDifference, TypeOK
  <2> QED
    BY <1>5, <2>2, <2>3 DEF Report, TypeOK, gds
<1>6. CASE WriteList(p)
  <2>1. Turn(r) \in Cycle /\ Turn(r).place \in DOMAIN Order
    BY <1>1, TurnEnds
  <2>2. cycle' \in [Procs -> Cycle] /\ \A q \in Procs : cycle'[q].place \in DOMAIN Order
    BY <1>6, <2>1, WritesType DEF WriteList
  <2>3. cached' \in [Targets -> Document] /\ reported' \in [Targets -> SUBSET Document]
    BY <1>1, <1>2, <1>6 DEF WriteList, TypeOK
  <2>4. spoiled' \in BOOLEAN
    BY <1>3, <1>6 DEF WriteList, TypeOK
  <2> QED
    BY <1>6, <2>2, <2>3, <2>4 DEF WriteList, TypeOK, gds
<1>7. CASE WriteCrl(p)
  <2> DEFINE s == [Idle EXCEPT !.at = "load"]
  <2>1. s \in Cycle /\ s.place = Idle.place
    BY IdleIsCycle DEF Cycle, Steps
  <2>2. Idle.place \in DOMAIN Order
    BY PlacesDiffer DEF Idle
  <2>3. cycle' \in [Procs -> Cycle] /\ \A q \in Procs : cycle'[q].place \in DOMAIN Order
    BY <1>7, <2>1, <2>2, WritesType DEF WriteCrl
  <2> QED
    BY <1>2, <1>7, <2>3 DEF WriteCrl, TypeOK, gds
<1> QED
  BY <1>4, <1>5, <1>6, <1>7

LEMMA TypeStep == TypeOK /\ [Next]_vars => TypeOK'
<1> SUFFICES ASSUME TypeOK, [Next]_vars PROVE TypeOK'
  OBVIOUS
<1>1. CASE UNCHANGED vars
  BY <1>1 DEF TypeOK, vars, gds, files
<1>2. CASE Next
  <2>1. ASSUME NEW p \in Procs, Step(p) PROVE TypeOK'
    BY <2>1, TypeGoes, TypeWrites DEF Step, SignedTurn, UnsignedTurn
  <2> QED
    BY <1>2, <2>1, TypeGds, TypeGoes, AgentAssumption DEF Next, Loop, PullRevocation
<1> QED
  BY <1>1, <1>2

\* Every variable keeps its type.
THEOREM TypeCorrect == Spec => []TypeOK
BY TypeInit, TypeStep, PTL DEF Spec

(***************************************************************************)
(* The steps keep what a process relies on.                                *)
(***************************************************************************)
SaneAll == \A q \in Procs : Sane(cycle[q])

LEMMA IdleIsSane ==
  /\ Sane(Idle)
  /\ Sane([Idle EXCEPT !.at = "load"])
  /\ ~ required => Sane([Idle EXCEPT !.at = "unsigned_crl"])
BY DEF Sane, Moded, Current, Fetched, Checked, Announced, Sourced, Preparing, Idle

\* The next turn relies on nothing but the CRL.
LEMMA TurnIsSane ==
  ASSUME NEW r \in Cycle, r.place \in DOMAIN Order, Moded(r), Sourced(r)
  PROVE  Sane(Turn(r))
<1>1. CASE Turn(r) = Idle
  BY <1>1, IdleIsSane
<1>2. CASE Turn(r) # Idle
  <2> DEFINE s == Turn(r)
  <2>1. s.place = r.place + 1 /\ s.written = r.written /\ s.at \in {"idle", "load"}
    BY <1>2, TurnEnds
  <2>2. Moded(s)
    BY <2>1 DEF Moded
  <2>3. Current(s) /\ Fetched(s) /\ Checked(s) /\ Announced(s)
    BY <2>1 DEF Current, Fetched, Checked, Announced, Preparing
  <2>4. Sourced(s)
    <3>1. SUFFICES ASSUME ~ spoiled, s.written
                   PROVE  \E k \in 1 .. s.place :
                            /\ crl.source = Order[k]
                            /\ k = s.place => s.at \in {"report", "list"} /\ crl.serials = s.document.crl
      BY DEF Sourced
    <3>2. PICK k \in 1 .. r.place : crl.source = Order[k]
      BY <2>1, <3>1 DEF Sourced
    <3>3. k \in 1 .. s.place /\ k # s.place
      BY <2>1, <3>2 DEF Cycle
    <3> QED
      BY <3>2, <3>3
  <2> QED
    BY <2>2, <2>3, <2>4 DEF Sane
<1> QED
  BY <1>1, <1>2

\* A process alone goes on, to a record that is sane.
LEMMA GoesKeeps ==
  ASSUME IInv, TypeOK', NEW p \in Procs, NEW s, Goes(p, s), Sane(s),
         UNCHANGED <<gds, required, files>>
  PROVE  IInv'
<1>1. cycle'[p] = s /\ \A q \in Procs \ {p} : cycle'[q] = cycle[q]
  BY GoesAlone DEF IInv
<1>2. \A q \in Procs : Sane(cycle'[q])
  BY <1>1 DEF IInv
<1>3. UNCHANGED <<published, required, cached, crl, reported, spoiled>>
  BY DEF gds, files
<1>4. \A q \in Procs : Sane(cycle[q])'
  <2>1. SUFFICES ASSUME NEW q \in Procs PROVE Sane(cycle[q])'
    OBVIOUS
  <2>2. Sane(cycle'[q])
    BY <1>2
  <2> QED
    BY <1>3, <2>2 DEF Sane, Moded, Current, Fetched, Checked, Announced, Sourced, T, Replayed
<1> QED
  BY <1>3, <1>4 DEF IInv, CachedWasPublished, CrlNotBehindItsList

LEMMA GoesStep ==
  ASSUME IInv, TypeOK', NEW p \in Procs,
         \/ Begin(p) \/ LoadPrevious(p) \/ FetchArtifact(p) \/ FetchSignature(p)
         \/ Reject(p) \/ FetchCrl(p) \/ FetchList(p) \/ TargetFails(p) \/ CycleFails(p)
  PROVE  IInv'
<1> DEFINE r == cycle[p]
<1>1. r \in Cycle /\ r.place \in DOMAIN Order /\ T(r) \in Targets /\ T(r) = Target(p)
  BY PlacesDiffer DEF TypeOK, Target, T, IInv
<1>2. Sane(r)
  BY DEF IInv
<1>3. CASE Begin(p)
  BY <1>3, IdleIsSane, GoesKeeps DEF Begin
<1>4. CASE LoadPrevious(p)
  <2> DEFINE s == [r EXCEPT !.before = cached[Target(p)],
                            !.at = IF required THEN "fetch" ELSE "unsigned_fetch",
                            !.stale = FALSE]
  <2>1. /\ s.before = cached[T(s)] /\ s.place = r.place /\ s.written = r.written
        /\ s.at = IF required THEN "fetch" ELSE "unsigned_fetch"
    BY <1>1 DEF Cycle, T
  <2>2. Moded(s) /\ Current(s) /\ Fetched(s) /\ Checked(s) /\ Announced(s)
    BY <1>2, <2>1 DEF Sane, Moded, Current, Fetched, Checked, Announced
  <2>3. Sourced(s)
    BY <1>2, <1>4, <2>1 DEF Sane, Sourced, LoadPrevious
  <2> QED
    BY <1>4, <2>2, <2>3, GoesKeeps DEF LoadPrevious, Sane
\* A target given up before its CRL is written.
<1>5. ASSUME r.at \in {"fetch", "signature", "pki", "unsigned_fetch"}
      PROVE  Sane([r EXCEPT !.at = "reject"])
  <2> DEFINE s == [r EXCEPT !.at = "reject"]
  <2>1. /\ s.at = "reject" /\ s.before = r.before /\ s.place = r.place
        /\ s.written = r.written /\ s.stale = r.stale
    BY <1>1 DEF Cycle
  <2>2. Moded(s) /\ Current(s) /\ Fetched(s) /\ Checked(s) /\ Announced(s)
    BY <1>2, <1>5, <2>1 DEF Sane, Moded, Current, Fetched, Checked, Announced, T, Preparing
  <2>3. Sourced(s)
    BY <1>2, <1>5, <2>1 DEF Sane, Sourced
  <2> QED
    BY <2>2, <2>3 DEF Sane
<1>6. CASE FetchArtifact(p)
  <2> DEFINE t == Target(p)
             a == [signed |-> TRUE, version |-> version[t],
                   revision |-> published[t].revision, crl |-> published[t].crl]
             s == [r EXCEPT !.at = "signature", !.document = a]
  <2>1. /\ s.at = "signature" /\ s.document.signed = TRUE /\ s.document.crl = published[T(s)].crl
        /\ s.before = r.before /\ s.place = r.place /\ s.written = r.written /\ s.stale = r.stale
        /\ T(s) = T(r)
    BY <1>1 DEF Cycle, T
  <2>2. r.at = "fetch"
    BY <1>6 DEF FetchArtifact
  <2>3. Fetched(s)
    BY <1>1, <2>1 DEF Fetched, IInv, CachedWasPublished
  <2>4. Moded(s) /\ Current(s) /\ Checked(s) /\ Announced(s)
    BY <1>2, <2>1, <2>2 DEF Sane, Moded, Current, Checked, Announced, Preparing
  <2>5. Sourced(s)
    BY <1>2, <2>1, <2>2 DEF Sane, Sourced
  <2>6. Sane(s) /\ Sane([r EXCEPT !.at = "reject"])
    BY <1>5, <2>2, <2>3, <2>4, <2>5 DEF Sane
  <2>7. Goes(p, s) \/ Goes(p, [r EXCEPT !.at = "reject"])
    BY <1>6 DEF FetchArtifact
  <2> QED
    BY <1>6, <2>6, <2>7, GoesKeeps DEF FetchArtifact
<1>7. CASE FetchSignature(p)
  <2>1. r.at = "signature"
    BY <1>7 DEF FetchSignature
  <2>2. ASSUME NEW a \in {"pki", "report"}, ~ Replayed(r), r.written <=> a = "report"
        PROVE  Sane([r EXCEPT !.at = a])
    <3> DEFINE s == [r EXCEPT !.at = a]
    <3>1. /\ s.at = a /\ s.before = r.before /\ s.place = r.place /\ s.document = r.document
          /\ s.written = r.written /\ s.stale = r.stale /\ T(s) = T(r)
      BY <1>1 DEF Cycle, T
    <3>2. Moded(s) /\ Current(s) /\ Announced(s)
      BY <1>2, <2>1, <2>2, <3>1 DEF Sane, Moded, Current, Announced, Preparing
    <3>3. Fetched(s) /\ Checked(s)
      BY <1>2, <2>1, <2>2, <3>1 DEF Sane, Fetched, Checked, Replayed
    <3>4. Sourced(s)
      BY <1>2, <2>1, <3>1 DEF Sane, Sourced
    <3> QED
      BY <3>2, <3>3, <3>4 DEF Sane
  <2>3. \/ Goes(p, [r EXCEPT !.at = "reject"])
        \/ ~ Replayed(r) /\ r.written /\ Goes(p, [r EXCEPT !.at = "report"])
        \/ ~ Replayed(r) /\ ~ r.written /\ Goes(p, [r EXCEPT !.at = "pki"])
    <3> DEFINE ok == Accepts(r, published[Target(p)].signed)
    <3>1. ok => ~ Replayed(r)
      BY DEF Accepts
    <3>2. r.written \in BOOLEAN
      BY <1>1 DEF Cycle
    <3>3. Goes(p, [r EXCEPT !.at = IF ok THEN IF r.written THEN "report" ELSE "pki" ELSE "reject"])
      BY <1>7 DEF FetchSignature
    <3>4. CASE ~ ok
      BY <3>3, <3>4
    <3> HIDE DEF ok
    <3>5. CASE ok /\ r.written
      BY <3>1, <3>3, <3>5
    <3>6. CASE ok /\ ~ r.written
      BY <3>1, <3>3, <3>6
    <3> QED
      BY <3>2, <3>4, <3>5, <3>6
  <2>4. \E s : Sane(s) /\ Goes(p, s)
    BY <1>5, <2>1, <2>2, <2>3
  <2> QED
    BY <1>7, <2>4, GoesKeeps DEF FetchSignature
<1>8. CASE Reject(p)
  BY <1>1, <1>2, <1>8, TurnIsSane, GoesKeeps DEF Reject, Sane
<1>9. CASE FetchCrl(p)
  <2> DEFINE s == [r EXCEPT !.at = "unsigned_pki", !.document.crl = revoked]
  <2>1. s.at = "unsigned_pki" /\ s.written = r.written
    BY <1>1 DEF Cycle
  <2>2. ~ required /\ ~ r.written
    BY <1>2, <1>9 DEF Sane, Moded, FetchCrl
  <2>3. Sane(s)
    BY <2>1, <2>2 DEF Sane, Moded, Current, Fetched, Checked, Announced, Sourced, Preparing
  <2> QED
    BY <1>9, <2>3, GoesKeeps DEF FetchCrl
<1>10. CASE FetchList(p)
  <2> DEFINE d == [Nothing EXCEPT !.version = latest[Target(p)]]
             s == [r EXCEPT !.at = "report", !.document = d]
  <2>1. d.signed = FALSE
    BY DEF Nothing
  <2>2. /\ s.at = "report" /\ s.before = r.before /\ s.place = r.place /\ s.document = d
        /\ s.written = r.written /\ s.stale = r.stale /\ T(s) = T(r)
    BY <1>1 DEF Cycle, T
  <2>3. ~ required /\ ~ r.written /\ r.at = "unsigned_fetch"
    BY <1>2, <1>10 DEF Sane, Moded, FetchList
  <2>4. Sane(s)
    <3>1. Moded(s)
      <4>1. required \in BOOLEAN
        BY DEF IInv, TypeOK
      <4> QED
        BY <2>1, <2>2, <2>3, <4>1 DEF Moded
    <3>3. Fetched(s) /\ Checked(s) /\ Sourced(s)
      BY <2>2, <2>3 DEF Fetched, Checked, Sourced
    <3>2. Current(s) /\ Announced(s)
      BY <1>2, <2>2, <2>3 DEF Sane, Current, Announced, Preparing
    <3> QED
      BY <3>1, <3>2, <3>3 DEF Sane
  <2>5. Sane(Turn(r))
    BY <1>1, <1>2, TurnIsSane DEF Sane
  <2>6. Goes(p, Turn(r)) \/ Goes(p, s)
    BY <1>10 DEF FetchList
  <2> QED
    BY <1>10, <2>4, <2>5, <2>6, GoesKeeps DEF FetchList
<1>11. CASE TargetFails(p)
  BY <1>5, <1>11, GoesKeeps DEF TargetFails
<1>12. CASE CycleFails(p)
  BY <1>12, IdleIsSane, GoesKeeps DEF CycleFails
<1> QED
  BY <1>3, <1>4, <1>6, <1>7, <1>8, <1>9, <1>10, <1>11, <1>12

\* The report: the document is among those reported for what was cached.
LEMMA ReportStep ==
  ASSUME IInv, TypeOK', NEW p \in Procs, Report(p)
  PROVE  IInv'
<1> DEFINE r == cycle[p]
           s == [r EXCEPT !.at = "list"]
<1>1. r \in Cycle /\ T(r) \in Targets /\ T(r) = Target(p)
  BY PlacesDiffer DEF TypeOK, Target, T, IInv
<1>2. /\ cycle'[p] = s /\ \A q \in Procs \ {p} : cycle'[q] = cycle[q]
      /\ r.at = "report"
      /\ UNCHANGED <<published, required, cached, crl, spoiled>>
  BY GoesAlone DEF Report, IInv, gds
<1>3. \A t \in Targets : reported[t] \subseteq reported'[t]
  BY <1>1 DEF Report, WithDifference, IInv, TypeOK
<1>4. ASSUME NEW q \in Procs \ {p} PROVE Sane(cycle[q])'
  <2>1. Sane(cycle[q]) /\ T(cycle[q]) \in Targets /\ cycle'[q] = cycle[q]
    BY <1>2, PlacesDiffer DEF IInv, TypeOK, T
  <2>2. Announced(cycle[q])'
    BY <1>3, <2>1 DEF Announced, Sane, T
  <2> QED
    BY <1>2, <2>1, <2>2 DEF Sane, Moded, Current, Fetched, Checked, Sourced, T, Replayed
<1>5. Sane(cycle[p])'
  <2>1. Sane(r)
    BY DEF IInv
  <2>2. /\ s.at = "list" /\ s.before = r.before /\ s.place = r.place /\ s.document = r.document
        /\ s.written = r.written /\ s.stale = r.stale /\ T(s) = T(r)
    BY <1>1 DEF Cycle, T
  <2>3. ~ r.stale => r.document \in reported'[T(r)]
    <3>1. SUFFICES ASSUME ~ r.stale PROVE r.document \in reported'[T(r)]
      OBVIOUS
    <3>2. r.before = cached[T(r)]
      BY <1>2, <2>1, <3>1 DEF Sane, Current, Preparing
    <3>3. reported' = [reported EXCEPT ![T(r)] = @ \cup {r.document}]
      BY <1>1, <3>2 DEF Report, WithDifference
    <3> QED
      BY <1>1, <3>3 DEF IInv, TypeOK
  <2>4. Announced(cycle[p])'
    BY <1>2, <2>2, <2>3 DEF Announced, T
  <2>5. Moded(cycle[p])' /\ Current(cycle[p])'
    BY <1>2, <2>1, <2>2 DEF Sane, Moded, Current, Preparing, T
  <2>6. Fetched(cycle[p])' /\ Checked(cycle[p])'
    BY <1>2, <2>1, <2>2 DEF Sane, Fetched, Checked, Replayed, T
  <2>7. Sourced(cycle[p])'
    BY <1>2, <2>1, <2>2 DEF Sane, Sourced
  <2> QED
    BY <2>4, <2>5, <2>6, <2>7 DEF Sane
<1>6. SaneAll'
  BY <1>4, <1>5 DEF SaneAll
<1> QED
  BY <1>2, <1>6 DEF IInv, CachedWasPublished, CrlNotBehindItsList, SaneAll

\* The CRL: it is the one of the artifact, and GDS has only added to what is
\* cached.
LEMMA WritePkiStep ==
  ASSUME IInv, TypeOK', NEW p \in Procs, WritePki(p)
  PROVE  IInv'
<1> DEFINE r == cycle[p]
           s == [r EXCEPT !.at = "report", !.written = TRUE]
<1>1. r \in Cycle /\ T(r) \in Targets /\ T(r) = Target(p) /\ r.place \in Nat /\ r.place >= 1
  BY SMTT(30), PlacesDiffer DEF TypeOK, Target, T, IInv
<1>2. /\ cycle'[p] = s
      /\ \A q \in Procs \ {p} :
           \/ cycle[q] = Idle /\ cycle'[q] = Idle
           \/ cycle'[q] = [cycle[q] EXCEPT !.stale = TRUE] /\ cycle[q] # Idle
      /\ r.at = "pki"
      /\ UNCHANGED <<published, required, cached, reported>>
      /\ crl' = [serials |-> r.document.crl, source |-> T(r)]
      /\ spoiled' = Overlaps(p)
  BY <1>1, WritesOvertake DEF WritePki, IInv, gds
<1>3. Sane(r)
  BY DEF IInv
<1>4. CrlNotBehindItsList'
  <2>1. SUFFICES ASSUME NEW t \in Targets, crl'.source = t, cached[t].signed, ~ spoiled'
                 PROVE  cached[t].crl \subseteq crl'.serials
    BY <1>2 DEF CrlNotBehindItsList
  <2>2. t = T(r) /\ crl'.serials = r.document.crl /\ ~ r.stale
    BY <1>2, <2>1 DEF Overlaps
  <2>3. required
    BY <1>2, <1>3 DEF Sane, Moded
  <2> QED
    BY <1>2, <1>3, <2>1, <2>2, <2>3 DEF Sane, Fetched
<1>5. ASSUME NEW q \in Procs \ {p}, cycle[q] # Idle PROVE Sane(cycle[q])'
  <2> DEFINE u == cycle[q]
  <2>1. u \in Cycle /\ Sane(u)
    BY DEF IInv, TypeOK
  <2>2. /\ u' = [u EXCEPT !.stale = TRUE] /\ u'.stale = TRUE /\ u'.at = u.at /\ u'.place = u.place
        /\ u'.before = u.before /\ u'.document = u.document /\ u'.written = u.written
    BY <1>2, <1>5, <2>1 DEF Cycle
  <2>3. Moded(u)' /\ Current(u)' /\ Announced(u)'
    BY <1>2, <2>1, <2>2 DEF Sane, Moded, Current, Announced
  <2>4. Fetched(u)' /\ Checked(u)'
    BY <1>2, <2>1, <2>2 DEF Sane, Fetched, Checked, Replayed, T
  <2>5. Sourced(u)'
    BY <1>2, <1>5 DEF Sourced, Overlaps
  <2> QED
    BY <2>3, <2>4, <2>5 DEF Sane
<1>6. ASSUME NEW q \in Procs \ {p}, cycle[q] = Idle PROVE Sane(cycle[q])'
  <2>1. cycle'[q] = Idle
    BY <1>2, <1>6 DEF Idle
  <2> QED
    BY <2>1 DEF Sane, Moded, Current, Fetched, Checked, Announced, Sourced, Preparing, Idle
<1>7. Sane(cycle[p])'
  <2>2. /\ s.at = "report" /\ s.before = r.before /\ s.place = r.place /\ s.document = r.document
        /\ s.written = TRUE /\ s.stale = r.stale /\ T(s) = T(r)
    BY <1>1 DEF Cycle, T
  <2>3. Moded(cycle[p])' /\ Current(cycle[p])' /\ Announced(cycle[p])'
    <3>1. required \in BOOLEAN /\ r.document.signed \in BOOLEAN
      BY <1>1 DEF IInv, TypeOK, Cycle, Document
    <3> QED
      BY ZenonT(60), <1>2, <1>3, <2>2, <3>1 DEF Sane, Moded, Current, Announced, Preparing, T
  <2>4. Fetched(cycle[p])' /\ Checked(cycle[p])'
    BY <1>2, <1>3, <2>2 DEF Sane, Fetched, Checked, Replayed, T
  <2>5. Sourced(cycle[p])'
    <3>1. /\ r.place \in 1 .. r.place /\ crl'.source = Order[r.place]
          /\ crl'.serials = r.document.crl
      BY <1>1, <1>2 DEF T
    <3> QED
      BY <1>2, <2>2, <3>1 DEF Sourced
  <2> QED
    BY <2>3, <2>4, <2>5 DEF Sane
<1> QED
  BY <1>2, <1>4, <1>5, <1>6, <1>7 DEF IInv, CachedWasPublished

\* The CRL of a cycle without signatures comes with no list.
LEMMA WriteCrlStep ==
  ASSUME IInv, TypeOK', NEW p \in Procs, WriteCrl(p)
  PROVE  IInv'
<1>1. /\ cycle'[p] = [Idle EXCEPT !.at = "load"]
      /\ \A q \in Procs \ {p} :
           \/ cycle[q] = Idle /\ cycle'[q] = Idle
           \/ cycle'[q] = [cycle[q] EXCEPT !.stale = TRUE] /\ cycle[q] # Idle
      /\ cycle[p].at = "unsigned_pki"
      /\ UNCHANGED <<published, required, cached, reported, spoiled>>
      /\ crl'.source = None
  BY WritesOvertake DEF WriteCrl, IInv, gds
<1>2. ~ required
  BY <1>1 DEF IInv, Sane, Moded
<1>3. CrlNotBehindItsList'
  BY <1>1, AgentAssumption DEF CrlNotBehindItsList
<1>4. ASSUME NEW q \in Procs \ {p}, cycle[q] # Idle PROVE Sane(cycle[q])'
  <2> DEFINE u == cycle[q]
  <2>1. u \in Cycle /\ Sane(u)
    BY DEF IInv, TypeOK
  <2>2. /\ u' = [u EXCEPT !.stale = TRUE] /\ u'.stale = TRUE /\ u'.at = u.at /\ u'.place = u.place
        /\ u'.document = u.document /\ u'.written = u.written
    BY <1>1, <1>4, <2>1 DEF Cycle
  <2>3. Moded(u)' /\ Current(u)' /\ Announced(u)'
    BY <1>1, <2>1, <2>2 DEF Sane, Moded, Current, Announced
  <2>4. Fetched(u)' /\ Checked(u)'
    BY <1>1, <1>2 DEF Fetched, Checked
  <2>5. ~ u.written
    BY <1>2, <2>1 DEF Sane, Moded
  <2>6. Sourced(u)'
    BY <2>2, <2>5 DEF Sourced
  <2> QED
    BY <2>3, <2>4, <2>6 DEF Sane
<1>5. ASSUME NEW q \in Procs, \/ cycle'[q] = Idle
                              \/ cycle'[q] = [Idle EXCEPT !.at = "load"]
      PROVE  Sane(cycle[q])'
  BY <1>5 DEF Sane, Moded, Current, Fetched, Checked, Announced, Sourced, Preparing, Idle
<1>6. \A q \in Procs : Sane(cycle[q])'
  <2>1. SUFFICES ASSUME NEW q \in Procs PROVE Sane(cycle[q])'
    OBVIOUS
  <2>2. CASE q = p
    BY <1>1, <1>5, <2>2
  <2>3. CASE q # p /\ cycle[q] = Idle
    <3>1. cycle'[q] = Idle
      BY <1>1, <2>3 DEF Idle
    <3> QED
      BY <1>5, <3>1
  <2>4. CASE q # p /\ cycle[q] # Idle
    BY <1>4, <2>4
  <2> QED
    BY <2>2, <2>3, <2>4
<1> QED
  BY <1>1, <1>3, <1>6 DEF IInv, CachedWasPublished

\* The list: its CRL is in force, if it is signed.
LEMMA WriteListStep ==
  ASSUME IInv, TypeOK', NEW p \in Procs, WriteList(p)
  PROVE  IInv'
<1> DEFINE r == cycle[p]
<1>1. /\ r \in Cycle /\ r.place \in DOMAIN Order /\ T(r) \in Targets /\ T(r) = Target(p)
      /\ r.place \in Nat
  <2>1. r \in Cycle /\ r.place \in DOMAIN Order
    BY DEF TypeOK, IInv
  <2>2. T(r) = Target(p) /\ T(r) \in Targets
    BY <2>1, PlacesDiffer DEF Target, T
  <2> QED
    BY <2>1, <2>2, PlacesDiffer
<1>2. /\ cycle'[p] = Turn(r)
      /\ \A q \in Procs \ {p} :
           \/ cycle[q] = Idle /\ cycle'[q] = Idle
           \/ cycle'[q] = [cycle[q] EXCEPT !.stale = TRUE] /\ cycle[q] # Idle
      /\ r.at = "list"
      /\ UNCHANGED <<published, required, crl>>
      /\ cached' = [cached EXCEPT ![T(r)] = r.document]
      /\ spoiled' = (spoiled \/ Overlaps(p))
  BY <1>1, WritesOvertake DEF WriteList, IInv, gds
<1>3. Sane(r)
  BY DEF IInv
<1>4. required \in BOOLEAN
  BY DEF IInv, TypeOK
<1>5. /\ cached'[T(r)] = r.document
      /\ \A t \in Targets : t # T(r) => cached'[t] = cached[t]
  BY <1>1, <1>2 DEF IInv, TypeOK
<1>6. CachedWasPublished'
  <2>1. r.document.signed => r.document.crl \subseteq published[T(r)].crl
    BY <1>2, <1>3, <1>4 DEF Sane, Moded, Fetched
  <2> QED
    BY <1>2, <1>5, <2>1 DEF IInv, CachedWasPublished
<1>7. CrlNotBehindItsList'
  <2>1. SUFFICES ASSUME NEW t \in Targets, crl.source = t, cached'[t].signed, ~ spoiled'
                 PROVE  cached'[t].crl \subseteq crl.serials
    BY <1>2 DEF CrlNotBehindItsList
  <2>2. ~ spoiled
    BY <1>2, <2>1
  <2>3. CASE t # T(r)
    BY <1>5, <2>1, <2>2, <2>3 DEF IInv, CrlNotBehindItsList
  <2>4. CASE t = T(r)
    <3>1. r.written
      BY <1>2, <1>3, <1>4, <1>5, <2>1, <2>4 DEF Sane, Moded
    <3>2. PICK k \in 1 .. r.place :
             /\ crl.source = Order[k]
             /\ k = r.place => crl.serials = r.document.crl
      BY <1>3, <2>2, <3>1 DEF Sane, Sourced
    <3>3. k = r.place
      BY <1>1, <2>1, <2>4, <3>2, PlacesDiffer DEF T
    <3> QED
      BY <1>5, <2>4, <3>2, <3>3
  <2> QED
    BY <2>3, <2>4
<1>8. ASSUME NEW q \in Procs \ {p}, cycle[q] # Idle PROVE Sane(cycle[q])'
  <2> DEFINE u == cycle[q]
  <2>1. u \in Cycle /\ Sane(u)
    BY DEF IInv, TypeOK
  <2>2. /\ u' = [u EXCEPT !.stale = TRUE] /\ u'.stale = TRUE /\ u'.at = u.at /\ u'.place = u.place
        /\ u'.before = u.before /\ u'.document = u.document /\ u'.written = u.written
    BY <1>2, <1>8, <2>1 DEF Cycle
  <2>3. Moded(u)' /\ Current(u)' /\ Announced(u)'
    BY <1>2, <2>1, <2>2 DEF Sane, Moded, Current, Announced
  <2>4. Fetched(u)' /\ Checked(u)'
    BY <1>2, <2>1, <2>2 DEF Sane, Fetched, Checked, Replayed, T
  <2>5. Sourced(u)'
    BY <1>2, <1>8 DEF Sourced, Overlaps
  <2> QED
    BY <2>3, <2>4, <2>5 DEF Sane
<1>9. ASSUME NEW q \in Procs \ {p}, cycle[q] = Idle PROVE Sane(cycle[q])'
  <2>1. cycle'[q] = Idle
    BY <1>2, <1>9 DEF Idle
  <2> QED
    BY <2>1 DEF Sane, Moded, Current, Fetched, Checked, Announced, Sourced, Preparing, Idle
<1>10. Sane(cycle[p])'
  <2>1. CASE Turn(r) = Idle
    <3>1. cycle'[p] = Idle
      BY <1>2, <2>1 DEF Idle
    <3> QED
      BY <3>1 DEF Sane, Moded, Current, Fetched, Checked, Announced, Sourced, Preparing, Idle
  <2>2. CASE Turn(r) # Idle
    <3> DEFINE u == cycle[p]
    <3>1. /\ u'.at \in {"idle", "load"} /\ u'.written = r.written /\ u'.place = r.place + 1
      BY <1>1, <1>2, <2>2, TurnEnds
    <3>2. Moded(u)' /\ Current(u)' /\ Fetched(u)' /\ Checked(u)' /\ Announced(u)'
      BY <1>2, <1>3, <3>1
         DEF Sane, Moded, Current, Fetched, Checked, Announced, Preparing
    <3>3. Sourced(u)'
      <4>1. SUFFICES ASSUME ~ spoiled, r.written
                     PROVE  \E k \in 1 .. r.place + 1 : crl.source = Order[k] /\ k # r.place + 1
        BY <1>2, <3>1 DEF Sourced
      <4>2. PICK k \in 1 .. r.place : crl.source = Order[k]
        BY <1>3, <4>1 DEF Sane, Sourced
      <4>3. k \in 1 .. r.place + 1 /\ k # r.place + 1
        BY <1>1, <4>2
      <4> QED
        BY <4>2, <4>3
    <3> QED
      BY <3>2, <3>3 DEF Sane
  <2> QED
    BY <2>1, <2>2
<1> QED
  BY <1>6, <1>7, <1>8, <1>9, <1>10 DEF IInv

\* GDS only adds to what it has published; a restart leaves no turn.
LEMMA GdsStep ==
  ASSUME IInv, TypeOK',
         \/ \E c \in Certs : Revoke(c)
         \/ \E t \in Targets :
              \/ BuildList(t)
              \/ \E serials \in SUBSET Certs, v \in 1 .. latest[t] : Publish(t, serials, v)
         \/ Reconfigure
  PROVE  IInv'
<1>1. ASSUME UNCHANGED <<required, files, cycle>>,
             \A t \in Targets : published[t].crl \subseteq published'[t].crl
      PROVE  IInv'
  <2>1. UNCHANGED <<cached, crl, reported, spoiled>>
    BY <1>1 DEF files
  <2>2. CachedWasPublished' /\ CrlNotBehindItsList'
    BY <1>1, <2>1 DEF IInv, CachedWasPublished, CrlNotBehindItsList
  <2>3. ASSUME NEW q \in Procs PROVE Sane(cycle[q])'
    <3>1. Sane(cycle[q]) /\ T(cycle[q]) \in Targets
      BY PlacesDiffer DEF IInv, TypeOK, T
    <3>2. Fetched(cycle[q])'
      BY <1>1, <2>1, <3>1 DEF Sane, Fetched, T
    <3> QED
      BY <1>1, <2>1, <3>1, <3>2 DEF Sane, Moded, Current, Checked, Announced, Sourced, T, Replayed
  <2> QED
    BY <2>2, <2>3 DEF IInv
<1>2. ASSUME NEW c \in Certs, Revoke(c) PROVE IInv'
  BY <1>1, <1>2 DEF Revoke, Gds!Revoke
<1>3. ASSUME NEW t \in Targets, BuildList(t) PROVE IInv'
  BY <1>1, <1>3 DEF BuildList
<1>4. ASSUME NEW t \in Targets, NEW serials \in SUBSET Certs, NEW v \in 1 .. latest[t],
             Publish(t, serials, v)
      PROVE  IInv'
  <2>1. \A u \in Targets : published[u].crl \subseteq published'[u].crl
    BY <1>4 DEF Publish, Gds!Publish, IInv, TypeOK
  <2> QED
    BY <1>1, <1>4, <2>1 DEF Publish
<1>5. ASSUME Reconfigure PROVE IInv'
  <2>1. UNCHANGED <<published, cached, crl, spoiled>> /\ \A q \in Procs : cycle'[q] = Idle
    BY <1>5 DEF Reconfigure, gds, files
  <2>2. ASSUME NEW q \in Procs PROVE Sane(cycle[q])'
    <3>1. cycle'[q].at = "idle" /\ cycle'[q].written = FALSE
      BY <2>1 DEF Idle
    <3> QED
      BY <3>1 DEF Sane, Moded, Current, Fetched, Checked, Announced, Sourced, Preparing
  <2> QED
    BY <2>1, <2>2 DEF IInv, CachedWasPublished, CrlNotBehindItsList
<1> QED
  BY <1>2, <1>3, <1>4, <1>5

(***************************************************************************)
(* The invariant and the theorems.                                         *)
(***************************************************************************)
LEMMA IInvInit == Init => IInv
<1> SUFFICES ASSUME Init PROVE IInv
  OBVIOUS
<1>1. CachedWasPublished /\ CrlNotBehindItsList
  BY DEF Init, CachedWasPublished, CrlNotBehindItsList, Nothing
<1>2. \A q \in Procs : Sane(cycle[q])
  BY IdleIsSane DEF Init
<1> QED
  BY <1>1, <1>2, TypeInit DEF IInv

LEMMA IInvStep == IInv /\ [Next]_vars => IInv'
<1> SUFFICES ASSUME IInv, [Next]_vars PROVE IInv'
  OBVIOUS
<1>1. TypeOK'
  BY TypeStep DEF IInv
<1>2. CASE UNCHANGED vars
  <2>1. UNCHANGED <<published, required, cached, crl, reported, spoiled, cycle>>
    BY <1>2 DEF vars, gds, files
  <2> QED
    BY <1>1, <2>1 DEF IInv, CachedWasPublished, CrlNotBehindItsList, Sane, Moded, Current, Fetched,
                      Checked, Announced, Sourced, T, Replayed
<1>3. CASE Next
  <2>1. ASSUME NEW p \in Procs, Step(p) PROVE IInv'
    BY <1>1, <2>1, GoesStep, ReportStep, WritePkiStep, WriteCrlStep, WriteListStep
       DEF Step, SignedTurn, UnsignedTurn
  <2> QED
    BY <1>1, <1>3, <2>1, GdsStep, GoesStep, AgentAssumption DEF Next, Loop, PullRevocation
<1> QED
  BY <1>2, <1>3

LEMMA Invariance == Spec => []IInv
BY IInvInit, IInvStep, PTL DEF Spec

\* The CRL in force is not behind the list it came with.
THEOREM CrlKeepsUp == Spec => []CrlNotBehindItsList
BY Invariance, PTL DEF IInv

\* No process takes back what it has read.
THEOREM ReplayRefused == Spec => NoReplay
<1>1. IInv /\ TypeOK' =>
        \A p \in Procs :
          WriteList(p) /\ ~ cycle[p].stale =>
            LET t == Target(p)
            IN  cached[t].signed /\ cached'[t].signed => ~ Older(cached'[t], cached[t])
  <2>1. SUFFICES ASSUME IInv, NEW p \in Procs, WriteList(p), ~ cycle[p].stale,
                        cached[Target(p)].signed, cached'[Target(p)].signed
                 PROVE  ~ Older(cached'[Target(p)], cached[Target(p)])
    OBVIOUS
  <2> DEFINE r == cycle[p]
  <2>2. Target(p) \in Targets /\ T(r) = Target(p) /\ required \in BOOLEAN
    <3>1. r.place \in DOMAIN Order
      BY <2>1 DEF IInv, TypeOK
    <3>2. required \in BOOLEAN
      BY <2>1 DEF IInv, TypeOK
    <3> QED
      BY <3>1, <3>2, PlacesDiffer DEF Target, T
  <2>3. cached'[Target(p)] = r.document /\ r.at = "list"
    BY <2>1, <2>2 DEF WriteList, IInv, TypeOK
  <2>4. required /\ r.before = cached[Target(p)] /\ ~ Replayed(r)
    BY <2>1, <2>2, <2>3 DEF IInv, Sane, Moded, Current, Checked, Preparing
  <2> QED
    BY <2>1, <2>3, <2>4 DEF Replayed
<1> QED
  BY <1>1, Invariance, TypeCorrect, PTL DEF NoReplay

\* Every list that replaces another has been reported.
THEOREM ChangesReported == Spec => ChangeIsReported
<1>1. IInv => \A p \in Procs :
                WriteList(p) /\ ~ cycle[p].stale => cycle[p].document \in reported[Target(p)]
  BY DEF IInv, Sane, Announced, WriteList, Target, T
<1> QED
  BY <1>1, Invariance, PTL DEF ChangeIsReported

===============================================================================
