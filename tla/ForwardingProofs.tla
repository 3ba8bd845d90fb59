--------------------------- MODULE ForwardingProofs ---------------------------
(***************************************************************************)
(* Proofs about the two parts that forward data: AuditForward's sender to  *)
(* the DMZ collector, for any number of rows and any batch size, and       *)
(* GatewayBridge's data path from OT to the IT server and InfluxDB, for    *)
(* any whitelist.                                                          *)
(***************************************************************************)
EXTENDS AuditForward, GatewayBridge, FiniteSetTheorems, SequenceTheorems, TLAPS

(***************************************************************************)
(* LIMIT.                                                                  *)
(***************************************************************************)

\* The ids of the table are natural numbers, and finitely many.
LEMMA RowsAreNaturals == \A i \in Rows : i \in Nat /\ i > 0
BY FS_CardinalityType, ForwardAssumption

LEMMA RowsAreFinite == \A S \in SUBSET Rows : IsFiniteSet(S) /\ Cardinality(S) \in Nat
BY FS_Subset, FS_CardinalityType, ForwardAssumption

\* LIMIT n leaves a set with no gap: who is younger than a chosen row is chosen.
LEMMA OldestHasNoGap ==
  ASSUME NEW S \in SUBSET Rows, NEW i \in S, NEW j \in OldestOf(S), i <= j
  PROVE  i \in OldestOf(S)
<1> DEFINE Below(x) == {k \in S : k < x}
<1>0. j \in S /\ \A k \in S : k \in Nat
  BY RowsAreNaturals DEF OldestOf
<1>1. Below(i) \subseteq Below(j) /\ Below(j) \in SUBSET Rows /\ Below(i) \in SUBSET Rows
  BY <1>0
<1>2. IsFiniteSet(Below(j)) /\ Cardinality(Below(j)) \in Nat /\ Cardinality(Below(i)) \in Nat
  BY <1>1, RowsAreFinite
<1>3. Cardinality(Below(i)) <= Cardinality(Below(j))
  BY <1>1, <1>2, FS_Subset
<1>4. Cardinality(Below(j)) < BatchSize
  BY DEF OldestOf
<1>5. Cardinality(Below(i)) < BatchSize
  BY <1>2, <1>3, <1>4, ForwardAssumption
<1> QED
  BY <1>5 DEF OldestOf

\* A batch has at most BatchSize rows: those below its youngest are fewer.
LEMMA OldestIsLimited ==
  ASSUME NEW S \in SUBSET Rows, NEW m \in OldestOf(S), NoneAbove(m, OldestOf(S))
  PROVE  Cardinality(OldestOf(S)) <= BatchSize
<1> DEFINE T == OldestOf(S)
           Below == {k \in S : k < m}
<1>0. T \subseteq S /\ \A k \in S : k \in Nat
  BY RowsAreNaturals DEF OldestOf
<1>1. T \in SUBSET Rows /\ Below \in SUBSET Rows /\ T \ {m} \subseteq Below
  BY <1>0 DEF NoneAbove
<1>2. /\ IsFiniteSet(T) /\ Cardinality(T) \in Nat
      /\ IsFiniteSet(Below) /\ Cardinality(Below) \in Nat
      /\ Cardinality(T \ {m}) \in Nat
  BY <1>1, RowsAreFinite
<1>3. Cardinality(T \ {m}) = Cardinality(T) - 1
  BY <1>2, FS_RemoveElement
<1>4. Cardinality(T \ {m}) <= Cardinality(Below)
  BY <1>1, <1>2, FS_Subset
<1>5. Cardinality(Below) < BatchSize
  BY DEF OldestOf
<1> QED
  BY <1>2, <1>3, <1>4, <1>5, ForwardAssumption

(***************************************************************************)
(* The inductive invariant.  What was posted is at or below the cursor, so *)
(* a row above the cursor is new to the collector; a sender that starts    *)
(* blind gives that up for good.                                           *)
(***************************************************************************)
BatchIsRead ==
  /\ at = "init" => cursor = 0
  /\ at # "send" => batch = {}
  /\ \A i \in batch : i <= cursor

CursorCoversPosts ==
  \/ blind
  \/ at = "init"
  \/ \A i \in received : i <= cursor

IInv == /\ TypeOK
        /\ BatchIsRead
        /\ CursorCoversPosts
        /\ OnceInOrder
        /\ NoSilentLoss

LEMMA Initially == Init => IInv
<1> SUFFICES ASSUME Init PROVE IInv OBVIOUS
<1>1. Cardinality({}) = 0
  BY FS_EmptySet
<1>2. batch = {} => Cardinality(batch) <= BatchSize
  BY <1>1, ForwardAssumption
<1>3. TypeOK
  <2>1. batch \subseteq committed /\ Cardinality(batch) <= BatchSize
    BY <1>2 DEF Init
  <2>2. faults \in 0 .. MaxFaults /\ cursor \in 0 .. lastId /\ lastId \in {0} \cup Rows
    BY ForwardAssumption DEF Init
  <2> QED
    BY <2>1, <2>2 DEF Init, TypeOK
<1> QED
  BY <1>3 DEF Init, IInv, BatchIsRead, CursorCoversPosts, OnceInOrder, NoSilentLoss

LEMMA Step == IInv /\ [Next]_vars => IInv'
<1> SUFFICES ASSUME IInv, [Next]_vars PROVE IInv' OBVIOUS
<1> USE DEF IInv, table, causes
<1>0. /\ lastId \in Nat /\ cursor \in Nat /\ committed \in SUBSET Rows
      /\ \A i \in committed \cup batch \cup received : i \in Nat /\ i > 0
      /\ Cardinality({}) <= BatchSize
  <2>1. Cardinality(Rows) \in Nat /\ Cardinality({}) = 0
    BY FS_CardinalityType, FS_EmptySet, ForwardAssumption
  <2> QED
    BY <2>1, RowsAreNaturals, ForwardAssumption DEF TypeOK
<1>1. CASE Insert
  <2>1. TypeOK'
    BY <1>0, <1>1 DEF Insert, TypeOK
  <2> QED
    BY <2>1, <1>1 DEF Insert, BatchIsRead, CursorCoversPosts, OnceInOrder, NoSilentLoss
<1>2. ASSUME NEW i \in Rows, Commit(i) PROVE IInv'
  <2>1. TypeOK'
    BY <1>0, <1>2 DEF Commit, TypeOK
  <2>2. NoSilentLoss'
    BY <1>0, <1>2 DEF Commit, NoSilentLoss
  <2> QED
    BY <2>1, <2>2, <1>2 DEF Commit, BatchIsRead, CursorCoversPosts, OnceInOrder
<1>3. ASSUME NEW i \in Rows, Abort(i) PROVE IInv'
  BY <1>3 DEF Abort, TypeOK, BatchIsRead, CursorCoversPosts, OnceInOrder, NoSilentLoss
<1>4. CASE InitCursor
  <2>1. cursor' \in Nat /\ batch = {} /\ batch' = {} /\ \A i \in committed : i <= cursor'
    BY <1>0, <1>4 DEF InitCursor, NoneAbove, BatchIsRead
  <2>2. TypeOK'
    BY <1>0, <1>4 DEF InitCursor, TypeOK
  <2>3. CursorCoversPosts' /\ NoSilentLoss'
    BY <1>0, <2>1, <1>4 DEF InitCursor, TypeOK, CursorCoversPosts, NoSilentLoss
  <2> QED
    BY <2>1, <2>2, <2>3, <1>4 DEF InitCursor, BatchIsRead, OnceInOrder
<1>5. CASE InitCursorFails
  <2>1. TypeOK'
    BY <1>0, <1>5, ForwardAssumption DEF InitCursorFails, Fault, TypeOK
  <2> QED
    BY <1>0, <2>1, <1>5 DEF InitCursorFails, BatchIsRead, CursorCoversPosts, OnceInOrder, NoSilentLoss
<1>6. CASE Poll
  <2> DEFINE rows == OldestOf(After(cursor))
  <2>1. /\ at = "tick" /\ at' = "send" /\ batch' = rows /\ cursor' \in rows
        /\ NoneAbove(cursor', rows) /\ batch = {} /\ UNCHANGED <<table, received, causes, faults>>
    BY <1>6 DEF Poll, BatchIsRead
  <2>2. /\ After(cursor) \in SUBSET Rows /\ rows \subseteq After(cursor)
        /\ \A i \in rows : i \in committed /\ i > cursor /\ i <= cursor'
    BY <1>0, <2>1 DEF After, OldestOf, NoneAbove
  <2>3. Cardinality(rows) <= BatchSize
    BY <2>1, <2>2, OldestIsLimited
  <2>4. TypeOK'
    <3>0. rows \subseteq committed /\ cursor' \in committed /\ committed \subseteq 1 .. lastId
      BY <2>1, <2>2 DEF TypeOK
    <3>1. cursor' \in 0 .. lastId /\ rows \subseteq committed
      BY <1>0, <3>0
    <3>2. batch' \subseteq committed' /\ Cardinality(batch') <= BatchSize
      BY <2>1, <2>3, <3>1
    <3> QED
      BY <2>1, <3>1, <3>2 DEF TypeOK
  <2>5. BatchIsRead'
    BY <2>1, <2>2 DEF BatchIsRead
  <2>6. CursorCoversPosts' /\ OnceInOrder'
    BY <1>0, <2>1, <2>2 DEF CursorCoversPosts, OnceInOrder
  <2>7. ASSUME NEW i \in committed, i <= cursor', i > cursor PROVE i \in rows
    BY <2>1, <2>2, <2>7, OldestHasNoGap DEF After
  <2>8. NoSilentLoss'
    BY <1>0, <2>1, <2>7 DEF NoSilentLoss
  <2> QED
    BY <2>4, <2>5, <2>6, <2>8
<1>7. ASSUME NEW S \in SUBSET batch, Deliver(S) PROVE IInv'
  <2>1. TypeOK'
    BY <1>0, <1>7 DEF Deliver, TypeOK
  <2>2. BatchIsRead' /\ OnceInOrder'
    BY <1>7 DEF Deliver, BatchIsRead, OnceInOrder
  <2>3. CursorCoversPosts'
    BY <1>7 DEF Deliver, BatchIsRead, CursorCoversPosts
  <2>4. NoSilentLoss'
    BY <1>7 DEF Deliver, NoSilentLoss
  <2> QED
    BY <2>1, <2>2, <2>3, <2>4
<1>8. CASE Restart
  <2>1. batch' = {} /\ Cardinality(batch') <= BatchSize /\ faults' \in 0 .. MaxFaults
    BY <1>0, <1>8, ForwardAssumption DEF Restart, Fault, TypeOK
  <2>2. batch' \subseteq committed' /\ lost' \subseteq committed'
    BY <2>1, <1>8 DEF Restart, TypeOK
  <2>3. cursor' \in 0 .. lastId'
    BY <1>0, <1>8 DEF Restart
  <2>4. TypeOK'
    BY <2>1, <2>2, <2>3, <1>8 DEF Restart, TypeOK
  <2> QED
    BY <2>4, <1>8 DEF Restart, BatchIsRead, CursorCoversPosts, OnceInOrder, NoSilentLoss
<1>9. CASE UNCHANGED vars
  BY <1>9 DEF vars, TypeOK, BatchIsRead, CursorCoversPosts, OnceInOrder, NoSilentLoss, After
<1>10. Send => IInv'
  BY <1>7 DEF Send
<1>11. SendFails => IInv'
  BY <1>7 DEF SendFails
<1> QED
  BY <1>1, <1>2, <1>3, <1>4, <1>5, <1>6, <1>8, <1>9, <1>10, <1>11 DEF Next, Sender

(***************************************************************************)
(* The theorems about the sender.                                          *)
(***************************************************************************)

\* The inductive invariant holds of every state of the sender.
THEOREM Invariance == Spec => []IInv
BY Initially, Step, PTL DEF Spec

\* Ids, cursor, batch and the collector's rows keep their types; a batch never
\* exceeds its LIMIT.
THEOREM TypeCorrect == Spec => []TypeOK
<1>1. IInv => TypeOK
  BY DEF IInv
<1> QED
  BY <1>1, Invariance, PTL

\* _tick posts no row twice and none after a younger one, whatever restarts,
\* unless _initialize_last_audit_id failed.
THEOREM PostedOnceInOrder == Spec => []OnceInOrder
<1>1. IInv => OnceInOrder
  BY DEF IInv
<1> QED
  BY <1>1, Invariance, PTL

\* The cursor of _tick passes over a row only for one of the known reasons.
THEOREM LossIsExplained == Spec => []NoSilentLoss
<1>1. IInv => NoSilentLoss
  BY DEF IInv
<1> QED
  BY <1>1, Invariance, PTL

(***************************************************************************)
(* The gateway's data path.  The readings of a cycle are in the order of   *)
(* the whitelist, so that reading a point changes the cache of none read   *)
(* before it; a cycle that is still posting has said nothing; and what the *)
(* bucket holds was in the cache when it was posted, which since then only *)
(* followed OT.                                                            *)
(***************************************************************************)
ReadInOrder ==
  /\ \A i \in DOMAIN readings : readings[i].point < next
  /\ \A i, j \in DOMAIN readings : i < j => readings[i].point < readings[j].point

CacheHoldsReadings == \A i \in DOMAIN readings : cache[readings[i].point] = readings[i].value

NothingSaidYet ==
  /\ place = "poll" => attempt = 0 /\ written = "nothing"
  /\ place = "post" => attempt < Retries /\ written = "nothing" /\ readings # <<>>

WrittenIsStored == written = "ok" => Parses(readings) /\ Content(readings) \subseteq bucket

FailedWasRetried == written = "failed" => attempt = Retries

\* From OT to the IT server to InfluxDB, values only get older.
OlderDownstream ==
  /\ \A p \in Points : cache[p] <= values[p]
  /\ \A r \in bucket : r.value <= cache[r.point]

BridgeInv ==
  /\ BridgeTypeOK
  /\ ReadInOrder
  /\ CacheHoldsReadings
  /\ NothingSaidYet
  /\ WrittenIsStored
  /\ FailedWasRetried
  /\ OlderDownstream

LEMMA BridgeInitially == BridgeInit => BridgeInv
<1> SUFFICES ASSUME BridgeInit PROVE BridgeInv OBVIOUS
<1> USE DEF BridgeInit
<1>1. BridgeTypeOK
  <2>1. <<>> \in Seq(Reading) /\ Len(<<>>) = 0
    OBVIOUS
  <2>2. cache \in [Points -> Values \cup {0}] /\ values \in [Points -> Values]
    BY BridgeAssumption DEF Values
  <2>3. next \in 1 .. Last + 1 /\ timeouts \in 0 .. MaxTimeouts /\ attempt \in 0 .. Retries
    BY BridgeAssumption DEF Retries
  <2>4. nsIdx \in 0 .. 2 /\ index \in 1 .. 2 /\ Len(readings) <= next - 1
    BY <2>1
  <2> QED
    BY <2>1, <2>2, <2>3, <2>4 DEF BridgeTypeOK, Places
<1>2. ReadInOrder /\ CacheHoldsReadings
  BY DEF ReadInOrder, CacheHoldsReadings
<1>3. OlderDownstream
  BY DEF OlderDownstream
<1> QED
  BY <1>1, <1>2, <1>3 DEF BridgeInv, NothingSaidYet, WrittenIsStored, FailedWasRetried

\* A step outside the cycle keeps what is said about it.
LEMMA CycleFrame ==
  ASSUME BridgeInv, UNCHANGED <<cycle, data>>,
         values' \in [Points -> Values], \A p \in Points : values[p] <= values'[p],
         place' \in {"poll", "post"} => place' = place
  PROVE  /\ ReadInOrder' /\ CacheHoldsReadings' /\ NothingSaidYet'
         /\ WrittenIsStored' /\ FailedWasRetried' /\ OlderDownstream'
<1> USE DEF BridgeInv, cycle, data
<1>1. ReadInOrder' /\ CacheHoldsReadings'
  BY DEF ReadInOrder, CacheHoldsReadings
<1>2. NothingSaidYet'
  BY DEF NothingSaidYet
<1>3. WrittenIsStored' /\ FailedWasRetried'
  BY DEF WrittenIsStored, FailedWasRetried, Parses, Content
<1>4. OlderDownstream'
  BY SMTT(30), BridgeAssumption DEF OlderDownstream, BridgeTypeOK, Values
<1> QED
  BY <1>1, <1>2, <1>3, <1>4

\* OT, the files, the operator.
LEMMA OutsideStep == BridgeInv /\ Outside => BridgeInv'
<1> SUFFICES ASSUME BridgeInv, Outside PROVE BridgeInv' OBVIOUS
<1> USE DEF BridgeInv, BridgeTypeOK, loop, around, Places
<1>1. /\ UNCHANGED <<cycle, data>>
      /\ place' = place \/ place' = "ended"
  BY DEF Outside, Change, OtStops, OtStarts, OtIsReady, SessionLost, SessionBack,
         MaterialChanges, Signal
<1>2. /\ values' \in [Points -> Values]
      /\ \A p \in Points : values[p] <= values'[p]
  <2>1. ASSUME NEW p \in Points \ Faulty, Change(p)
        PROVE  /\ values' \in [Points -> Values]
               /\ \A q \in Points : values[q] <= values'[q]
    <3>1. values[p] + 1 \in Values
      BY <2>1, BridgeAssumption DEF Change, Values
    <3> QED
      BY <2>1, <3>1 DEF Change, Values
  <2>2. values' = values => \A q \in Points : values[q] <= values'[q]
    BY DEF Values
  <2>3. (\E p \in Points \ Faulty : Change(p)) \/ values' = values
    BY DEF Outside, OtStops, OtStarts, OtIsReady, SessionLost, SessionBack,
           MaterialChanges, Signal
  <2> QED
    BY <2>1, <2>2, <2>3
<1>3. BridgeTypeOK'
  <2>1. UNCHANGED <<next, readings, attempt, written, cache, bucket, nsIdx, connected, timeouts>>
    BY DEF Outside, Change, OtStops, OtStarts, OtIsReady, SessionLost, SessionBack,
           MaterialChanges, Signal, cycle, data
  <2>2. /\ running' \in BOOLEAN /\ ot' \in {"down", "starting", "ready"} /\ index' \in 1 .. 2
        /\ session' \in {"none", "open", "lost"} /\ (session' # "none" => session # "none")
    BY DEF Outside, Change, OtStops, OtStarts, OtIsReady, SessionLost, SessionBack,
           MaterialChanges, Signal
  <2>3. material' \subseteq Sides
    BY DEF Outside, Change, OtStops, OtStarts, OtIsReady, SessionLost, SessionBack,
           MaterialChanges, Signal
  <2> QED
    BY <1>1, <1>2, <2>1, <2>2, <2>3
<1> QED
  BY <1>1, <1>2, <1>3, CycleFrame

\* Starting, stopping and the steps between two cycles.
LEMMA IdleStep ==
  BridgeInv /\ (WaitForOt \/ Boot \/ Stop \/ InitClient \/ Serve) => BridgeInv'
<1> SUFFICES ASSUME BridgeInv, WaitForOt \/ Boot \/ Stop \/ InitClient \/ Serve
             PROVE  BridgeInv'
  OBVIOUS
<1> USE DEF BridgeInv, loop, around
<1>1. /\ UNCHANGED <<cycle, data>> /\ values' = values
      /\ place' \in Places \ {"poll", "post"}
  BY DEF WaitForOt, Boot, Stop, InitClient, Serve, Places
<1>2. BridgeTypeOK'
  BY <1>1 DEF WaitForOt, Boot, Stop, InitClient, Serve, BridgeTypeOK, cycle, data
<1>3. \A p \in Points : values[p] <= values'[p]
  BY <1>1 DEF BridgeTypeOK, Values
<1> QED
  BY <1>1, <1>2, <1>3, CycleFrame DEF BridgeTypeOK

\* A cycle begins with nothing read, posted or said.
LEMMA BeginStep ==
  ASSUME BridgeInv, BeginPoll, UNCHANGED <<data, around, running>>, connected',
         connected' \in BOOLEAN, nsIdx' \in 0 .. 2,
         session' \in {"none", "open", "lost"}, timeouts' \in 0 .. MaxTimeouts
  PROVE  BridgeInv'
<1> USE DEF BridgeInv, BeginPoll, data, around
<1>1. BridgeTypeOK'
  <2>1. <<>> \in Seq(Reading) /\ Len(<<>>) = 0
    OBVIOUS
  <2> QED
    BY <2>1, BridgeAssumption DEF BridgeTypeOK, Places, Retries
<1>2. ReadInOrder' /\ CacheHoldsReadings'
  BY DEF ReadInOrder, CacheHoldsReadings
<1>3. OlderDownstream'
  BY DEF OlderDownstream
<1> QED
  BY <1>1, <1>2, <1>3 DEF NothingSaidYet, WrittenIsStored, FailedWasRetried

LEMMA ConnectStep == BridgeInv /\ Connect => BridgeInv'
<1> SUFFICES ASSUME BridgeInv, Connect PROVE BridgeInv' OBVIOUS
<1>1. CASE ot = "ready" /\ BeginPoll /\ connected' = TRUE
  <2>1. nsIdx' \in 0 .. 2 /\ session' = "open" /\ timeouts' = timeouts
    BY <1>1 DEF Connect, BeginPoll, BridgeInv, BridgeTypeOK, Places
  <2> QED
    BY <1>1, <2>1, BeginStep DEF Connect, BridgeInv, BridgeTypeOK
<1>2. CASE place' = "top" /\ UNCHANGED <<connected, nsIdx, session, cycle>>
  <2>1. timeouts' \in 0 .. MaxTimeouts
    BY <1>2, BridgeAssumption DEF Connect, TimesOut, BridgeInv, BridgeTypeOK
  <2>2. BridgeTypeOK'
    BY <1>2, <2>1 DEF Connect, BridgeInv, BridgeTypeOK, cycle, data, around, Places
  <2>3. \A p \in Points : values[p] <= values'[p]
    BY <1>2 DEF Connect, around, BridgeInv, BridgeTypeOK, Values
  <2> QED
    BY <1>2, <2>2, <2>3, CycleFrame DEF Connect, BridgeInv, BridgeTypeOK
<1> QED
  BY <1>1, <1>2 DEF Connect

LEMMA PollAgainStep == BridgeInv /\ PollAgain => BridgeInv'
BY BeginStep DEF PollAgain, loop, BridgeInv, BridgeTypeOK

\* A point is read into the cache and appended to the readings, or skipped.
LEMMA ReadPointStep == BridgeInv /\ ReadPoint => BridgeInv'
<1> SUFFICES ASSUME BridgeInv, ReadPoint PROVE BridgeInv' OBVIOUS
<1> DEFINE r == [point |-> next, value |-> values[next]]
<1>0. /\ place = "poll" /\ place' = place /\ next \in Points /\ next' = next + 1
      /\ next \in Nat /\ Last \in Nat /\ next' \in 1 .. Last + 1
      /\ UNCHANGED <<loop, attempt, written, bucket, around, session>>
  BY BridgeAssumption DEF ReadPoint, BridgeInv, BridgeTypeOK, Points
<1>1. /\ readings \in Seq(Reading) /\ Len(readings) \in Nat /\ Len(readings) <= next - 1
      /\ \A i \in DOMAIN readings : readings[i] \in Reading
      /\ values \in [Points -> Values] /\ cache \in [Points -> Values \cup {0}]
      /\ Values \subseteq Nat
  BY DEF BridgeInv, BridgeTypeOK, Values
<1>2. timeouts' \in 0 .. MaxTimeouts
  BY BridgeAssumption DEF ReadPoint, TimesOut, BridgeInv, BridgeTypeOK
<1>3. written = "nothing" /\ attempt = 0
  BY <1>0 DEF BridgeInv, NothingSaidYet
<1>4. NothingSaidYet' /\ WrittenIsStored' /\ FailedWasRetried'
  BY <1>0, <1>3 DEF NothingSaidYet, WrittenIsStored, FailedWasRetried
<1>5. CASE cache' = [cache EXCEPT ![next] = values[next]] /\ readings' = Append(readings, r)
  <2>1. r \in Reading /\ r.point = next /\ r.value = values[next]
    BY <1>0, <1>1 DEF Reading
  <2>2. /\ readings' \in Seq(Reading) /\ Len(readings') = Len(readings) + 1
        /\ DOMAIN readings = 1 .. Len(readings) /\ DOMAIN readings' = 1 .. Len(readings) + 1
        /\ \A i \in 1 .. Len(readings) : readings'[i] = readings[i]
        /\ readings'[Len(readings) + 1] = r
    BY <1>1, <1>5, <2>1
  <2> HIDE DEF r
  <2>3. \A i \in DOMAIN readings' :
          \/ i \in DOMAIN readings /\ readings'[i] = readings[i]
          \/ i = Len(readings) + 1 /\ readings'[i] = r
    BY <1>1, <2>2
  <2>4. \A i \in DOMAIN readings : readings[i].point \in Points /\ readings[i].point < next
    BY <1>1 DEF BridgeInv, ReadInOrder, Reading
  <2>5. BridgeTypeOK'
    <3>1. Len(readings') <= next' - 1
      BY <1>0, <1>1, <2>2
    <3>2. cache' \in [Points -> Values \cup {0}]
      BY <1>0, <1>1, <1>5
    <3> QED
      BY <1>0, <1>2, <2>2, <3>1, <3>2 DEF BridgeInv, BridgeTypeOK, loop, around
  <2>6. ReadInOrder'
    <3>1. \A i \in DOMAIN readings' : readings'[i].point < next'
      BY <1>0, <2>1, <2>3, <2>4 DEF Points
    <3>2. ASSUME NEW i \in DOMAIN readings', NEW j \in DOMAIN readings', i < j
          PROVE  readings'[i].point < readings'[j].point
      <4>1. i \in DOMAIN readings /\ readings'[i] = readings[i]
        BY <1>1, <2>2, <2>3, <3>2
      <4>2. CASE j \in DOMAIN readings /\ readings'[j] = readings[j]
        BY <3>2, <4>1, <4>2 DEF BridgeInv, ReadInOrder
      <4>3. CASE readings'[j] = r
        BY <2>1, <2>4, <4>1, <4>3
      <4> QED
        BY <2>3, <4>2, <4>3
    <3> QED
      BY <3>1, <3>2 DEF ReadInOrder
  <2>7. CacheHoldsReadings'
    <3>1. cache'[next] = values[next] /\ \A p \in Points : p < next => cache'[p] = cache[p]
      BY <1>0, <1>1, <1>5 DEF Points
    <3>2. ASSUME NEW i \in DOMAIN readings' PROVE cache'[readings'[i].point] = readings'[i].value
      <4>1. CASE i \in DOMAIN readings /\ readings'[i] = readings[i]
        BY <2>4, <3>1, <4>1 DEF BridgeInv, CacheHoldsReadings
      <4>2. CASE readings'[i] = r
        BY <2>1, <3>1, <4>2
      <4> QED
        BY <2>3, <4>1, <4>2
    <3> QED
      BY <3>2 DEF CacheHoldsReadings
  <2>8. OlderDownstream'
    <3>1. /\ \A p \in Points : cache[p] \in Nat /\ values[p] \in Nat /\ cache[p] <= values[p]
          /\ \A p \in Points : cache'[p] = IF p = next THEN values[p] ELSE cache[p]
          /\ values' = values /\ bucket' = bucket
      <4>1. \A p \in Points : cache[p] \in Nat /\ values[p] \in Nat
        <5>1. ASSUME NEW p \in Points PROVE cache[p] \in Values \cup {0} /\ values[p] \in Values
          BY <1>1
        <5> QED
          BY <5>1 DEF Values
      <4>2. \A p \in Points : cache'[p] = IF p = next THEN values[p] ELSE cache[p]
        BY <1>0, <1>1, <1>5
      <4> QED
        BY <1>0, <4>1, <4>2 DEF BridgeInv, OlderDownstream, around
    <3>2. \A b \in bucket : b.point \in Points /\ b.value \in Nat /\ b.value <= cache[b.point]
      <4>1. bucket \subseteq [point : Points, value : Values \cup {0}]
        BY DEF BridgeInv, BridgeTypeOK
      <4>2. \A b \in bucket : b.point \in Points /\ b.value \in Nat
        <5>1. ASSUME NEW b \in bucket PROVE b.point \in Points /\ b.value \in Values \cup {0}
          BY <4>1
        <5> QED
          BY <5>1 DEF Values
      <4> QED
        BY <4>2 DEF BridgeInv, OlderDownstream
    <3>3. ASSUME NEW p \in Points
          PROVE  cache[p] <= cache'[p] /\ cache'[p] <= values[p] /\ cache'[p] \in Nat
      <4>1. CASE p = next
        BY <3>1, <4>1
      <4>2. CASE p # next
        BY <3>1, <4>2
      <4> QED
        BY <4>1, <4>2
    <3>4. \A p \in Points : cache'[p] <= values'[p]
      BY <3>1, <3>3
    <3>5. ASSUME NEW b \in bucket PROVE b.value <= cache'[b.point]
      BY <3>1, <3>2, <3>3
    <3> QED
      BY <3>1, <3>4, <3>5 DEF OlderDownstream
  <2> QED
    BY <1>4, <2>5, <2>6, <2>7, <2>8 DEF BridgeInv
<1>6. CASE UNCHANGED <<cache, readings>>
  <2>1. BridgeTypeOK'
    BY <1>0, <1>1, <1>2, <1>6 DEF BridgeInv, BridgeTypeOK, loop, around
  <2>2. ReadInOrder'
    <3>1. \A i \in DOMAIN readings : readings[i].point \in Nat
      BY <1>1 DEF Reading, Points
    <3> QED
      BY <1>0, <1>6, <3>1 DEF BridgeInv, ReadInOrder
  <2>3. CacheHoldsReadings'
    BY <1>6 DEF BridgeInv, CacheHoldsReadings
  <2>4. OlderDownstream'
    BY <1>0, <1>6 DEF BridgeInv, OlderDownstream, around
  <2> QED
    BY <1>4, <2>1, <2>2, <2>3, <2>4 DEF BridgeInv
<1> QED
  BY <1>5, <1>6 DEF ReadPoint

LEMMA PollEndsStep == BridgeInv /\ PollEnds => BridgeInv'
<1> SUFFICES ASSUME BridgeInv, PollEnds PROVE BridgeInv' OBVIOUS
<1> USE DEF BridgeInv, PollEnds, loop, cycle, data, around
<1>1. BridgeTypeOK'
  BY DEF BridgeTypeOK, Places
<1>2. ReadInOrder' /\ CacheHoldsReadings' /\ OlderDownstream'
  BY DEF ReadInOrder, CacheHoldsReadings, OlderDownstream
<1>3. WrittenIsStored' /\ FailedWasRetried'
  BY DEF WrittenIsStored, FailedWasRetried, Parses, Content
<1>4. NothingSaidYet'
  BY DEF NothingSaidYet, Retries
<1> QED
  BY <1>1, <1>2, <1>3, <1>4

\* What a batch puts into the bucket is in the cache, or cut short.
LEMMA ContentIsCached ==
  ASSUME BridgeInv, NEW r \in Content(readings)
  PROVE  /\ r \in [point : Points, value : Values \cup {0}]
         /\ r.value <= cache[r.point]
<1>1. PICK i \in DOMAIN readings :
        r = [readings[i] EXCEPT !.value = IF Cut(readings[i]) THEN 0 ELSE @]
  BY DEF Content
<1>2. readings[i] \in Reading /\ cache[readings[i].point] = readings[i].value
  BY DEF BridgeInv, BridgeTypeOK, CacheHoldsReadings
<1>3. /\ r.point = readings[i].point /\ r.value \in {0, readings[i].value}
      /\ r = [point |-> r.point, value |-> r.value]
  BY <1>1, <1>2 DEF Reading
<1> QED
  BY <1>2, <1>3 DEF Reading, Values

LEMMA PostStep == BridgeInv /\ Post => BridgeInv'
<1> SUFFICES ASSUME BridgeInv, Post PROVE BridgeInv' OBVIOUS
<1>0. /\ place = "post" /\ attempt < Retries /\ attempt' = attempt + 1
      /\ UNCHANGED <<loop, next, readings, cache, around, session, timeouts>>
      /\ bucket' = bucket \/ bucket' = bucket \cup Content(readings)
      /\ \/ /\ Parses(readings) /\ bucket' = bucket \cup Content(readings)
            /\ written' = "ok" /\ place' = "serve"
         \/ attempt' = Retries /\ written' = "failed" /\ place' = "serve"
         \/ attempt' # Retries /\ UNCHANGED <<written, place>>
  BY DEF Post
<1>1. attempt \in Nat /\ attempt' \in 0 .. Retries /\ (attempt' # Retries => attempt' < Retries)
  BY <1>0 DEF BridgeInv, BridgeTypeOK, Retries
<1>2. written = "nothing" /\ readings # <<>>
  BY <1>0 DEF BridgeInv, NothingSaidYet
<1>3. bucket \subseteq bucket' /\ bucket' \subseteq [point : Points, value : Values \cup {0}]
  BY <1>0, ContentIsCached DEF BridgeInv, BridgeTypeOK
<1>4. BridgeTypeOK'
  BY <1>0, <1>1, <1>3 DEF BridgeInv, BridgeTypeOK, loop, around, Places
<1>5. ReadInOrder' /\ CacheHoldsReadings'
  BY <1>0 DEF BridgeInv, ReadInOrder, CacheHoldsReadings
<1>6. NothingSaidYet' /\ FailedWasRetried'
  BY <1>0, <1>1, <1>2 DEF NothingSaidYet, FailedWasRetried
<1>7. WrittenIsStored'
  <2>1. Parses(readings)' = Parses(readings) /\ Content(readings)' = Content(readings)
    BY <1>0 DEF Parses, Content
  <2> QED
    BY <1>0, <1>2, <2>1 DEF WrittenIsStored
<1>8. OlderDownstream'
  BY <1>0, ContentIsCached DEF BridgeInv, OlderDownstream, around
<1> QED
  BY <1>4, <1>5, <1>6, <1>7, <1>8 DEF BridgeInv

LEMMA BridgeStutter == BridgeInv /\ UNCHANGED bridgeVars => BridgeInv'
BY DEF BridgeInv, bridgeVars, loop, cycle, data, around, BridgeTypeOK, ReadInOrder,
       CacheHoldsReadings, NothingSaidYet, WrittenIsStored, FailedWasRetried,
       OlderDownstream, Parses, Content

LEMMA BridgeStep == BridgeInv /\ [BridgeNext]_bridgeVars => BridgeInv'
BY OutsideStep, IdleStep, ConnectStep, PollAgainStep, ReadPointStep, PollEndsStep,
   PostStep, BridgeStutter DEF BridgeNext, Gateway

(***************************************************************************)
(* The theorems about the data path.                                       *)
(***************************************************************************)

\* The inductive invariant holds of every state of the gateway's data path.
THEOREM BridgeInvariance == BridgeSpec => []BridgeInv
BY BridgeInitially, BridgeStep, PTL DEF BridgeSpec

\* The cycle's position, its readings and attempts, the cache and the bucket
\* keep their types; the gateway never has a session it takes for closed.
THEOREM BridgeTypeCorrect == BridgeSpec => []BridgeTypeOK
<1>1. BridgeInv => BridgeTypeOK
  BY DEF BridgeInv
<1> QED
  BY <1>1, BridgeInvariance, PTL

\* What southbound_poll_once hands to InfluxDB is what the IT server answers,
\* influx_http_post says of it what is so, and the bucket is never ahead.
THEOREM HistorianAgreement == BridgeSpec => []HistorianAgrees
<1>1. BridgeInv => HistorianAgrees
  <2> SUFFICES ASSUME BridgeInv PROVE HistorianAgrees OBVIOUS
  <2>1. ASSUME written = "ok", NEW i \in DOMAIN readings
        PROVE  readings[i] \in bucket \/ (i = Len(readings) /\ Cut(readings[i]))
    <3>1. readings[i] \in Reading /\ Len(readings) \in Nat /\ i \in 1 .. Len(readings)
      BY DEF BridgeInv, BridgeTypeOK
    <3>2. CASE Cut(readings[i])
      BY <2>1, <3>1, <3>2 DEF BridgeInv, WrittenIsStored, Parses
    <3>3. CASE ~ Cut(readings[i])
      <4>1. [readings[i] EXCEPT !.value = @] = readings[i]
        BY <3>1 DEF Reading
      <4>2. readings[i] \in Content(readings)
        BY <3>3, <4>1 DEF Content
      <4> QED
        BY <2>1, <4>2 DEF BridgeInv, WrittenIsStored
    <3> QED
      BY <3>2, <3>3
  <2> QED
    BY <2>1 DEF HistorianAgrees, BridgeInv, CacheHoldsReadings, FailedWasRetried,
                OlderDownstream
<1> QED
  BY <1>1, BridgeInvariance, PTL

\* read_callback never answers an older value of a point than it did before:
\* every read of a poll sees OT as it is now, and only a read writes the cache.
THEOREM AnswersNeverGoBack ==
  BridgeSpec => [][\A p \in Points : cache[p] <= cache'[p]]_bridgeVars
<1>1. BridgeInv /\ [BridgeNext]_bridgeVars => [\A p \in Points : cache[p] <= cache'[p]]_bridgeVars
  <2> SUFFICES ASSUME BridgeInv, BridgeNext, NEW p \in Points PROVE cache[p] <= cache'[p]
    OBVIOUS
  <2>1. /\ cache[p] \in Values \cup {0} /\ values[p] \in Values /\ cache[p] <= values[p]
        /\ cache \in [Points -> Values \cup {0}]
    BY DEF BridgeInv, BridgeTypeOK, OlderDownstream
  <2>2. cache[p] \in Nat /\ values[p] \in Nat
    BY <2>1 DEF Values
  <2>3. CASE ReadPoint
    <3>1. cache'[p] \in {cache[p], values[p]}
      BY <2>1, <2>3 DEF ReadPoint
    <3> QED
      BY <2>1, <2>2, <3>1
  <2>4. CASE cache' = cache
    BY <2>2, <2>4
  <2>5. ReadPoint \/ cache' = cache
    BY DEF BridgeNext, Outside, Gateway, Change, OtStops, OtStarts, OtIsReady, SessionLost,
           SessionBack, MaterialChanges, Signal, WaitForOt, Boot, InitClient, Connect,
           BeginPoll, PollAgain, PollEnds, Post, Serve, Stop, data
  <2> QED
    BY <2>3, <2>4, <2>5
<1> QED
  BY <1>1, BridgeInvariance, PTL DEF BridgeSpec
===============================================================================
