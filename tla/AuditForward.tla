----------------------------- MODULE AuditForward -----------------------------
(***************************************************************************)
(* Forwarding the GDS audit trail to the DMZ collector.  Every request     *)
(* thread inserts audit rows in transactions of its own; the sender thread *)
(* polls the rows above its cursor and posts them once.                    *)
(*                                                                         *)
(* A row gets its id from the table's sequence at INSERT and is seen only  *)
(* after the commit, so ids may become visible out of order.               *)
(***************************************************************************)
EXTENDS Naturals, FiniteSets

CONSTANTS
  Rows,        \* ids of table audit_events
  BatchSize,   \* dmz_collector_batch_size, at least 1
  MaxFaults    \* bound: senders that fail to start well, and restarts

ASSUME ForwardAssumption ==
  /\ IsFiniteSet(Rows)
  /\ Rows = 1 .. Cardinality(Rows)
  /\ BatchSize \in Nat \ {0}
  /\ MaxFaults \in Nat

VARIABLES
  \* table audit_events
  lastId,     \* the sequence
  open,       \* rows inserted in a transaction that has not ended
  committed,
  \* the sender thread
  at, cursor,
  batch,      \* the rows of this tick
  \* the collector
  received,   \* the rows it was posted
  \* accounting
  skipped,    \* rows the cursor was initialised past
  overtaken,  \* rows committed when the cursor was past them
  lost,       \* rows read by a tick whose post did not deliver them
  blind,      \* a sender could not initialise its cursor
  faults

table  == <<lastId, open, committed>>
causes == <<skipped, overtaken, lost, blind>>
vars   == <<table, at, cursor, batch, received, causes, faults>>

TypeOK ==
  /\ lastId \in {0} \cup Rows
  /\ open \subseteq 1 .. lastId
  /\ committed \subseteq 1 .. lastId
  /\ at \in {"init", "tick", "send"}
  /\ cursor \in 0 .. lastId
  /\ batch \subseteq committed /\ Cardinality(batch) <= BatchSize
  /\ received \subseteq committed
  /\ skipped \cup overtaken \cup lost \subseteq committed
  /\ blind \in BOOLEAN
  /\ faults \in 0 .. MaxFaults

Init ==
  /\ lastId = 0 /\ open = {} /\ committed = {}
  /\ at = "init" /\ cursor = 0 /\ batch = {}
  /\ received = {}
  /\ skipped = {} /\ overtaken = {} /\ lost = {}
  /\ blind = FALSE
  /\ faults = 0

Fault == /\ faults < MaxFaults
         /\ faults' = faults + 1

(***************************************************************************)
(* The request threads.                                                    *)
(***************************************************************************)
Insert ==
  /\ lastId + 1 \in Rows
  /\ lastId' = lastId + 1
  /\ open' = open \cup {lastId'}
  /\ UNCHANGED <<committed, at, cursor, batch, received, causes, faults>>

Commit(i) ==
  /\ i \in open
  /\ open' = open \ {i}
  /\ committed' = committed \cup {i}
  /\ overtaken' = IF i <= cursor THEN overtaken \cup {i} ELSE overtaken
  /\ UNCHANGED <<lastId, at, cursor, batch, received, skipped, lost, blind, faults>>

\* The connection breaks: the id is never used.
Abort(i) ==
  /\ i \in open
  /\ open' = open \ {i}
  /\ UNCHANGED <<lastId, committed, at, cursor, batch, received, causes, faults>>

(***************************************************************************)
(* The sender thread.                                                      *)
(***************************************************************************)
NoneAbove(i, S) == \A j \in S : j <= i

\* The cursor starts at the newest row, at 0 if there is none.
InitCursor ==
  /\ at = "init"
  /\ at' = "tick"
  /\ cursor' \in {0} \cup committed
  /\ NoneAbove(cursor', {0} \cup committed)
  /\ skipped' = skipped \cup {i \in committed : i <= cursor'}
  /\ UNCHANGED <<table, batch, received, overtaken, lost, blind, faults>>

\* The query fails: the cursor stays at 0.
InitCursorFails ==
  /\ at = "init"
  /\ Fault
  /\ at' = "tick"
  /\ blind' = TRUE
  /\ UNCHANGED <<table, cursor, batch, received, skipped, overtaken, lost>>

After(i) == {j \in committed : j > i}

\* Mutant: ORDER BY id DESC LIMIT n, sorted afterwards.
NewestOf(S) == {j \in S : Cardinality({k \in S : k > j}) < BatchSize}

\* Mutant: no LIMIT.
AllOf(S) == S

\* ORDER BY id ASC LIMIT n
OldestOf(S) == {j \in S : Cardinality({k \in S : k < j}) < BatchSize}

\* Mutant: id >= cursor.
PollFrom ==
  /\ at = "tick"
  /\ LET rows == OldestOf(After(cursor) \cup ({cursor} \cap committed))
     IN  /\ rows # {}
         /\ batch' = rows
         /\ cursor' \in rows
         /\ NoneAbove(cursor', rows)
  /\ at' = "send"
  /\ UNCHANGED <<table, received, causes, faults>>

\* Mutant: a tick waits for a full batch.
PollFull ==
  /\ at = "tick"
  /\ LET rows == OldestOf(After(cursor))
     IN  /\ Cardinality(rows) = BatchSize
         /\ batch' = rows
         /\ cursor' \in rows
         /\ NoneAbove(cursor', rows)
  /\ at' = "send"
  /\ UNCHANGED <<table, received, causes, faults>>

\* The cursor moves on before anything is sent.
Poll ==
  /\ at = "tick"
  /\ LET rows == OldestOf(After(cursor))
     IN  /\ rows # {}
         /\ batch' = rows
         /\ cursor' \in rows
         /\ NoneAbove(cursor', rows)
  /\ at' = "send"
  /\ UNCHANGED <<table, received, causes, faults>>

\* The tick sends some rows of its batch.
Deliver(rows) ==
  /\ at = "send"
  /\ at' = "tick"
  /\ received' = received \cup rows
  /\ lost' = lost \cup (batch \ rows)
  /\ batch' = {}
  /\ UNCHANGED <<table, cursor, skipped, overtaken, blind, faults>>

\* Rows are sent by id, as many as fit in the payload limit, at least one.
Send == \E last \in batch : Deliver({i \in batch : i <= last})

\* The health check of the tick raises, there is no token, or the collector does
\* not get the post.  (When only its answer is lost, the rows are delivered: Send.)
SendFails == Deliver({})

\* The process restarts, and its transactions break off.
Restart ==
  /\ Fault
  /\ at' = "init" /\ cursor' = 0 /\ batch' = {}
  /\ lost' = lost \cup batch
  /\ open' = {}
  /\ UNCHANGED <<lastId, committed, received, skipped, overtaken, blind>>

Sender == InitCursor \/ Poll \/ Send \/ SendFails

Next ==
  \/ Insert
  \/ \E i \in Rows : Commit(i) \/ Abort(i)
  \/ Sender
  \/ InitCursorFails
  \/ Restart

\* The sender's loop never ends.
Spec == Init /\ [][Next]_vars /\ WF_vars(Sender)

(***************************************************************************)
(* Properties.                                                             *)
(***************************************************************************)
\* No row is posted twice, and none after a younger one: what a tick is about to
\* send is younger than all the collector has, unless a sender had to begin
\* without a cursor.
OnceInOrder ==
  blind \/ \A i \in batch, j \in received : j < i

\* The cursor passes no row without sending it, except for the known reasons:
\* it was there before the sender, it was committed after a younger row had
\* been read, or the post that carried it failed.  LIMIT leaves no gap.
NoSilentLoss ==
  at # "init" =>
    \A i \in committed :
      i <= cursor => i \in received \cup batch \cup skipped \cup overtaken \cup lost

\* However many rows are waiting, the sender catches up.
CatchesUp == []<>(at = "tick" /\ After(cursor) = {})
===============================================================================
