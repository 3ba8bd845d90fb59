---------------------------- MODULE GatewayBridge ----------------------------
(***************************************************************************)
(* The data path of the DMZ gateway: the entry point, the loop of main.c,  *)
(* the OPC UA client towards OT, the cache, the OPC UA server towards IT   *)
(* and the writer to InfluxDB.  It is one thread: while it connects, reads *)
(* or posts, the server answers nobody.                                    *)
(*                                                                         *)
(* The OPC UA library and InfluxDB are external: a session may be lost at  *)
(* any time, and the library may or may not open it again by itself.       *)
(***************************************************************************)
EXTENDS Naturals, Sequences

CONSTANTS
  Last,         \* the points are 1 .. Last, in the order of the whitelist
  Faulty,       \* points the OT server does not have, or with another type
  Doubles,      \* points of type double
  MaxValue,     \* bound: the values OT's points take
  Long,         \* values whose decimal form does not fit the buffer of a line
  MaxTimeouts   \* bound: requests to OT that time out

Points == 1 .. Last
Values == 1 .. MaxValue
Sides  == {"north", "south"}
Retries == 3                                    \* INFLUX_MAX_RETRIES

ASSUME BridgeAssumption ==
  /\ Last \in Nat \ {0} /\ MaxValue \in Nat \ {0} /\ MaxTimeouts \in Nat
  /\ Faulty \subseteq Points /\ Doubles \subseteq Points
  /\ Long \subseteq Values

VARIABLES
  place,      \* where the gateway is
  running,    \* no signal has been received
  connected,  \* what main takes the OT connection for
  nsIdx,      \* index of OT's namespace, as found when connecting
  next,       \* the point to be read
  readings,   \* what was read in this cycle, oldest first
  attempt,    \* posts of this batch
  written,    \* what the writer said of the batch
  cache,      \* what the IT server answers, 0: it has no value
  bucket,     \* InfluxDB's readings; value 0: a number cut short
  ot, index,  \* the OT server, and its namespace's index
  values,     \* [Points -> Values] in OT
  session,    \* the library's session with OT
  material,   \* the sides whose certificates and keys can be read
  timeouts

loop   == <<running, connected, nsIdx>>
cycle  == <<next, readings, attempt, written>>
data   == <<cache, bucket>>
around == <<ot, index, values, material>>
bridgeVars == <<place, loop, cycle, data, around, session, timeouts>>

Reading == [point : Points, value : Values]
Places  == {"waiting", "boot", "top", "connect", "poll", "post", "serve", "ended"}

BridgeTypeOK ==
  /\ place \in Places /\ running \in BOOLEAN /\ connected \in BOOLEAN
  /\ nsIdx \in 0 .. 2 /\ next \in 1 .. Last + 1
  /\ readings \in Seq(Reading) /\ Len(readings) <= next - 1
  /\ attempt \in 0 .. Retries /\ written \in {"nothing", "ok", "failed"}
  /\ cache \in [Points -> Values \cup {0}]
  /\ bucket \subseteq [point : Points, value : Values \cup {0}]
  /\ ot \in {"down", "starting", "ready"} /\ index \in 1 .. 2
  /\ values \in [Points -> Values]
  /\ session \in {"none", "open", "lost"} /\ material \subseteq Sides
  /\ session # "none" => connected
  /\ timeouts \in 0 .. MaxTimeouts

BridgeInit ==
  /\ place = "waiting" /\ running = TRUE /\ connected = FALSE /\ nsIdx = 0
  /\ next = 1 /\ readings = <<>> /\ attempt = 0 /\ written = "nothing"
  /\ cache = [p \in Points |-> 0] /\ bucket = {}
  /\ ot \in {"down", "ready"} /\ index = 1 /\ values = [p \in Points |-> 1]
  /\ session = "none" /\ material \in SUBSET Sides
  /\ timeouts = 0

TimesOut == timeouts < MaxTimeouts /\ timeouts' = timeouts + 1

(***************************************************************************)
(* OT, the files GDS manages, and the operator.                            *)
(***************************************************************************)
\* OT's points only ever move on; MaxValue bounds them.
Change(p) ==
  /\ values[p] < MaxValue
  /\ values' = [values EXCEPT ![p] = @ + 1]
  /\ UNCHANGED <<place, loop, cycle, data, ot, index, material, session, timeouts>>

OtStops ==
  /\ ot # "down"
  /\ ot' = "down"
  /\ session' = IF session = "open" THEN "lost" ELSE session
  /\ UNCHANGED <<place, loop, cycle, data, index, values, material, timeouts>>

\* The port is open before the namespace is there, and its index may differ.
OtStarts ==
  /\ ot = "down"
  /\ ot' = "starting"
  /\ index' \in 1 .. 2
  /\ UNCHANGED <<place, loop, cycle, data, values, material, session, timeouts>>

OtIsReady ==
  /\ ot = "starting"
  /\ ot' = "ready"
  /\ UNCHANGED <<place, loop, cycle, data, index, values, material, session, timeouts>>

SessionLost ==
  /\ session = "open"
  /\ session' = "lost"
  /\ UNCHANGED <<place, loop, cycle, data, around, timeouts>>

\* The library opens the session again, or does not.
SessionBack ==
  /\ session = "lost" /\ ot # "down"
  /\ session' = "open"
  /\ UNCHANGED <<place, loop, cycle, data, around, timeouts>>

\* The lifecycle loop rewrites the files in place.
MaterialChanges ==
  /\ \E side \in Sides :
       material' = IF side \in material THEN material \ {side} ELSE material \cup {side}
  /\ UNCHANGED <<place, loop, cycle, data, ot, index, values, session, timeouts>>

\* SIGTERM ends the entry point, and tells the gateway to leave its loop.
Signal ==
  /\ running /\ place # "ended"
  /\ running' = FALSE
  /\ place' = IF place = "waiting" THEN "ended" ELSE place
  /\ UNCHANGED <<connected, nsIdx, cycle, data, around, session, timeouts>>

(***************************************************************************)
(* Starting.                                                               *)
(***************************************************************************)
\* entrypoint.sh waits for OT's port before it starts anything.
WaitForOt ==
  /\ place = "waiting" /\ ot # "down"
  /\ place' = "boot"
  /\ UNCHANGED <<loop, cycle, data, around, session, timeouts>>

\* Without certificate, key and trust list there is no northbound server.
NorthboundInit == "north" \in material

\* The start-up exchange with GDS may fail before it; either ends the gateway.
Boot ==
  /\ place = "boot"
  /\ \/ NorthboundInit /\ place' = "top"
     \/ place' = "ended"
  /\ UNCHANGED <<loop, cycle, data, around, session, timeouts>>

(***************************************************************************)
(* The loop.                                                               *)
(***************************************************************************)
Stop ==
  /\ place = "top" /\ ~running
  /\ place' = "ended"
  /\ connected' = FALSE /\ session' = "none"
  /\ UNCHANGED <<running, nsIdx, cycle, data, around, timeouts>>

\* southbound_init; failed, the loop sleeps and begins again.
InitClient ==
  /\ place = "top" /\ running /\ ~connected
  /\ place' = IF "south" \in material THEN "connect" ELSE "top"
  /\ UNCHANGED <<loop, cycle, data, around, session, timeouts>>

\* Mutant: the batch of the last cycle is still there.
BeginPollAgain ==
  /\ place' = "poll"
  /\ next' = 1 /\ attempt' = 0 /\ written' = "nothing" /\ UNCHANGED readings

BeginPoll ==
  /\ place' = "poll"
  /\ next' = 1 /\ readings' = <<>> /\ attempt' = 0 /\ written' = "nothing"

\* southbound_connect; a client that fails is cleared.
Connect ==
  /\ place = "connect"
  /\ \/ /\ ot = "ready"
        /\ connected' = TRUE /\ session' = "open" /\ nsIdx' = index
        /\ BeginPoll
        /\ UNCHANGED timeouts
     \/ /\ \/ ot # "ready" /\ UNCHANGED timeouts
           \/ TimesOut
        /\ place' = "top"
        /\ UNCHANGED <<connected, nsIdx, session, cycle>>
  /\ UNCHANGED <<running, data, around>>

PollAgain ==
  /\ place = "top" /\ running /\ connected
  /\ BeginPoll
  /\ UNCHANGED <<loop, data, around, session, timeouts>>

CanRead(p) == session = "open" /\ ot = "ready" /\ nsIdx = index /\ p \notin Faulty

\* A point that cannot be read is skipped and keeps its cached value.
ReadPoint ==
  /\ place = "poll" /\ next <= Last
  /\ \/ /\ CanRead(next)
        /\ cache' = [cache EXCEPT ![next] = values[next]]
        /\ readings' = Append(readings, [point |-> next, value |-> values[next]])
        /\ UNCHANGED timeouts
     \/ /\ \/ ~CanRead(next) /\ UNCHANGED timeouts
           \/ TimesOut
        /\ UNCHANGED <<cache, readings>>
  /\ next' = next + 1
  /\ UNCHANGED <<place, loop, attempt, written, bucket, around, session>>

\* Mutant: a poll in which a point could not be read has failed.
PollEndsStrict ==
  /\ place = "poll" /\ next > Last
  /\ IF Len(readings) < Last
     THEN place' = "top" /\ connected' = FALSE /\ session' = "none"
     ELSE place' = "post" /\ UNCHANGED <<connected, session>>
  /\ UNCHANGED <<running, nsIdx, cycle, data, around, timeouts>>

\* southbound_poll_once returns 1, whatever the reads did.
PollEnds ==
  /\ place = "poll" /\ next > Last
  /\ place' = IF readings = <<>> THEN "serve" ELSE "post"
  /\ UNCHANGED <<loop, cycle, data, around, session, timeouts>>

\* The buffer of a line cuts a long number and the end of the line with it.
Cut(r) == r.point \in Doubles /\ r.value \in Long

\* A line without its end runs into the next, unless it is the last.
Parses(b) == \A i \in 1 .. Len(b) - 1 : ~Cut(b[i])

Content(b) == {[b[i] EXCEPT !.value = IF Cut(b[i]) THEN 0 ELSE @] : i \in DOMAIN b}

\* Mutant: any answer is a success.
PostAnswered ==
  /\ place = "post" /\ attempt < Retries
  /\ attempt' = attempt + 1
  /\ \/ /\ Parses(readings)
        /\ bucket' = bucket \cup Content(readings)
     \/ UNCHANGED bucket
  /\ written' = "ok" /\ place' = "serve"
  /\ UNCHANGED <<loop, next, readings, cache, around, session, timeouts>>

\* Mutant: a batch is posted until InfluxDB accepts it.
PostUntilWritten ==
  /\ place = "post"
  /\ attempt' = IF attempt < Retries THEN attempt + 1 ELSE 1
  /\ \/ /\ Parses(readings)
        /\ bucket' = bucket \cup Content(readings)
        /\ written' = "ok" /\ place' = "serve"
     \/ UNCHANGED <<bucket, written, place>>
  /\ UNCHANGED <<loop, next, readings, cache, around, session, timeouts>>

\* influx_http_post: written, written without an answer, or refused.
Post ==
  /\ place = "post" /\ attempt < Retries
  /\ attempt' = attempt + 1
  /\ \/ /\ Parses(readings)
        /\ bucket' = bucket \cup Content(readings)
        /\ written' = "ok" /\ place' = "serve"
     \/ /\ \/ Parses(readings) /\ bucket' = bucket \cup Content(readings)
           \/ UNCHANGED bucket
        /\ IF attempt' = Retries
           THEN written' = "failed" /\ place' = "serve"
           ELSE UNCHANGED <<written, place>>
  /\ UNCHANGED <<loop, next, readings, cache, around, session, timeouts>>

\* The heartbeat, and one turn of the northbound server.
Serve ==
  /\ place = "serve"
  /\ place' = "top"
  /\ UNCHANGED <<loop, cycle, data, around, session, timeouts>>

Outside ==
  \/ \E p \in Points \ Faulty : Change(p)
  \/ OtStops \/ OtStarts \/ OtIsReady
  \/ SessionLost \/ SessionBack
  \/ MaterialChanges \/ Signal

Gateway ==
  \/ WaitForOt \/ Boot
  \/ InitClient \/ Connect
  \/ PollAgain \/ ReadPoint \/ PollEnds \/ Post
  \/ Serve
  \/ Stop

BridgeNext == Outside \/ Gateway

\* Every call the gateway makes returns: reads and posts have timeouts, the
\* sleeps end.  Nothing is assumed of OT, of InfluxDB or of the operator.
Fairness == WF_bridgeVars(Gateway)

BridgeSpec == BridgeInit /\ [][BridgeNext]_bridgeVars /\ Fairness

(***************************************************************************)
(* Properties.                                                             *)
(***************************************************************************)
\* What a cycle hands to InfluxDB is what the IT server answers meanwhile; a
\* batch reported as written is in the bucket, but for a last line that was
\* cut; one reported as failed was posted three times; and nothing in the
\* bucket is newer than what the IT server answers
\* (southbound_poll_once, influx_http_post, append_line_to_batch).
HistorianAgrees ==
  /\ place \in {"poll", "post", "serve"} =>
       \A i \in DOMAIN readings : cache[readings[i].point] = readings[i].value
  /\ written = "ok" => \A i \in DOMAIN readings :
       readings[i] \in bucket \/ (i = Len(readings) /\ Cut(readings[i]))
  /\ written = "failed" => attempt = Retries
  /\ \A r \in bucket : r.value <= cache[r.point]

\* If OT and the files stay there, the IT server answers again and again,
\* points that cannot be read and an InfluxDB that never answers
\* notwithstanding, until a signal or a start that fails ends the gateway (main,
\* southbound_poll_once, influx_http_post).
KeepsAnswering ==
  <>[](ot = "ready" /\ "south" \in material) => []<>(place = "serve") \/ <>[](place = "ended")

\* While the session is open and OT's namespace is where it was found when
\* connecting, the IT server's value of a readable point follows OT's
\* (southbound_poll_once, cache_set_bool, read_callback).
FollowsOt ==
  \A p \in Points \ Faulty : \A v \in Values :
    <>[](session = "open" /\ ot = "ready" /\ nsIdx = index /\ values[p] = v) =>
      <>[](cache[p] = v)
=============================================================================
