------------------------------ MODULE TraceSink ------------------------------
(***************************************************************************)
(* From a hop to a row: the trace producer of a process that runs hops     *)
(* (packages/orchestrator/src/trace.ts), one partition of the Kafka log it *)
(* publishes to, and the sink's readers (apps/sink/src/index.ts), which    *)
(* upsert every event into a table by its natural key                      *)
(* (packages/db/src/traces.ts).                                            *)
(*                                                                         *)
(* A key is the natural key of a row: trace and hop for `traces`, trace    *)
(* for `turns`.  A retried hop emits an event for each attempt, so a key   *)
(* can have several events.  An upsert updates some columns of a row and   *)
(* leaves the others as they were inserted: a row is the log position its  *)
(* updated columns came from (`last`) and that of the others (`kept`).     *)
(*                                                                         *)
(* Two readers share the table: the live sink, whose consumer group        *)
(* remembers its offset, and a backfill, whose group is new every time and *)
(* starts at offset 0.                                                     *)
(***************************************************************************)
EXTENDS Integers, Sequences, FiniteSets

CONSTANTS
  Key,        \* natural keys of rows
  MaxEvents,  \* bound: events the hops emit
  MaxFaults   \* bound: outages, restarts, failed writes and bad events, together

ASSUME SinkConstants ==
  /\ MaxEvents \in Nat
  /\ MaxFaults \in Nat

VARIABLES
  link,     \* the process's connection to Kafka: producer and connecting
  waiting,  \* events whose publish awaits the connection
  sending,  \* events handed to the connected producer
  lost,     \* events whose publish has failed, or died with the process
  emitted,  \* how many events the hops have emitted
  log,      \* the partition
  group,    \* the committed offset of the group svara-sink, or NoOffset
  reader,   \* [Reader -> a sink process: is it on, has it ever run, how far is it]
  table,    \* [Key -> row]
  written,  \* (history) log positions some reader has upserted
  dropped,  \* (history) log positions some reader has given up
  missed,   \* (history) log positions passed without a write since the last
            \* backfill began
  base,     \* (history) where the live group began
  faults    \* (bound) how much has gone wrong

producerVars == <<link, waiting, sending, lost, emitted>>
sinkVars     == <<group, reader, table, written, dropped, missed, base>>
vars == <<producerVars, log, sinkVars, faults>>

-----------------------------------------------------------------------------
Reader   == {"live", "backfill"}
NoOffset == -1

\* ok: is the event one that JSON.parse and the table's constraints accept?
Event == [n : 1..MaxEvents, key : Key, ok : BOOLEAN]

Row   == [kept : Nat, last : Nat]
NoRow == [kept |-> 0, last |-> 0]

ReaderState == [on : BOOLEAN, ran : BOOLEAN, pos : Nat]

TypeOK ==
  /\ link \in {"none", "connecting", "up", "rejected"}
  /\ waiting \subseteq Event
  /\ sending \subseteq Event
  /\ lost \subseteq Event
  /\ emitted \in 0..MaxEvents
  /\ log \in Seq(Event)
  /\ group \in Nat \cup {NoOffset}
  /\ reader \in [Reader -> ReaderState]
  /\ table \in [Key -> Row]
  /\ written \subseteq Nat
  /\ dropped \subseteq Nat
  /\ missed \subseteq Nat
  /\ base \in Nat
  /\ faults \in 0..MaxFaults

Init ==
  /\ link = "none"
  /\ waiting = {}
  /\ sending = {}
  /\ lost = {}
  /\ emitted = 0
  /\ log = << >>
  /\ group = NoOffset
  /\ reader = [c \in Reader |-> [on |-> FALSE, ran |-> FALSE, pos |-> 0]]
  /\ table = [k \in Key |-> NoRow]
  /\ written = {}
  /\ dropped = {}
  /\ missed = {}
  /\ base = 0
  /\ faults = 0

Fault == faults < MaxFaults /\ faults' = faults + 1

-----------------------------------------------------------------------------
(* The producer: getProducer and publish. *)

\* (mutant) a publish that finds the connection being made gives up
AwaitsUnlessConnecting == {"none"}

\* The states of the link in which a publish waits for the connection.
Awaits == {"none", "connecting"}

\* emitTrace, emitTurn: the first publish connects, the next ones share the
\* attempt, and all of them fail with an attempt that was rejected, for good.
Emit ==
  /\ emitted < MaxEvents
  /\ emitted' = emitted + 1
  /\ \E k \in Key, ok \in BOOLEAN :
       LET event == [n |-> emitted + 1, key |-> k, ok |-> ok]
       IN /\ IF ok THEN UNCHANGED faults ELSE Fault
          /\ waiting' = IF link \in Awaits THEN waiting \cup {event} ELSE waiting
          /\ sending' = IF link = "up" THEN sending \cup {event} ELSE sending
          /\ lost' = IF link \in Awaits \cup {"up"} THEN lost ELSE lost \cup {event}
  /\ link' = IF link = "none" THEN "connecting" ELSE link
  /\ UNCHANGED <<log, sinkVars>>

ProducerConnects ==
  /\ link = "connecting"
  /\ link' = "up"
  /\ sending' = sending \cup waiting
  /\ waiting' = {}
  /\ UNCHANGED <<lost, emitted, log, sinkVars, faults>>

ProducerRejected ==
  /\ link = "connecting"
  /\ Fault
  /\ link' = "rejected"
  /\ lost' = lost \cup waiting
  /\ waiting' = {}
  /\ UNCHANGED <<sending, emitted, log, sinkVars>>

\* The broker appends the event; if its answer is lost the producer sends again.
SendArrives ==
  /\ \E event \in sending :
       /\ log' = Append(log, event)
       /\ \/ sending' = sending \ {event} /\ UNCHANGED faults
          \/ Fault /\ UNCHANGED sending
  /\ UNCHANGED <<link, waiting, lost, emitted, sinkVars>>

SendFails ==
  /\ Fault
  /\ \E event \in sending : sending' = sending \ {event} /\ lost' = lost \cup {event}
  /\ UNCHANGED <<link, waiting, emitted, log, sinkVars>>

\* The process that runs the hops is restarted (closeTraceProducer, or a crash).
ProducerExits ==
  /\ link # "none"
  /\ Fault
  /\ link' = "none"
  /\ lost' = lost \cup waiting \cup sending
  /\ waiting' = {}
  /\ sending' = {}
  /\ UNCHANGED <<emitted, log, sinkVars>>

-----------------------------------------------------------------------------
(* The sink. *)

\* Where a reader starts: a group with no offset starts at the end of the log,
\* unless it was told --from-start.
StartsAt(c) == IF c = "backfill" THEN 0
               ELSE IF group = NoOffset THEN Len(log) ELSE group

\* What a start at that position leaves unread since the last backfill began.
Skips(c) == IF c = "backfill" THEN {} ELSE missed \cup (reader[c].pos + 1 .. StartsAt(c))

SinkStarts(c) ==
  /\ ~reader[c].on
  /\ reader' = [reader EXCEPT ![c] = [on |-> TRUE, ran |-> TRUE, pos |-> StartsAt(c)]]
  /\ missed' = Skips(c)
  /\ base' = IF c = "live" /\ group = NoOffset THEN Len(log) ELSE base
  /\ UNCHANGED <<producerVars, log, group, table, written, dropped, faults>>

\* (mutant) ON CONFLICT DO NOTHING
InsertOnly(row, i) == IF row = NoRow THEN [kept |-> i, last |-> i] ELSE row

\* insertTrace and insertTurn: insert, or update the columns the statement names.
Upsert(row, i) == IF row = NoRow THEN [kept |-> i, last |-> i] ELSE [row EXCEPT !.last = i]

\* The event after the last one read.
Next1(c)   == reader[c].pos + 1
Reads(c)   == reader[c].on /\ reader[c].pos < Len(log)
Advance(c) == reader' = [reader EXCEPT ![c].pos = Next1(c)]

\* eachMessage, and the write succeeds.
SinkWrites(c) ==
  /\ Reads(c)
  /\ log[Next1(c)].ok
  /\ table' = [table EXCEPT ![log[Next1(c)].key] = Upsert(@, Next1(c))]
  /\ written' = written \cup {Next1(c)}
  /\ Advance(c)
  /\ UNCHANGED <<producerVars, log, group, dropped, missed, base, faults>>

\* (mutant) the error is thrown on, and the message is read again
Stalls(c) == UNCHANGED reader

\* The offset moves past an event that could not be written.
Passes(c) == Advance(c)

\* eachMessage, and the write throws: a bad event, or Postgres failing.
SinkDrops(c) ==
  /\ Reads(c)
  /\ IF log[Next1(c)].ok THEN Fault ELSE UNCHANGED faults
  /\ missed' = missed \cup {Next1(c)}
  /\ dropped' = dropped \cup {Next1(c)}
  /\ Passes(c)
  /\ UNCHANGED <<producerVars, log, group, table, written, base>>

\* (mutant) offsets are committed as messages are fetched
OffsetFetched == IF Reads("live") THEN Next1("live") ELSE reader["live"].pos

\* Offsets are resolved when eachMessage has returned.
OffsetResolved == reader["live"].pos

\* kafkajs commits what has been read, from time to time.
SinkCommits ==
  /\ reader["live"].on
  /\ group' = OffsetResolved
  /\ UNCHANGED <<producerVars, log, reader, table, written, dropped, missed, base, faults>>

\* shutdown, or a crash.
SinkStops(c) ==
  /\ reader[c].on
  /\ Fault
  /\ reader' = [reader EXCEPT ![c].on = FALSE]
  /\ UNCHANGED <<producerVars, log, group, table, written, dropped, missed, base>>

-----------------------------------------------------------------------------
Next ==
  \/ Emit \/ ProducerConnects \/ ProducerRejected
  \/ SendArrives \/ SendFails \/ ProducerExits
  \/ \E c \in Reader : SinkStarts(c) \/ SinkWrites(c) \/ SinkDrops(c) \/ SinkStops(c)
  \/ SinkCommits

Spec == Init /\ [][Next]_vars

\* The live sink is started again when it stops, and its consumer keeps reading.
Fairness == /\ WF_vars(SinkStarts("live"))
            /\ WF_vars(SinkWrites("live") \/ SinkDrops("live"))

FairSpec == Spec /\ Fairness

-----------------------------------------------------------------------------
(* Properties. *)

\* Position i holds the newest event of its key.
Newest(i) == \A j \in 1..Len(log) : log[j].key = log[i].key => j <= i

ShowsNewest == \A i \in 1..Len(log) : Newest(i) => table[log[i].key].last = i

Handled == written \cup dropped

CaughtUp == \A c \in Reader : reader[c].ran => reader[c].pos = Len(log)

\* While nothing fails every event that the hops emit is on its way or in the log,
\* and in the log once: those emitted while the connection is being made wait for
\* it (getProducer's shared promise).
ExactlyOnceInCalm ==
  faults = 0 =>
    /\ \A n \in 1..emitted : \/ \E event \in waiting \cup sending : event.n = n
                            \/ \E i \in 1..Len(log) : log[i].n = n
    /\ \A i, j \in 1..Len(log) : log[i].n = log[j].n => i = j

\* The committed offset never passes an event that no reader has handled, so a
\* sink that dies loses none (eachMessage returns before its offset is resolved).
NothingSkipped ==
  group # NoOffset => \A i \in 1..Len(log) : base < i /\ i <= group => i \in Handled

\* A backfill that reaches the end of the log repairs the table: whatever was
\* dropped, skipped, read twice or out of date before it began, and whatever the
\* live sink does meanwhile, every row ends with the newest event of its key, if
\* both readers are at the end and neither dropped an event since
\* (the upserts of traces.ts, and the sink's promise of an idempotent replay).
BackfillRepairs ==
  reader["backfill"].ran /\ CaughtUp /\ missed = {} => ShowsNewest

\* Every event in the log is read, unless the live group began behind it: one bad
\* event never holds up those behind it (the catch in eachMessage).
EveryEventIsRead ==
  \A i \in 1..MaxEvents : (i <= Len(log)) ~> (i \in Handled \/ i <= base)

=============================================================================
