--------------------------- MODULE TraceSinkProofs ---------------------------
(***************************************************************************)
(* Theorems about TraceSink, for any keys, any number of events and any    *)
(* number of faults: its types, that no event the live sink has committed  *)
(* past is unhandled, and that a backfill repairs the table.               *)
(***************************************************************************)
EXTENDS TraceSink, TLAPS

-----------------------------------------------------------------------------
(* The inductive invariant. *)

\* A reader has read no further than the log goes, and the live sink has
\* committed no further than it has read.
PositionsInv ==
  /\ \A c \in Reader : reader[c].pos <= Len(log)
  /\ group # NoOffset => group <= reader["live"].pos

\* A reader that is on has been started.
RanInv == \A c \in Reader : reader[c].on => reader[c].ran

\* Whatever the live sink has read since its group began has been handled.
LiveHandled == \A i \in 1..Len(log) : base < i /\ i <= reader["live"].pos => i \in Handled

\* A row shows an event of its own key.
RowsOfTheirKey ==
  \A k \in Key : table[k].last # 0 => /\ table[k].last \in 1..Len(log)
                                      /\ log[table[k].last].key = k

\* Reader c has passed no later event of key k than the one its row shows, other
\* than those it has missed.
UpToDate(c, k) ==
  /\ reader[c].ran
  /\ \A j \in 1..Len(log) :
       table[k].last < j /\ j <= reader[c].pos /\ log[j].key = k => j \in missed

\* Once a backfill has begun, every row has a reader that will bring it up to
\* date if it gets to the end: the one that wrote it last.
SomeoneIsUpToDate ==
  reader["backfill"].ran => \A k \in Key : \E c \in Reader : UpToDate(c, k)

SinkInv ==
  /\ TypeOK
  /\ PositionsInv
  /\ RanInv
  /\ LiveHandled
  /\ RowsOfTheirKey
  /\ SomeoneIsUpToDate

\* Every position of the log holds an event, and every event has a key.
LEMMA LogKeys ==
  ASSUME TypeOK, NEW i \in 1..Len(log)
  PROVE  log[i].key \in Key /\ Len(log) \in Nat
  <1>1. log \in Seq(Event)
    BY DEF TypeOK
  <1>2. log[i] \in Event /\ Len(log) \in Nat
    BY <1>1
  <1> QED BY <1>2 DEF Event

LEMMA InitInv == Init => SinkInv
  <1> SUFFICES ASSUME Init PROVE SinkInv
    OBVIOUS
  <1>1. TypeOK
    BY SinkConstants DEF Init, TypeOK, ReaderState, Row, NoRow, Event, NoOffset
  <1> QED BY <1>1
      DEF Init, SinkInv, PositionsInv, RanInv, LiveHandled, RowsOfTheirKey, SomeoneIsUpToDate,
          Reader, NoRow, NoOffset

-----------------------------------------------------------------------------
(* The producer's steps leave the sink alone; the log only grows. *)

ProducerStep ==
  Emit \/ ProducerConnects \/ ProducerRejected \/ SendArrives \/ SendFails \/ ProducerExits

LEMMA ProducerType ==
  ASSUME TypeOK, ProducerStep
  PROVE  /\ TypeOK'
         /\ UNCHANGED sinkVars
         /\ log' = log \/ \E event \in Event : log' = Append(log, event)
  <1> USE SinkConstants
  <1>1. CASE Emit
    <2>1. PICK k \in Key, ok \in BOOLEAN :
            LET event == [n |-> emitted + 1, key |-> k, ok |-> ok]
            IN /\ IF ok THEN UNCHANGED faults ELSE Fault
               /\ waiting' = IF link \in Awaits THEN waiting \cup {event} ELSE waiting
               /\ sending' = IF link = "up" THEN sending \cup {event} ELSE sending
               /\ lost' = IF link \in Awaits \cup {"up"} THEN lost ELSE lost \cup {event}
      BY <1>1 DEF Emit
    <2> DEFINE event == [n |-> emitted + 1, key |-> k, ok |-> ok]
    <2>2. event \in Event
      BY <1>1 DEF Emit, TypeOK, Event
    <2> HIDE DEF event
    <2>3. waiting' \subseteq Event /\ sending' \subseteq Event /\ lost' \subseteq Event
      BY <2>1, <2>2 DEF TypeOK, event
    <2>4. faults' \in 0..MaxFaults
      BY <2>1 DEF TypeOK, Fault
    <2>5. emitted' \in 0..MaxEvents /\ link' \in {"none", "connecting", "up", "rejected"}
      BY <1>1 DEF Emit, TypeOK
    <2>6. UNCHANGED <<log, sinkVars>>
      BY <1>1 DEF Emit
    <2> QED BY <2>3, <2>4, <2>5, <2>6 DEF TypeOK, sinkVars
  <1>2. CASE ProducerConnects
    BY <1>2 DEF ProducerConnects, TypeOK, sinkVars
  <1>3. CASE ProducerRejected
    BY <1>3 DEF ProducerRejected, TypeOK, sinkVars, Fault
  <1>4. CASE SendArrives
    <2>1. PICK event \in sending :
            /\ log' = Append(log, event)
            /\ \/ sending' = sending \ {event} /\ UNCHANGED faults
               \/ Fault /\ UNCHANGED sending
      BY <1>4 DEF SendArrives
    <2>2. event \in Event /\ log' \in Seq(Event)
      BY <2>1 DEF TypeOK
    <2>3. sending' \subseteq Event /\ faults' \in 0..MaxFaults
      BY <2>1 DEF TypeOK, Fault
    <2>4. UNCHANGED <<link, waiting, lost, emitted, sinkVars>>
      BY <1>4 DEF SendArrives
    <2> QED BY <2>1, <2>2, <2>3, <2>4 DEF TypeOK, sinkVars
  <1>5. CASE SendFails
    BY <1>5 DEF SendFails, TypeOK, sinkVars, Fault
  <1>6. CASE ProducerExits
    BY <1>6 DEF ProducerExits, TypeOK, sinkVars, Fault
  <1> QED BY <1>1, <1>2, <1>3, <1>4, <1>5, <1>6 DEF ProducerStep

LEMMA ProducerInv == SinkInv /\ ProducerStep => SinkInv'
  <1> SUFFICES ASSUME SinkInv, ProducerStep PROVE SinkInv'
    OBVIOUS
  <1>1. /\ TypeOK'
        /\ UNCHANGED <<group, reader, table, written, dropped, missed, base>>
        /\ log' = log \/ \E event \in Event : log' = Append(log, event)
    BY ProducerType DEF SinkInv, sinkVars
  <1>2. /\ Len(log) \in Nat /\ Len(log') \in Nat /\ Len(log) <= Len(log')
        /\ \A i \in 1..Len(log) : log'[i] = log[i]
    BY <1>1 DEF SinkInv, TypeOK
  <1>3. \A c \in Reader : reader[c].pos \in Nat /\ reader[c].pos <= Len(log)
    BY DEF SinkInv, TypeOK, PositionsInv, ReaderState
  <1>4. PositionsInv'
    BY <1>1, <1>2, <1>3 DEF SinkInv, PositionsInv
  <1>5. LiveHandled'
    BY <1>1, <1>2, <1>3 DEF SinkInv, LiveHandled, Handled, Reader
  <1>6. RowsOfTheirKey'
    BY <1>1, <1>2 DEF SinkInv, RowsOfTheirKey
  <1>7. SomeoneIsUpToDate'
    <2> SUFFICES ASSUME reader["backfill"].ran, NEW k \in Key
                 PROVE  \E c \in Reader : UpToDate(c, k)'
      BY <1>1 DEF SomeoneIsUpToDate
    <2>1. PICK c \in Reader : UpToDate(c, k)
      BY DEF SinkInv, SomeoneIsUpToDate
    <2>2. \A j \in 1..Len(log') : j <= reader[c].pos => j \in 1..Len(log) /\ log'[j] = log[j]
      BY <1>2, <1>3
    <2>3. UpToDate(c, k)'
      BY <1>1, <2>1, <2>2 DEF UpToDate
    <2> QED BY <2>3
  <1>8. RanInv'
    BY <1>1 DEF SinkInv, RanInv
  <1> QED BY <1>1, <1>4, <1>5, <1>6, <1>7, <1>8 DEF SinkInv

-----------------------------------------------------------------------------
(* The sink's steps. *)

LEMMA StartsInv ==
  ASSUME SinkInv, NEW c \in Reader, SinkStarts(c)
  PROVE  SinkInv'
  <1> DEFINE at == StartsAt(c)
  <1>1. Len(log) \in Nat /\ at \in Nat /\ at <= Len(log)
    BY DEF SinkInv, TypeOK, PositionsInv, StartsAt, Reader, NoOffset, ReaderState
  <1>2. /\ reader' = [reader EXCEPT ![c] = [on |-> TRUE, ran |-> TRUE, pos |-> at]]
        /\ missed' = Skips(c)
        /\ base' = IF c = "live" /\ group = NoOffset THEN Len(log) ELSE base
        /\ UNCHANGED <<producerVars, log, group, table, written, dropped, faults>>
    BY DEF SinkStarts
  <1>3. /\ reader'[c] = [on |-> TRUE, ran |-> TRUE, pos |-> at]
        /\ \A d \in Reader : d # c => reader'[d] = reader[d]
    BY <1>2 DEF SinkInv, TypeOK
  <1>4. TypeOK'
    <2>1. reader' \in [Reader -> ReaderState]
      BY <1>1, <1>2 DEF SinkInv, TypeOK, ReaderState
    <2>2. missed' \subseteq Nat
      <3>1. reader[c].pos + 1 .. at \subseteq Nat
        BY <1>1 DEF SinkInv, TypeOK, ReaderState
      <3> QED BY <1>2, <3>1 DEF SinkInv, TypeOK, Skips
    <2>3. base' \in Nat
      BY <1>1, <1>2 DEF SinkInv, TypeOK
    <2> QED BY <1>2, <2>1, <2>2, <2>3 DEF SinkInv, TypeOK, producerVars
  <1>5. PositionsInv'
    <2>1. group # NoOffset => group <= reader'["live"].pos
      BY <1>1, <1>3 DEF SinkInv, PositionsInv, Reader, StartsAt, TypeOK, NoOffset
    <2> QED BY <1>1, <1>2, <1>3, <2>1 DEF SinkInv, PositionsInv
  <1>6. LiveHandled'
    <2>1. CASE c = "live" /\ group = NoOffset
      BY <1>1, <1>2, <2>1 DEF LiveHandled
    <2>2. CASE c = "live" /\ group # NoOffset
      BY <1>1, <1>2, <1>3, <2>2
      DEF SinkInv, LiveHandled, Handled, PositionsInv, StartsAt, TypeOK, ReaderState, Reader,
          NoOffset
    <2>3. CASE c = "backfill"
      BY <1>2, <1>3, <2>3 DEF SinkInv, LiveHandled, Handled, Reader
    <2> QED BY <2>1, <2>2, <2>3 DEF Reader
  <1>7. RowsOfTheirKey'
    BY <1>2 DEF SinkInv, RowsOfTheirKey
  <1>8. SomeoneIsUpToDate'
    <2> SUFFICES ASSUME reader'["backfill"].ran, NEW k \in Key
                 PROVE  \E d \in Reader : UpToDate(d, k)'
      BY DEF SomeoneIsUpToDate
    <2>1. CASE c = "backfill"
      <3>1. UpToDate("backfill", k)'
        BY <1>2, <1>3, <2>1 DEF UpToDate, StartsAt, SinkInv, TypeOK
      <3> QED BY <3>1 DEF Reader
    <2>2. CASE c = "live"
      <3>1. PICK d \in Reader : UpToDate(d, k)
        BY <1>3, <2>2 DEF SinkInv, SomeoneIsUpToDate, Reader
      <3>2. missed' = missed \cup (reader["live"].pos + 1 .. at)
        BY <1>2, <2>2 DEF Skips
      <3>3. CASE d = "backfill"
        BY <1>2, <1>3, <2>2, <3>1, <3>2, <3>3 DEF UpToDate
      <3>4. CASE d = "live"
        <4>1. reader["live"].pos \in Nat
          BY DEF SinkInv, TypeOK, ReaderState, Reader
        <4>2. \A j \in 1..Len(log) : table[k].last < j /\ j <= at /\ log[j].key = k => j \in missed'
          BY <1>1, <3>1, <3>2, <3>4, <4>1 DEF UpToDate
        <4>3. UpToDate("live", k)'
          BY <1>2, <1>3, <2>2, <4>2 DEF UpToDate
        <4> QED BY <4>3 DEF Reader
      <3> QED BY <3>1, <3>3, <3>4 DEF Reader
    <2> QED BY <2>1, <2>2 DEF Reader
  <1>9. RanInv'
    BY <1>3 DEF SinkInv, RanInv
  <1> QED BY <1>4, <1>5, <1>6, <1>7, <1>8, <1>9 DEF SinkInv

\* Reading an event, whether it is written or dropped.
LEMMA ReadsNext ==
  ASSUME SinkInv, NEW c \in Reader, Reads(c), Advance(c)
  PROVE  /\ Next1(c) \in 1..Len(log) /\ Next1(c) \in Nat
         /\ reader' \in [Reader -> ReaderState]
         /\ reader'[c].pos = Next1(c)
         /\ reader[c].pos \in Nat /\ reader[c].pos = Next1(c) - 1
         /\ \A d \in Reader : /\ d # c => reader'[d] = reader[d]
                              /\ reader'[d].ran = reader[d].ran
                              /\ reader'[d].on = reader[d].on
  <1>1. reader \in [Reader -> ReaderState] /\ Len(log) \in Nat
    BY DEF SinkInv, TypeOK
  <1>2. reader[c] \in ReaderState
    BY <1>1
  <1>3. reader[c].pos \in Nat /\ reader[c].pos < Len(log)
    BY <1>2 DEF Reads, ReaderState
  <1>4. Next1(c) \in Nat /\ Next1(c) \in 1..Len(log) /\ reader[c].pos = Next1(c) - 1
    BY <1>1, <1>3 DEF Next1
  <1>5. [reader[c] EXCEPT !.pos = Next1(c)] \in ReaderState
    BY <1>2, <1>4 DEF ReaderState
  <1>6. reader' = [reader EXCEPT ![c] = [reader[c] EXCEPT !.pos = Next1(c)]]
    BY DEF Advance
  <1>7. /\ reader' \in [Reader -> ReaderState]
        /\ reader'[c] = [reader[c] EXCEPT !.pos = Next1(c)]
        /\ \A d \in Reader : d # c => reader'[d] = reader[d]
    BY <1>1, <1>5, <1>6
  <1>8. /\ reader'[c].pos = Next1(c)
        /\ reader'[c].ran = reader[c].ran
        /\ reader'[c].on = reader[c].on
    BY <1>2, <1>7 DEF ReaderState
  <1> QED BY <1>3, <1>4, <1>7, <1>8

LEMMA WritesInv ==
  ASSUME SinkInv, NEW c \in Reader, SinkWrites(c)
  PROVE  SinkInv'
  <1> DEFINE i == Next1(c)
             key == log[i].key
  <1>1. /\ Reads(c) /\ Advance(c)
        /\ table' = [table EXCEPT ![key] = Upsert(@, i)]
        /\ written' = written \cup {i}
        /\ UNCHANGED <<producerVars, log, group, dropped, missed, base, faults>>
    BY DEF SinkWrites
  <1>2. /\ i \in 1..Len(log) /\ i \in Nat
        /\ reader' \in [Reader -> ReaderState]
        /\ reader'[c].pos = i
        /\ reader[c].pos \in Nat /\ reader[c].pos = i - 1
        /\ \A d \in Reader : /\ d # c => reader'[d] = reader[d]
                             /\ reader'[d].ran = reader[d].ran
                             /\ reader'[d].on = reader[d].on
    BY <1>1, ReadsNext
  <1>3. key \in Key /\ Len(log) \in Nat
    BY <1>2, LogKeys DEF SinkInv
  <1> HIDE DEF i, key
  <1>4. Upsert(table[key], i) \in Row /\ Upsert(table[key], i).last = i
    BY <1>2, <1>3 DEF SinkInv, TypeOK, Row, Upsert
  <1>5. /\ table' \in [Key -> Row]
        /\ table'[key].last = i
        /\ \A k \in Key : k # key => table'[k] = table[k]
    BY <1>1, <1>3, <1>4 DEF SinkInv, TypeOK
  <1>6. TypeOK'
    <2>1. written' \subseteq Nat
      BY <1>1, <1>2 DEF SinkInv, TypeOK
    <2> QED BY <1>1, <1>2, <1>5, <2>1 DEF SinkInv, TypeOK, producerVars
  <1>7. PositionsInv'
    <2>1. group # NoOffset => group <= reader'["live"].pos
      BY <1>2 DEF SinkInv, TypeOK, PositionsInv, Reader, NoOffset
    <2> QED BY <1>1, <1>2, <1>3, <2>1 DEF SinkInv, PositionsInv
  <1>8. LiveHandled'
    <2> SUFFICES ASSUME NEW j \in 1..Len(log), base < j, j <= reader'["live"].pos
                 PROVE  j \in written' \cup dropped
      BY <1>1 DEF LiveHandled, Handled
    <2>1. CASE j = i
      BY <1>1, <2>1
    <2>2. CASE j # i
      <3>1. j <= reader["live"].pos
        BY <1>2, <1>3, <2>2 DEF Reader
      <3> QED BY <1>1, <3>1 DEF SinkInv, LiveHandled, Handled
    <2> QED BY <2>1, <2>2
  <1>9. RowsOfTheirKey'
    BY <1>1, <1>2, <1>5 DEF SinkInv, RowsOfTheirKey, key
  <1>10. SomeoneIsUpToDate'
    <2> SUFFICES ASSUME reader'["backfill"].ran, NEW k \in Key
                 PROVE  \E d \in Reader : UpToDate(d, k)'
      BY DEF SomeoneIsUpToDate
    <2>1. reader["backfill"].ran
      BY <1>2 DEF Reader
    <2>2. CASE k = key
      <3>1. reader'[c].ran
        BY <1>1, <1>2 DEF SinkInv, RanInv, Reads
      <3>2. UpToDate(c, k)'
        BY <1>1, <1>2, <1>3, <1>5, <2>2, <3>1 DEF UpToDate
      <3> QED BY <3>2
    <2>3. CASE k # key
      <3>1. PICK d \in Reader : UpToDate(d, k)
        BY <2>1 DEF SinkInv, SomeoneIsUpToDate
      <3>2. ASSUME NEW j \in 1..Len(log), table[k].last < j, j <= reader'[d].pos, log[j].key = k
            PROVE  j \in missed
        <4>1. j # i
          BY <2>3, <3>2 DEF key
        <4>2. j <= reader[d].pos
          BY <1>2, <1>3, <3>2, <4>1
        <4> QED BY <3>1, <3>2, <4>2 DEF UpToDate
      <3>3. UpToDate(d, k)'
        BY <1>1, <1>2, <1>5, <2>3, <3>1, <3>2 DEF UpToDate
      <3> QED BY <3>3
    <2> QED BY <2>2, <2>3
  <1>11. RanInv'
    BY <1>2 DEF SinkInv, RanInv
  <1> QED BY <1>6, <1>7, <1>8, <1>9, <1>10, <1>11 DEF SinkInv

LEMMA DropsInv ==
  ASSUME SinkInv, NEW c \in Reader, SinkDrops(c)
  PROVE  SinkInv'
  <1> DEFINE i == Next1(c)
  <1>1. /\ Reads(c) /\ Advance(c)
        /\ missed' = missed \cup {i}
        /\ dropped' = dropped \cup {i}
        /\ UNCHANGED <<producerVars, log, group, table, written, base>>
        /\ faults' = faults \/ Fault
    BY DEF SinkDrops, Passes
  <1>2. /\ i \in 1..Len(log) /\ i \in Nat
        /\ reader' \in [Reader -> ReaderState]
        /\ reader'[c].pos = i
        /\ reader[c].pos \in Nat /\ reader[c].pos = i - 1
        /\ \A d \in Reader : /\ d # c => reader'[d] = reader[d]
                             /\ reader'[d].ran = reader[d].ran
                             /\ reader'[d].on = reader[d].on
    BY <1>1, ReadsNext
  <1>3. Len(log) \in Nat
    BY DEF SinkInv, TypeOK
  <1> HIDE DEF i
  <1>4. TypeOK'
    <2>1. missed' \subseteq Nat /\ dropped' \subseteq Nat
      BY <1>1, <1>2 DEF SinkInv, TypeOK
    <2>2. faults' \in 0..MaxFaults
      BY <1>1, SinkConstants DEF SinkInv, TypeOK, Fault
    <2> QED BY <1>1, <1>2, <2>1, <2>2 DEF SinkInv, TypeOK, producerVars
  <1>5. PositionsInv'
    <2>1. group # NoOffset => group <= reader'["live"].pos
      BY <1>2 DEF SinkInv, TypeOK, PositionsInv, Reader, NoOffset
    <2> QED BY <1>1, <1>2, <1>3, <2>1 DEF SinkInv, PositionsInv
  <1>6. RanInv'
    BY <1>2 DEF SinkInv, RanInv
  <1>7. LiveHandled'
    <2> SUFFICES ASSUME NEW j \in 1..Len(log), base < j, j <= reader'["live"].pos
                 PROVE  j \in written \cup dropped'
      BY <1>1 DEF LiveHandled, Handled
    <2>1. CASE j = i
      BY <1>1, <2>1
    <2>2. CASE j # i
      <3>1. j <= reader["live"].pos
        BY <1>2, <1>3, <2>2 DEF Reader
      <3> QED BY <1>1, <3>1 DEF SinkInv, LiveHandled, Handled
    <2> QED BY <2>1, <2>2
  <1>8. RowsOfTheirKey'
    BY <1>1 DEF SinkInv, RowsOfTheirKey
  <1>9. SomeoneIsUpToDate'
    <2> SUFFICES ASSUME reader'["backfill"].ran, NEW k \in Key
                 PROVE  \E d \in Reader : UpToDate(d, k)'
      BY DEF SomeoneIsUpToDate
    <2>1. reader["backfill"].ran
      BY <1>2 DEF Reader
    <2>2. PICK d \in Reader : UpToDate(d, k)
      BY <2>1 DEF SinkInv, SomeoneIsUpToDate
    <2>3. ASSUME NEW j \in 1..Len(log), table[k].last < j, j <= reader'[d].pos, log[j].key = k
          PROVE  j \in missed'
      <3>1. CASE j = i
        BY <1>1, <3>1
      <3>2. CASE j # i
        <4>1. j <= reader[d].pos
          BY <1>2, <1>3, <2>3, <3>2
        <4> QED BY <1>1, <2>2, <2>3, <4>1 DEF UpToDate
      <3> QED BY <3>1, <3>2
    <2>4. UpToDate(d, k)'
      BY <1>1, <1>2, <2>2, <2>3 DEF UpToDate
    <2> QED BY <2>4
  <1> QED BY <1>4, <1>5, <1>6, <1>7, <1>8, <1>9 DEF SinkInv

LEMMA CommitsInv == SinkInv /\ SinkCommits => SinkInv'
  <1> SUFFICES ASSUME SinkInv, SinkCommits PROVE SinkInv'
    OBVIOUS
  <1>1. /\ group' = reader["live"].pos
        /\ UNCHANGED <<producerVars, log, reader, table, written, dropped, missed, base, faults>>
    BY DEF SinkCommits, OffsetResolved
  <1>2. group' \in Nat
    BY <1>1 DEF SinkInv, TypeOK, Reader, ReaderState
  <1>3. TypeOK'
    BY <1>1, <1>2 DEF SinkInv, TypeOK, producerVars
  <1>4. PositionsInv' /\ RanInv'
    BY <1>1, <1>2 DEF SinkInv, PositionsInv, RanInv
  <1>5. LiveHandled' /\ RowsOfTheirKey' /\ SomeoneIsUpToDate'
    BY <1>1 DEF SinkInv, LiveHandled, Handled, RowsOfTheirKey, SomeoneIsUpToDate, UpToDate
  <1> QED BY <1>3, <1>4, <1>5 DEF SinkInv

LEMMA StopsInv ==
  ASSUME SinkInv, NEW c \in Reader, SinkStops(c)
  PROVE  SinkInv'
  <1>1. /\ reader' = [reader EXCEPT ![c].on = FALSE]
        /\ Fault
        /\ UNCHANGED <<producerVars, log, group, table, written, dropped, missed, base>>
    BY DEF SinkStops
  <1>2. /\ reader' \in [Reader -> ReaderState]
        /\ \A d \in Reader : /\ reader'[d].pos = reader[d].pos
                             /\ reader'[d].ran = reader[d].ran
                             /\ reader'[d].on => reader[d].on
    BY <1>1 DEF SinkInv, TypeOK, ReaderState
  <1>3. TypeOK'
    <2>1. faults' \in 0..MaxFaults
      BY <1>1, SinkConstants DEF SinkInv, TypeOK, Fault
    <2> QED BY <1>1, <1>2, <2>1 DEF SinkInv, TypeOK, producerVars
  <1>4. PositionsInv' /\ RanInv'
    BY <1>1, <1>2 DEF SinkInv, PositionsInv, RanInv, Reader
  <1>5. LiveHandled' /\ RowsOfTheirKey'
    BY <1>1, <1>2 DEF SinkInv, LiveHandled, Handled, RowsOfTheirKey, Reader
  <1>6. SomeoneIsUpToDate'
    <2> SUFFICES ASSUME reader'["backfill"].ran, NEW k \in Key
                 PROVE  \E d \in Reader : UpToDate(d, k)'
      BY DEF SomeoneIsUpToDate
    <2>1. PICK d \in Reader : UpToDate(d, k)
      BY <1>2 DEF SinkInv, SomeoneIsUpToDate, Reader
    <2>2. UpToDate(d, k)'
      BY <1>1, <1>2, <2>1 DEF UpToDate
    <2> QED BY <2>2
  <1> QED BY <1>3, <1>4, <1>5, <1>6 DEF SinkInv

LEMMA StutterInv == SinkInv /\ UNCHANGED vars => SinkInv'
  BY DEF SinkInv, vars, producerVars, sinkVars, TypeOK, PositionsInv, RanInv, LiveHandled,
         Handled, RowsOfTheirKey, SomeoneIsUpToDate, UpToDate

\* The inductive invariant holds in every reachable state.
LEMMA SinkInvariant == Spec => []SinkInv
  <1>1. SinkInv /\ [Next]_vars => SinkInv'
    <2> SUFFICES ASSUME SinkInv, [Next]_vars PROVE SinkInv'
      OBVIOUS
    <2>1. CASE ProducerStep
      BY <2>1, ProducerInv
    <2>2. CASE \E c \in Reader : SinkStarts(c) \/ SinkWrites(c) \/ SinkDrops(c) \/ SinkStops(c)
      BY <2>2, StartsInv, WritesInv, DropsInv, StopsInv
    <2>3. CASE SinkCommits
      BY <2>3, CommitsInv
    <2>4. CASE UNCHANGED vars
      BY <2>4, StutterInv
    <2> QED BY <2>1, <2>2, <2>3, <2>4 DEF Next, ProducerStep
  <1> QED BY InitInv, <1>1, PTL DEF Spec

-----------------------------------------------------------------------------
(* The producer while nothing fails. *)

\* Events wait while the connection is being made, and are sent while it is up.
LinkInv == /\ link # "connecting" => waiting = {}
           /\ link # "up" => sending = {}

\* An event on its way or in the log is one that was emitted.
EmittedInv ==
  /\ \A event \in waiting \cup sending : event.n <= emitted
  /\ \A i \in 1..Len(log) : log[i].n <= emitted

\* An event on its way is not in the log yet, and no other event has its number.
InOnePlace ==
  \A event \in waiting \cup sending :
    /\ \A other \in waiting \cup sending : other.n = event.n => other = event
    /\ \A i \in 1..Len(log) : log[i].n # event.n

CalmInv ==
  /\ LinkInv
  /\ EmittedInv
  /\ faults = 0 => link # "rejected" /\ InOnePlace
  /\ ExactlyOnceInCalm

\* A fault is never undone.
LEMMA FaultCounts == TypeOK /\ Fault => faults' # 0
  BY DEF TypeOK, Fault

\* An event joins those on their way.
LEMMA EmitCalm ==
  ASSUME TypeOK, CalmInv, Emit
  PROVE  CalmInv'
  <1>1. PICK k \in Key, ok \in BOOLEAN :
          LET event == [n |-> emitted + 1, key |-> k, ok |-> ok]
          IN /\ IF ok THEN UNCHANGED faults ELSE Fault
             /\ waiting' = IF link \in Awaits THEN waiting \cup {event} ELSE waiting
             /\ sending' = IF link = "up" THEN sending \cup {event} ELSE sending
             /\ lost' = IF link \in Awaits \cup {"up"} THEN lost ELSE lost \cup {event}
    BY DEF Emit
  <1> DEFINE new == [n |-> emitted + 1, key |-> k, ok |-> ok]
             way == waiting \cup sending
             way1 == waiting' \cup sending'
  <1>2. /\ emitted \in Nat /\ emitted' = emitted + 1 /\ log' = log
        /\ link' = IF link = "none" THEN "connecting" ELSE link
        /\ link \in {"none", "connecting", "up", "rejected"}
        /\ \A event \in way : event.n \in Nat
        /\ \A i \in 1..Len(log) : log[i].n \in Nat
    <2>1. way \subseteq Event /\ \A i \in 1..Len(log) : log[i] \in Event
      BY DEF TypeOK
    <2> QED BY <2>1 DEF Emit, TypeOK, Event
  <1>3. new.n = emitted + 1
    OBVIOUS
  <1>4. /\ way1 = way \/ way1 = way \cup {new}
        /\ link # "rejected" => way1 = way \cup {new}
    BY <1>1, <1>2 DEF Awaits
  <1>5. LinkInv'
    BY <1>1, <1>2 DEF CalmInv, LinkInv, Awaits
  <1>6. faults' = 0 => faults = 0
    BY <1>1, FaultCounts
  <1> HIDE DEF new, way, way1
  <1>7. \A event \in way : event.n <= emitted
    BY DEF CalmInv, EmittedInv, way
  <1>8. \A i \in 1..Len(log) : log[i].n <= emitted
    BY DEF CalmInv, EmittedInv
  <1>9. EmittedInv'
    <2>1. \A event \in way1 : event.n <= emitted'
      BY <1>2, <1>3, <1>4, <1>7
    <2>2. \A i \in 1..Len(log) : log[i].n <= emitted'
      BY <1>2, <1>8
    <2> QED BY <1>2, <2>1, <2>2 DEF EmittedInv, way1
  <1>10. faults' = 0 => link' # "rejected" /\ InOnePlace'
    <2> SUFFICES ASSUME faults' = 0 PROVE link' # "rejected" /\ InOnePlace'
      OBVIOUS
    <2>1. link # "rejected" /\ InOnePlace
      BY <1>6 DEF CalmInv
    <2>2. \A event \in way : /\ \A other \in way : other.n = event.n => other = event
                             /\ \A i \in 1..Len(log) : log[i].n # event.n
      BY <2>1 DEF InOnePlace, way
    <2>3. \A event \in way1 : /\ \A other \in way1 : other.n = event.n => other = event
                              /\ \A i \in 1..Len(log) : log[i].n # event.n
      BY <1>2, <1>3, <1>4, <1>7, <1>8, <2>2
    <2> QED BY <1>2, <2>1, <2>3 DEF InOnePlace, way1
  <1>11. ExactlyOnceInCalm'
    <2> SUFFICES ASSUME faults' = 0
                 PROVE  /\ \A n \in 1..emitted' : \/ \E event \in way1 : event.n = n
                                                 \/ \E i \in 1..Len(log) : log[i].n = n
                        /\ \A i, j \in 1..Len(log) : log[i].n = log[j].n => i = j
      BY <1>2 DEF ExactlyOnceInCalm, way1
    <2>1. link # "rejected" /\ ExactlyOnceInCalm
      BY <1>6 DEF CalmInv
    <2>2. new \in way1 /\ way \subseteq way1
      BY <1>4, <2>1
    <2>3. \A n \in 1..emitted' : n \in 1..emitted \/ n = emitted + 1
      BY <1>2
    <2> QED BY <1>3, <1>6, <2>1, <2>2, <2>3 DEF ExactlyOnceInCalm, way
  <1> QED BY <1>5, <1>9, <1>10, <1>11 DEF CalmInv

\* An event goes to the end of the log, and is no longer on its way.
LEMMA ArrivesCalm ==
  ASSUME TypeOK, CalmInv, SendArrives
  PROVE  CalmInv'
  <1>1. PICK event \in sending :
          /\ log' = Append(log, event)
          /\ \/ sending' = sending \ {event} /\ UNCHANGED faults
             \/ Fault /\ UNCHANGED sending
    BY DEF SendArrives
  <1>2. UNCHANGED <<link, waiting, emitted>>
    BY DEF SendArrives
  <1>3. event \in Event /\ log \in Seq(Event)
    BY DEF TypeOK
  <1>4. /\ Len(log') = Len(log) + 1 /\ Len(log) \in Nat
        /\ log'[Len(log) + 1] = event
        /\ \A i \in 1..Len(log) : log'[i] = log[i]
        /\ \A i \in 1..Len(log') : i \in 1..Len(log) \/ i = Len(log) + 1
    BY <1>1, <1>3
  <1>5. LinkInv'
    BY <1>1, <1>2 DEF CalmInv, LinkInv
  <1>6. EmittedInv'
    BY <1>1, <1>2, <1>4 DEF CalmInv, EmittedInv
  <1>7. faults' = 0 => link' # "rejected" /\ InOnePlace' /\ ExactlyOnceInCalm'
    <2> SUFFICES ASSUME faults' = 0 PROVE link # "rejected" /\ InOnePlace' /\ ExactlyOnceInCalm'
      BY <1>2
    <2>1. /\ sending' = sending \ {event} /\ waiting' = waiting
          /\ link # "rejected" /\ InOnePlace /\ ExactlyOnceInCalm /\ faults = 0
      BY <1>1, <1>2, FaultCounts DEF CalmInv
    <2>2. event \notin waiting
      BY <1>1 DEF CalmInv, LinkInv
    <2>3. \A other \in waiting' \cup sending' : other \in waiting \cup sending /\ other.n # event.n
      BY <2>1, <2>2 DEF InOnePlace
    <2>4. InOnePlace'
      BY <1>4, <2>1, <2>3 DEF InOnePlace
    <2>5. \A n \in 1..emitted' : \/ \E other \in waiting' \cup sending' : other.n = n
                                \/ \E i \in 1..Len(log') : log'[i].n = n
      <3> SUFFICES ASSUME NEW n \in 1..emitted
                   PROVE  \/ \E other \in waiting' \cup sending' : other.n = n
                          \/ \E i \in 1..Len(log') : log'[i].n = n
        BY <1>2
      <3>1. CASE n = event.n
        BY <1>4, <3>1
      <3>2. CASE n # event.n /\ \E other \in waiting \cup sending : other.n = n
        BY <2>1, <3>2
      <3>3. CASE \E i \in 1..Len(log) : log[i].n = n
        BY <1>4, <3>3
      <3> QED BY <2>1, <3>1, <3>2, <3>3 DEF ExactlyOnceInCalm
    <2>6. \A i, j \in 1..Len(log') : log'[i].n = log'[j].n => i = j
      <3>1. \A i \in 1..Len(log) : log[i].n # event.n
        BY <2>1 DEF InOnePlace
      <3> QED BY <1>4, <2>1, <3>1 DEF ExactlyOnceInCalm
    <2> QED BY <2>1, <2>4, <2>5, <2>6 DEF ExactlyOnceInCalm
  <1> QED BY <1>5, <1>6, <1>7 DEF CalmInv, ExactlyOnceInCalm

LEMMA NextCalm == TypeOK /\ CalmInv /\ [Next]_vars => CalmInv'
  <1> SUFFICES ASSUME TypeOK, CalmInv, [Next]_vars PROVE CalmInv'
    OBVIOUS
  <1>1. CASE Emit
    BY <1>1, EmitCalm
  <1>2. CASE SendArrives
    BY <1>2, ArrivesCalm
  <1>3. CASE ProducerConnects
    <2>1. /\ link = "connecting" /\ link' = "up" /\ waiting' = {}
          /\ waiting' \cup sending' = waiting \cup sending
          /\ UNCHANGED <<emitted, log, faults>>
      BY <1>3 DEF ProducerConnects
    <2>2. LinkInv' /\ EmittedInv'
      BY <2>1 DEF CalmInv, LinkInv, EmittedInv
    <2>3. InOnePlace => InOnePlace'
      BY <2>1 DEF InOnePlace
    <2>4. ExactlyOnceInCalm'
      BY <2>1 DEF CalmInv, ExactlyOnceInCalm
    <2> QED BY <2>1, <2>2, <2>3, <2>4 DEF CalmInv
  <1>4. CASE ProducerRejected \/ SendFails \/ ProducerExits
    <2>1. /\ faults' # 0
          /\ waiting' \subseteq waiting /\ sending' \subseteq sending
          /\ UNCHANGED <<emitted, log>>
      BY <1>4, FaultCounts DEF ProducerRejected, SendFails, ProducerExits
    <2>2. LinkInv'
      BY <1>4 DEF ProducerRejected, SendFails, ProducerExits, CalmInv, LinkInv
    <2>3. EmittedInv'
      BY <2>1 DEF CalmInv, EmittedInv
    <2> QED BY <2>1, <2>2, <2>3 DEF CalmInv, ExactlyOnceInCalm
  <1>5. CASE UNCHANGED <<producerVars, log>> /\ (faults' = 0 => faults = 0)
    BY <1>5 DEF producerVars, CalmInv, LinkInv, EmittedInv, InOnePlace, ExactlyOnceInCalm
  <1>6. CASE \E c \in Reader : SinkStarts(c) \/ SinkWrites(c) \/ SinkDrops(c) \/ SinkStops(c)
    BY <1>5, <1>6, FaultCounts DEF SinkStarts, SinkWrites, SinkDrops, SinkStops
  <1>7. CASE SinkCommits \/ UNCHANGED vars
    BY <1>5, <1>7 DEF SinkCommits, vars
  <1> QED BY <1>1, <1>2, <1>3, <1>4, <1>6, <1>7 DEF Next

-----------------------------------------------------------------------------
(* The theorems. *)

\* Every variable of the producer, the log and the sink keeps its type.
THEOREM SinkTypeCorrect == Spec => []TypeOK
  <1>1. SinkInv => TypeOK
    BY DEF SinkInv
  <1> QED BY SinkInvariant, <1>1, PTL

\* However often the sink stops and starts, commits and falls back, the committed
\* offset never passes an event that no reader has handled.
THEOREM CommittedIsHandled == Spec => []NothingSkipped
  <1>1. SinkInv => NothingSkipped
    BY DEF SinkInv, TypeOK, PositionsInv, LiveHandled, NothingSkipped, Reader, ReaderState,
           NoOffset
  <1> QED BY SinkInvariant, <1>1, PTL

\* A backfill that reaches the end of the log, with the live sink, repairs every
\* row: the reader that wrote a row last has passed no later event of its key.
THEOREM RepairedByBackfill == Spec => []BackfillRepairs
  <1>1. SinkInv => BackfillRepairs
    <2> SUFFICES ASSUME SinkInv, reader["backfill"].ran, CaughtUp, missed = {},
                        NEW i \in 1..Len(log), Newest(i)
                 PROVE  table[log[i].key].last = i
      BY DEF BackfillRepairs, ShowsNewest
    <2> DEFINE k == log[i].key
               row == table[k].last
    <2>1. Len(log) \in Nat /\ k \in Key /\ row \in Nat
      <3>1. Len(log) \in Nat /\ k \in Key
        BY LogKeys DEF SinkInv
      <3>2. table[k] \in Row
        BY <3>1 DEF SinkInv, TypeOK
      <3> QED BY <3>1, <3>2 DEF Row
    <2>2. PICK c \in Reader : UpToDate(c, k)
      BY <2>1 DEF SinkInv, SomeoneIsUpToDate
    <2>3. reader[c].pos = Len(log)
      BY <2>2 DEF UpToDate, CaughtUp
    <2>4. ~(row < i)
      BY <2>1, <2>2, <2>3 DEF UpToDate
    <2>5. row \in 1..Len(log) /\ log[row].key = k
      BY <2>1, <2>4 DEF SinkInv, RowsOfTheirKey
    <2>6. row <= i
      BY <2>5 DEF Newest
    <2> QED BY <2>1, <2>4, <2>6
  <1> QED BY SinkInvariant, <1>1, PTL

\* Until something fails every event that the hops emitted is on its way or in the
\* log, and once in the log, whenever the connection came up (getProducer, publish).
THEOREM CalmLogIsExact == Spec => []ExactlyOnceInCalm
  <1>1. Init => CalmInv
    BY DEF Init, CalmInv, LinkInv, EmittedInv, InOnePlace, ExactlyOnceInCalm
  <1>2. CalmInv => ExactlyOnceInCalm
    BY DEF CalmInv
  <1> QED BY <1>1, <1>2, NextCalm, SinkTypeCorrect, PTL DEF Spec
=============================================================================
