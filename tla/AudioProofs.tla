---------------------------- MODULE AudioProofs ----------------------------
(* Theorems about AudioChannel, for every number of turns, frames and losses. *)
EXTENDS AudioChannel, SequenceTheorems, TLAPS

-----------------------------------------------------------------------------
(* The worker's queues and its map of them. *)

\* An item is pushed onto an open queue, and lost on a closed one.
LEMMA PushQueue ==
  ASSUME NEW q \in Queue, NEW n \in 1..MaxFrames
  PROVE  /\ Push(q, n) \in Queue
         /\ Push(q, n).closed = q.closed
         /\ Push(q, n).items = IF q.closed THEN q.items ELSE Append(q.items, n)
<1>1. q.items \in Seq(1..MaxFrames)
  BY DEF Queue
<1>2. Append(q.items, n) \in Seq(1..MaxFrames)
  BY <1>1
<1> QED
  BY <1>2 DEF Push, Queue

\* The first item of a queue is taken, and the others are left.
LEMMA TakeQueue ==
  ASSUME NEW q \in Queue, q.items # <<>>
  PROVE  /\ Head(q.items) \in 1..MaxFrames
         /\ Tail(q.items) \in Seq(1..MaxFrames)
         /\ [q EXCEPT !.items = Tail(q.items)] \in Queue
<1> DEFINE s == q.items
<1>1. s \in Seq(1..MaxFrames) /\ s # <<>>
  BY DEF Queue
<1> HIDE DEF s
<1>2. Head(s) \in 1..MaxFrames
  BY <1>1, HeadTailProperties
<1>3. Tail(s) \in Seq(1..MaxFrames)
  BY <1>1, HeadTailProperties
<1> QED
  BY <1>2, <1>3 DEF Queue, s

\* What #queue answers: the queue in the map, or a new and empty one that is closed or
\* goes into the map; the queues there were stay as they are.
LEMMA GetQueue ==
  ASSUME TypeOK, NEW t \in Turn
  PROVE  /\ Get(t).queues \in Seq(Queue)
         /\ Get(t).id \in 1..Len(Get(t).queues)
         /\ Get(t).audio \in [Turn -> NoQueue..Len(Get(t).queues)]
         /\ Len(Get(t).queues) \in Nat
         /\ Len(queues) <= Len(Get(t).queues)
         /\ \A q \in 1..Len(queues) : Get(t).queues[q] = queues[q]
         /\ \A q \in 1..Len(Get(t).queues) : q \in 1..Len(queues) \/ q = Get(t).id
         /\ \/ /\ audio[t] # NoQueue
               /\ Get(t).id = audio[t]
               /\ Get(t).queues = queues
               /\ Get(t).audio = audio
            \/ /\ audio[t] = NoQueue
               /\ Get(t).id = Len(queues) + 1
               /\ Len(Get(t).queues) = Len(queues) + 1
               /\ Get(t).queues[Get(t).id] = [items |-> <<>>, closed |-> t \in ended]
               /\ t \in ended => Get(t).audio = audio
               /\ t \notin ended => Get(t).audio = [audio EXCEPT ![t] = Get(t).id]
<1>1. CASE audio[t] # NoQueue
  <2>1. Get(t) = [id |-> audio[t], queues |-> queues, audio |-> audio]
    BY <1>1 DEF Get
  <2> QED
    BY <1>1, <2>1 DEF TypeOK, NoQueue
<1>2. CASE audio[t] = NoQueue
  <2> DEFINE fresh == [items |-> <<>>, closed |-> t \in ended]
  <2>1. Get(t) = [id |-> Len(queues) + 1, queues |-> Append(queues, fresh),
                  audio |-> IF t \in ended THEN audio ELSE [audio EXCEPT ![t] = Len(queues) + 1]]
    BY <1>2 DEF Get
  <2>2. fresh \in Queue
    BY DEF Queue
  <2>3. queues \in Seq(Queue) /\ audio \in [Turn -> NoQueue..Len(queues)]
    BY DEF TypeOK
  <2>4. Append(queues, fresh) \in Seq(Queue) /\ Len(Append(queues, fresh)) = Len(queues) + 1
    BY <2>2, <2>3
  <2>5. /\ \A q \in 1..Len(queues) : Append(queues, fresh)[q] = queues[q]
        /\ Append(queues, fresh)[Len(queues) + 1] = fresh
    BY <2>2, <2>3
  <2>6. /\ audio \in [Turn -> NoQueue..Len(queues) + 1]
        /\ [audio EXCEPT ![t] = Len(queues) + 1] \in [Turn -> NoQueue..Len(queues) + 1]
    BY <2>3 DEF NoQueue
  <2> HIDE DEF fresh
  <2>7. Get(t).id = Len(queues) + 1 /\ Get(t).queues = Append(queues, fresh)
    BY <2>1
  <2>8. Get(t).audio = IF t \in ended THEN audio ELSE [audio EXCEPT ![t] = Len(queues) + 1]
    BY <2>1
  <2>9. Len(queues) \in Nat
    BY <2>3
  <2> QED
    BY <1>2, <2>4, <2>5, <2>6, <2>7, <2>8, <2>9 DEF fresh
<1> QED
  BY <1>1, <1>2

\* Forget closes the turn's queue, takes it off the map, and leaves the rest.
LEMMA ForgetQueue ==
  ASSUME TypeOK, NEW t \in Turn, Forget(t)
  PROVE  /\ queues' \in Seq(Queue)
         /\ Len(queues') = Len(queues)
         /\ audio' = [audio EXCEPT ![t] = NoQueue]
         /\ audio' \in [Turn -> NoQueue..Len(queues)]
         /\ audio[t] # NoQueue => queues'[audio[t]].closed
         /\ \A q \in 1..Len(queues) : /\ queues'[q].items = queues[q].items
                                      /\ queues[q].closed => queues'[q].closed
                                      /\ q # audio[t] => queues'[q] = queues[q]
<1>1. queues \in Seq(Queue) /\ audio \in [Turn -> NoQueue..Len(queues)]
  BY DEF TypeOK
<1>2. audio' = [audio EXCEPT ![t] = NoQueue] /\ audio' \in [Turn -> NoQueue..Len(queues)]
  BY <1>1 DEF Forget, NoQueue
<1>3. CASE audio[t] = NoQueue
  <2>1. queues' = queues
    BY <1>3 DEF Forget
  <2> QED
    BY <1>1, <1>2, <1>3, <2>1 DEF NoQueue
<1>4. CASE audio[t] # NoQueue
  <2> DEFINE a == audio[t]
  <2>1. a \in 1..Len(queues)
    BY <1>1, <1>4 DEF NoQueue
  <2>2. queues' = [queues EXCEPT ![a] = [queues[a] EXCEPT !.closed = TRUE]]
    BY <1>4 DEF Forget, Close
  <2>3. queues[a] \in Queue
    BY <1>1, <2>1
  <2>4. /\ [queues[a] EXCEPT !.closed = TRUE] \in Queue
        /\ [queues[a] EXCEPT !.closed = TRUE].items = queues[a].items
        /\ [queues[a] EXCEPT !.closed = TRUE].closed
    BY <2>3 DEF Queue
  <2> HIDE DEF a
  <2>5. queues' \in Seq(Queue) /\ Len(queues') = Len(queues)
    BY <1>1, <2>1, <2>2, <2>4
  <2>6. \A q \in 1..Len(queues) : q # a => queues'[q] = queues[q]
    BY <1>1, <2>1, <2>2
  <2>7. queues'[a].closed /\ queues'[a].items = queues[a].items
    BY <1>1, <2>1, <2>2, <2>4
  <2> QED
    BY <1>2, <2>5, <2>6, <2>7 DEF a
<1> QED
  BY <1>3, <1>4

-----------------------------------------------------------------------------
(* Type correctness. *)

LEMMA InitTypeOK == Init => TypeOK
  BY AudioConstants DEF Init, TypeOK, NoQueue, Pumping

\* A frame that is sent is the last on the wire, or is dropped.
LEMMA SendTyped ==
  ASSUME TypeOK, NEW f \in Frame, Send(f)
  PROVE  wire' \in Seq(Frame)
  BY DEF Send, TypeOK

\* The gateway's steps leave the worker alone.
LEMMA GatewayTyped ==
  ASSUME TypeOK, NEW t \in Turn,
         OpenMic(t) \/ Forward(t) \/ CloseMic(t) \/ Cut(t) \/ Leave(t)
  PROVE  TypeOK'
<1> USE AudioConstants
<1>1. /\ UNCHANGED <<worker, link, losses>>
      /\ mic' \in [Turn -> {"unused", "open", "ended", "cut", "left"}]
  BY DEF OpenMic, Forward, CloseMic, Cut, Leave, TypeOK
<1>2. said' \in [Turn -> 0..MaxFrames]
  <2>1. CASE Forward(t)
    <3>1. said[t] + 1 \in 0..MaxFrames
      BY <2>1 DEF Forward, TypeOK
    <3> QED
      BY <2>1, <3>1 DEF Forward, TypeOK
  <2>2. CASE OpenMic(t) \/ CloseMic(t) \/ Cut(t) \/ Leave(t)
    BY <2>2 DEF OpenMic, CloseMic, Cut, Leave, TypeOK
  <2> QED
    BY <2>1, <2>2
<1>3. wire' \in Seq(Frame)
  <2>1. CASE Forward(t)
    <3>1. [t |-> "audio", turn |-> t, n |-> said[t] + 1] \in Frame
      BY <2>1 DEF Forward, TypeOK, Frame
    <3> QED
      BY <2>1, <3>1, SendTyped DEF Forward
  <2>2. CASE CloseMic(t) \/ Cut(t)
    <3>1. [t |-> "audio_end", turn |-> t] \in Frame /\ [t |-> "cancel", turn |-> t] \in Frame
      BY DEF Frame
    <3> QED
      BY <2>2, <3>1, SendTyped DEF CloseMic, Cut
  <2>3. CASE OpenMic(t) \/ Leave(t)
    BY <2>3 DEF OpenMic, Leave, TypeOK
  <2> QED
    BY <2>1, <2>2, <2>3
<1> QED
  BY <1>1, <1>2, <1>3 DEF worker, TypeOK

\* What a frame does at the worker's end.
LEMMA OnFrameTyped ==
  ASSUME TypeOK, OnFrame
  PROVE  TypeOK'
<1> DEFINE f == Head(wire)
<1>1. /\ wire' \in Seq(Frame)
      /\ UNCHANGED <<gateway, link, pump, stream, heard, over, losses, late>>
      /\ f \in Frame
  BY DEF OnFrame, TypeOK
<1>2. f.turn \in Turn
  BY <1>1 DEF Frame
<1> HIDE DEF f
<1>3. /\ queues' \in Seq(Queue)
      /\ audio' \in [Turn -> NoQueue..Len(queues')]
      /\ Len(queues) <= Len(queues')
      /\ ended' \subseteq Turn
  <2>1. CASE OnAudio(f)
    <3> DEFINE got == Get(f.turn)
    <3>1. f.n \in 1..MaxFrames
      BY <1>1, <2>1 DEF Frame, OnAudio
    <3>2. /\ queues' = [got.queues EXCEPT ![got.id] = Push(got.queues[got.id], f.n)]
          /\ audio' = got.audio
          /\ ended' = ended
      BY <2>1 DEF OnAudio
    <3>3. /\ got.queues \in Seq(Queue)
          /\ got.id \in 1..Len(got.queues)
          /\ got.audio \in [Turn -> NoQueue..Len(got.queues)]
          /\ Len(queues) <= Len(got.queues)
      BY <1>2, GetQueue
    <3> HIDE DEF got
    <3>4. got.queues[got.id] \in Queue
      BY <3>3
    <3>5. Push(got.queues[got.id], f.n) \in Queue
      BY <3>1, <3>4, PushQueue
    <3>6. queues' \in Seq(Queue) /\ Len(queues') = Len(got.queues)
      BY <3>2, <3>3, <3>5
    <3> QED
      BY <3>2, <3>3, <3>6 DEF TypeOK
  <2>2. CASE OnAudioEnd(f) \/ OnCancel(f)
    <3>1. Forget(f.turn) /\ ended' \in SUBSET (ended \cup {f.turn})
      BY <2>2 DEF OnAudioEnd, OnCancel, Discard
    <3>2. queues' \in Seq(Queue) /\ Len(queues') = Len(queues) /\ audio' \in [Turn -> NoQueue..Len(queues)]
      BY <1>2, <3>1, ForgetQueue
    <3>3. ended' \subseteq Turn
      BY <1>2, <3>1 DEF TypeOK
    <3>4. Len(queues) <= Len(queues')
      BY <3>2 DEF TypeOK
    <3> QED
      BY <3>2, <3>3, <3>4
  <2> QED
    BY <2>1, <2>2 DEF OnFrame, f
<1>4. stream' \in [Turn -> NoQueue..Len(queues')]
  <2>1. Len(queues) \in Nat /\ Len(queues') \in Nat
    BY <1>3 DEF TypeOK
  <2> QED
    BY <1>1, <1>3, <2>1 DEF TypeOK, NoQueue
<1> QED
  BY <1>1, <1>3, <1>4 DEF gateway, TypeOK

\* A transcribe is handed a queue.
LEMMA StartTyped ==
  ASSUME TypeOK, NEW t \in Turn, StartTranscribe(t)
  PROVE  TypeOK'
<1> DEFINE got == Get(t)
<1>1. /\ queues' = got.queues
      /\ audio' = got.audio
      /\ stream' = [stream EXCEPT ![t] = got.id]
      /\ pump' = [pump EXCEPT ![t] = "opening"]
      /\ late' \in {late, late \cup {t}}
      /\ UNCHANGED <<gateway, link, wire, ended, heard, over, losses>>
  BY DEF StartTranscribe, AudioStream
<1>2. /\ got.queues \in Seq(Queue)
      /\ got.id \in 1..Len(got.queues)
      /\ got.audio \in [Turn -> NoQueue..Len(got.queues)]
      /\ Len(got.queues) \in Nat
      /\ Len(queues) <= Len(got.queues)
  BY GetQueue
<1> HIDE DEF got
<1>3. stream' \in [Turn -> NoQueue..Len(queues')]
  <2>1. Len(queues) \in Nat
    BY DEF TypeOK
  <2> QED
    BY <1>1, <1>2, <2>1 DEF TypeOK, NoQueue
<1>4. \A u \in Turn : pump'[u] \in Pumping => stream'[u] # NoQueue
  BY <1>1, <1>2 DEF TypeOK, NoQueue
<1>5. pump' \in [Turn -> {"none", "opening", "reading", "flushed", "stopped", "dead"}]
  BY <1>1 DEF TypeOK
<1> QED
  BY <1>1, <1>2, <1>3, <1>4, <1>5 DEF gateway, TypeOK

\* A pump's steps change its own place, and take an item at most.
LEMMA PumpTyped ==
  ASSUME TypeOK, NEW t \in Turn, PumpOpens(t) \/ PumpReads(t) \/ PumpFlushes(t)
  PROVE  TypeOK'
<1>1. CASE PumpOpens(t) \/ PumpFlushes(t)
  <2>1. pump' \in [Turn -> {"none", "opening", "reading", "flushed", "stopped", "dead"}]
    BY <1>1 DEF PumpOpens, PumpFlushes, TypeOK
  <2>2. \A u \in Turn : pump'[u] \in Pumping => stream'[u] # NoQueue
    BY <1>1 DEF PumpOpens, PumpFlushes, TypeOK, Pumping
  <2>3. UNCHANGED <<gateway, link, wire, queues, audio, ended, stream, heard, over, losses, late>>
    BY <1>1 DEF PumpOpens, PumpFlushes
  <2> QED
    BY <2>1, <2>2, <2>3 DEF gateway, TypeOK
<1>2. CASE PumpReads(t)
  <2> DEFINE s == stream[t]
  <2>1. s \in 1..Len(queues)
    BY <1>2 DEF PumpReads, TypeOK, NoQueue, Pumping
  <2>2. queues[s] \in Queue /\ queues[s].items # <<>>
    BY <1>2, <2>1 DEF PumpReads, TypeOK
  <2>3. /\ Head(queues[s].items) \in 1..MaxFrames
        /\ [queues[s] EXCEPT !.items = Tail(queues[s].items)] \in Queue
    BY <2>2, TakeQueue
  <2>4. queues' = [queues EXCEPT ![s] = [queues[s] EXCEPT !.items = Tail(queues[s].items)]]
    BY <1>2 DEF PumpReads
  <2>5. heard' \in {heard, [heard EXCEPT ![t] = Append(heard[t], Head(queues[s].items))]}
    BY <1>2 DEF PumpReads
  <2>6. heard[t] \in Seq(1..MaxFrames) /\ heard \in [Turn -> Seq(1..MaxFrames)]
    BY DEF TypeOK
  <2> HIDE DEF s
  <2>7. queues' \in Seq(Queue) /\ Len(queues') = Len(queues)
    BY <2>1, <2>3, <2>4 DEF TypeOK
  <2>8. heard' \in [Turn -> Seq(1..MaxFrames)]
    <3>1. Append(heard[t], Head(queues[s].items)) \in Seq(1..MaxFrames)
      BY <2>3, <2>6
    <3> QED
      BY <2>5, <2>6, <3>1
  <2>9. /\ pump' \in [Turn -> {"none", "opening", "reading", "flushed", "stopped", "dead"}]
        /\ \A u \in Turn : pump'[u] \in Pumping => stream'[u] # NoQueue
    BY <1>2 DEF PumpReads, TypeOK, Pumping
  <2>10. UNCHANGED <<gateway, link, wire, audio, ended, stream, over, losses, late>>
    BY <1>2 DEF PumpReads
  <2> QED
    BY <2>7, <2>8, <2>9, <2>10 DEF gateway, TypeOK
<1> QED
  BY <1>1, <1>2

LEMMA EndTurnTyped ==
  ASSUME TypeOK, NEW t \in Turn, EndTurn(t)
  PROVE  TypeOK'
<1>1. /\ Forget(t)
      /\ ended' \subseteq Turn
      /\ over' \subseteq Turn
      /\ UNCHANGED <<gateway, link, wire, pump, stream, heard, losses, late>>
  BY DEF EndTurn, Discard, TypeOK
<1>2. queues' \in Seq(Queue) /\ Len(queues') = Len(queues) /\ audio' \in [Turn -> NoQueue..Len(queues)]
  BY <1>1, ForgetQueue
<1> QED
  BY <1>1, <1>2 DEF gateway, TypeOK

LEMMA OneMoreLoss ==
  ASSUME TypeOK, losses < MaxLosses
  PROVE  losses + 1 \in 0..MaxLosses
<1>1. losses \in 0..MaxLosses
  BY DEF TypeOK
<1> QED
  BY <1>1, AudioConstants

\* Connections and the worker come and go.
LEMMA LossTyped ==
  ASSUME TypeOK, SocketCloses \/ SocketOpens \/ Restart
  PROVE  TypeOK'
<1> USE AudioConstants
<1>1. <<>> \in Seq(Frame) /\ <<>> \in Seq(Queue)
  OBVIOUS
<1>2. CASE SocketCloses \/ SocketOpens
  <2>1. wire' \in Seq(Frame) /\ link' \in BOOLEAN
    BY <1>1, <1>2 DEF SocketCloses, SocketOpens, TypeOK
  <2>2. losses' \in 0..MaxLosses
    BY <1>2, OneMoreLoss DEF SocketCloses, SocketOpens, TypeOK
  <2> QED
    BY <1>2, <2>1, <2>2 DEF SocketCloses, SocketOpens, gateway, worker, TypeOK
<1>3. CASE Restart
  <2>1. wire' \in Seq(Frame) /\ queues' \in Seq(Queue) /\ Len(queues') = 0
    BY <1>1, <1>3 DEF Restart
  <2>2. losses' \in 0..MaxLosses /\ link' \in BOOLEAN
    BY <1>3, OneMoreLoss DEF Restart
  <2>3. /\ audio' \in [Turn -> NoQueue..0] /\ stream' \in [Turn -> NoQueue..0]
        /\ ended' \subseteq Turn
    BY <1>3 DEF Restart, NoQueue
  <2>4. /\ pump' \in [Turn -> {"none", "opening", "reading", "flushed", "stopped", "dead"}]
        /\ \A u \in Turn : pump'[u] \notin Pumping
    BY <1>3 DEF Restart, TypeOK, Pumping
  <2>5. UNCHANGED <<gateway, heard, over, late>>
    BY <1>3 DEF Restart
  <2> QED
    BY <2>1, <2>2, <2>3, <2>4, <2>5 DEF gateway, TypeOK
<1> QED
  BY <1>2, <1>3

LEMMA NextTyped == TypeOK /\ [Next]_vars => TypeOK'
<1> SUFFICES ASSUME TypeOK, [Next]_vars
             PROVE  TypeOK'
  OBVIOUS
<1>1. CASE \E t \in Turn : OpenMic(t) \/ Forward(t) \/ CloseMic(t) \/ Cut(t) \/ Leave(t)
  BY <1>1, GatewayTyped
<1>2. CASE \E t \in Turn : StartTranscribe(t) \/ EndTurn(t)
  BY <1>2, StartTyped, EndTurnTyped
<1>3. CASE \E t \in Turn : PumpOpens(t) \/ PumpReads(t) \/ PumpFlushes(t)
  BY <1>3, PumpTyped
<1>4. CASE OnFrame
  BY <1>4, OnFrameTyped
<1>5. CASE SocketCloses \/ SocketOpens \/ Restart
  BY <1>5, LossTyped
<1>6. CASE UNCHANGED vars
  BY <1>6 DEF vars, TypeOK
<1> QED
  BY <1>1, <1>2, <1>3, <1>4, <1>5, <1>6 DEF Next

\* Every reachable state of the gateway's turns, the wire and the worker's queues has
\* its type; a pump that runs has been handed a queue (gateway-channel.ts, #queue).
THEOREM AudioTypeCorrect == Spec => []TypeOK
<1>1. Init => TypeOK
  BY InitTypeOK
<1>2. TypeOK /\ [Next]_vars => TypeOK'
  BY NextTyped
<1> QED
  BY <1>1, <1>2, PTL DEF Spec

-----------------------------------------------------------------------------
(* Whatever ends a turn's audio reaches its pump. *)

\* Forgetting a turn's queue closes it for the pump that reads it.
LEMMA ForgetReaches ==
  ASSUME TypeOK, OpenQueueIsOnTheMap, NEW t \in Turn, Forget(t), UNCHANGED <<pump, stream>>
  PROVE  OpenQueueIsOnTheMap'
<1> SUFFICES ASSUME NEW u \in Turn, pump[u] \in Pumping, ~queues'[stream[u]].closed
             PROVE  audio'[u] = stream[u]
  BY DEF OpenQueueIsOnTheMap
<1>1. stream[u] \in 1..Len(queues)
  BY DEF TypeOK, NoQueue
<1>2. /\ audio' = [audio EXCEPT ![t] = NoQueue]
      /\ audio[t] # NoQueue => queues'[audio[t]].closed
      /\ \A q \in 1..Len(queues) : queues[q].closed => queues'[q].closed
  BY ForgetQueue
<1>3. audio[u] = stream[u]
  BY <1>1, <1>2 DEF OpenQueueIsOnTheMap
<1>4. u # t
  BY <1>1, <1>2, <1>3 DEF NoQueue
<1> QED
  BY <1>2, <1>3, <1>4 DEF TypeOK

\* A queue that is made for a turn goes on the map; no other place on it changes.
LEMMA GetReaches ==
  ASSUME TypeOK, OpenQueueIsOnTheMap, NEW t \in Turn, NEW u \in Turn, pump[u] \in Pumping
  PROVE  /\ Get(t).queues[stream[u]] = queues[stream[u]]
         /\ queues[stream[u]].closed \/ Get(t).audio[u] = stream[u]
<1>1. stream[u] \in 1..Len(queues)
  BY DEF TypeOK, NoQueue
<1>2. /\ \A q \in 1..Len(queues) : Get(t).queues[q] = queues[q]
      /\ \/ Get(t).audio = audio
         \/ audio[t] = NoQueue /\ Get(t).audio = [audio EXCEPT ![t] = Get(t).id]
  BY GetQueue
<1>3. queues[stream[u]].closed \/ audio[u] = stream[u]
  BY DEF OpenQueueIsOnTheMap
<1> QED
  BY <1>1, <1>2, <1>3 DEF TypeOK, NoQueue

LEMMA OnFrameReaches ==
  ASSUME TypeOK, OpenQueueIsOnTheMap, OnFrame
  PROVE  OpenQueueIsOnTheMap'
<1> DEFINE f == Head(wire)
<1>1. /\ UNCHANGED <<pump, stream>>
      /\ f \in Frame
  BY DEF OnFrame, TypeOK
<1>2. f.turn \in Turn
  BY <1>1 DEF Frame
<1> HIDE DEF f
<1>3. CASE OnAudio(f)
  <2> DEFINE got == Get(f.turn)
  <2>1. f.n \in 1..MaxFrames
    BY <1>1, <1>3 DEF Frame, OnAudio
  <2>2. /\ queues' = [got.queues EXCEPT ![got.id] = Push(got.queues[got.id], f.n)]
        /\ audio' = got.audio
    BY <1>3 DEF OnAudio
  <2>3. got.queues \in Seq(Queue) /\ got.id \in 1..Len(got.queues) /\ Len(queues) <= Len(got.queues)
        /\ Len(got.queues) \in Nat
    BY <1>2, GetQueue
  <2> SUFFICES ASSUME NEW u \in Turn, pump[u] \in Pumping
               PROVE  queues'[stream[u]].closed \/ audio'[u] = stream[u]
    BY <1>1 DEF OpenQueueIsOnTheMap
  <2>4. /\ got.queues[stream[u]] = queues[stream[u]]
        /\ queues[stream[u]].closed \/ got.audio[u] = stream[u]
    BY <1>2, GetReaches
  <2>5. stream[u] \in 1..Len(got.queues)
    BY <2>3 DEF TypeOK, NoQueue
  <2> HIDE DEF got
  <2>6. got.queues[got.id] \in Queue
    BY <2>3
  <2>7. Push(got.queues[got.id], f.n).closed = got.queues[got.id].closed
    BY <2>1, <2>6, PushQueue
  <2>8. queues'[stream[u]].closed = got.queues[stream[u]].closed
    BY <2>2, <2>3, <2>5, <2>7
  <2> QED
    BY <2>2, <2>4, <2>8
<1>4. CASE OnAudioEnd(f) \/ OnCancel(f)
  <2>1. Forget(f.turn)
    BY <1>4 DEF OnAudioEnd, OnCancel, Discard
  <2> QED
    BY <1>1, <1>2, <2>1, ForgetReaches
<1> QED
  BY <1>3, <1>4 DEF OnFrame, f

LEMMA StartReaches ==
  ASSUME TypeOK, OpenQueueIsOnTheMap, NEW t \in Turn, StartTranscribe(t)
  PROVE  OpenQueueIsOnTheMap'
<1>1. /\ queues' = Get(t).queues
      /\ audio' = Get(t).audio
      /\ stream' = [stream EXCEPT ![t] = Get(t).id]
      /\ pump' = [pump EXCEPT ![t] = "opening"]
  BY DEF StartTranscribe, AudioStream
<1>2. Get(t).queues[Get(t).id].closed \/ Get(t).audio[t] = Get(t).id
  <2>1. CASE audio[t] # NoQueue
    BY <2>1, GetQueue
  <2>2. CASE audio[t] = NoQueue /\ t \in ended
    <3>1. Get(t).queues[Get(t).id] = [items |-> <<>>, closed |-> t \in ended]
      BY <2>2, GetQueue
    <3>2. [items |-> <<>>, closed |-> t \in ended].closed = (t \in ended)
      OBVIOUS
    <3>3. Get(t).queues[Get(t).id].closed = (t \in ended)
      BY <3>1, <3>2, Zenon
    <3> QED
      BY <2>2, <3>3, Zenon
  <2>3. CASE audio[t] = NoQueue /\ t \notin ended
    <3>1. Get(t).audio = [audio EXCEPT ![t] = Get(t).id]
      BY <2>3, GetQueue
    <3> QED
      BY <3>1 DEF TypeOK
  <2> QED
    BY <2>1, <2>2, <2>3
<1> SUFFICES ASSUME NEW u \in Turn, pump'[u] \in Pumping
             PROVE  queues'[stream'[u]].closed \/ audio'[u] = stream'[u]
  BY DEF OpenQueueIsOnTheMap
<1>3. CASE u = t
  BY <1>1, <1>2, <1>3 DEF TypeOK
<1>4. CASE u # t
  <2>1. pump[u] \in Pumping /\ stream'[u] = stream[u]
    BY <1>1, <1>4 DEF TypeOK
  <2>2. /\ Get(t).queues[stream[u]] = queues[stream[u]]
        /\ queues[stream[u]].closed \/ Get(t).audio[u] = stream[u]
    BY <2>1, GetReaches
  <2> QED
    BY <1>1, <2>1, <2>2
<1> QED
  BY <1>3, <1>4

LEMMA PumpReaches ==
  ASSUME TypeOK, OpenQueueIsOnTheMap, NEW t \in Turn,
         PumpOpens(t) \/ PumpReads(t) \/ PumpFlushes(t)
  PROVE  OpenQueueIsOnTheMap'
<1>1. UNCHANGED <<audio, stream>> /\ \A u \in Turn : pump'[u] \in Pumping => pump[u] \in Pumping
  BY DEF PumpOpens, PumpReads, PumpFlushes, TypeOK, Pumping
<1>2. \A q \in 1..Len(queues) : queues'[q].closed = queues[q].closed
  <2>1. CASE PumpOpens(t) \/ PumpFlushes(t)
    BY <2>1 DEF PumpOpens, PumpFlushes
  <2>2. CASE PumpReads(t)
    <3> DEFINE s == stream[t]
    <3>1. queues' = [queues EXCEPT ![s] = [queues[s] EXCEPT !.items = Tail(queues[s].items)]]
      BY <2>2 DEF PumpReads
    <3>2. s \in 1..Len(queues) /\ queues \in Seq(Queue)
      BY <2>2 DEF PumpReads, TypeOK, NoQueue, Pumping
    <3> HIDE DEF s
    <3>3. [queues[s] EXCEPT !.items = Tail(queues[s].items)].closed = queues[s].closed
      BY <3>2 DEF Queue
    <3> QED
      BY <3>1, <3>2, <3>3
  <2> QED
    BY <2>1, <2>2
<1>3. \A u \in Turn : pump[u] \in Pumping => stream[u] \in 1..Len(queues)
  BY DEF TypeOK, NoQueue
<1> QED
  BY <1>1, <1>2, <1>3 DEF OpenQueueIsOnTheMap

LEMMA NextReaches ==
  ASSUME TypeOK, OpenQueueIsOnTheMap, [Next]_vars
  PROVE  OpenQueueIsOnTheMap'
<1>1. CASE \E t \in Turn : OpenMic(t) \/ Forward(t) \/ CloseMic(t) \/ Cut(t) \/ Leave(t)
  BY <1>1 DEF OpenMic, Forward, CloseMic, Cut, Leave, worker, OpenQueueIsOnTheMap
<1>2. CASE \E t \in Turn : StartTranscribe(t)
  BY <1>2, StartReaches
<1>3. CASE \E t \in Turn : PumpOpens(t) \/ PumpReads(t) \/ PumpFlushes(t)
  BY <1>3, PumpReaches
<1>4. CASE \E t \in Turn : EndTurn(t)
  BY <1>4, ForgetReaches DEF EndTurn, Discard
<1>5. CASE OnFrame
  BY <1>5, OnFrameReaches
<1>6. CASE SocketCloses \/ SocketOpens
  BY <1>6 DEF SocketCloses, SocketOpens, worker, OpenQueueIsOnTheMap
<1>7. CASE Restart
  BY <1>7 DEF Restart, TypeOK, Pumping, OpenQueueIsOnTheMap
<1>8. CASE UNCHANGED vars
  BY <1>8 DEF vars, OpenQueueIsOnTheMap
<1> QED
  BY <1>1, <1>2, <1>3, <1>4, <1>5, <1>6, <1>7, <1>8 DEF Next

\* A pump's queue is closed or is the one in the map, so audio_end, cancel and endTurn
\* end what the pump reads, for any turns and however often a connection or the worker
\* is lost (gateway-channel.ts, #queue, #onFrame and discard).
THEOREM PumpsAreReached == Spec => []OpenQueueIsOnTheMap
<1>1. Init => OpenQueueIsOnTheMap
  BY DEF Init, OpenQueueIsOnTheMap, Pumping
<1>2. TypeOK /\ OpenQueueIsOnTheMap /\ [Next]_vars => OpenQueueIsOnTheMap'
  BY NextReaches
<1> QED
  BY <1>1, <1>2, AudioTypeCorrect, PTL DEF Spec

-----------------------------------------------------------------------------
(* A frame is heard once and in its order.  Whatever holds frames of a turn (the pump,  *)
(* its queue, the queue in the map, the wire) holds them in order, and the first of     *)
(* these is before the next.                                                            *)

Increasing(s) == \A i, j \in 1..Len(s) : i < j => s[i] < s[j]

LEMMA IncreasingAppend ==
  ASSUME NEW s \in Seq(1..MaxFrames), NEW n \in 1..MaxFrames, Increasing(s),
         \A k \in 1..Len(s) : s[k] < n
  PROVE  Increasing(Append(s, n))
<1> DEFINE a == Append(s, n)
<1>1. /\ Len(a) = Len(s) + 1 /\ a[Len(s) + 1] = n /\ Len(s) \in Nat
      /\ \A k \in 1..Len(s) : a[k] = s[k]
  OBVIOUS
<1> HIDE DEF a
<1> SUFFICES ASSUME NEW i \in 1..Len(a), NEW j \in 1..Len(a), i < j
             PROVE  a[i] < a[j]
  BY DEF Increasing, a
<1>2. i \in 1..Len(s) /\ (j \in 1..Len(s) \/ j = Len(s) + 1)
  BY <1>1
<1> QED
  BY <1>1, <1>2 DEF Increasing

\* The first of an increasing sequence is before the others, which are increasing.
LEMMA IncreasingTail ==
  ASSUME NEW s \in Seq(1..MaxFrames), s # <<>>, Increasing(s)
  PROVE  /\ Increasing(Tail(s))
         /\ Head(s) = s[1] /\ 1 \in 1..Len(s)
         /\ \A k \in 1..Len(Tail(s)) : /\ k + 1 \in 1..Len(s)
                                       /\ Tail(s)[k] = s[k + 1]
                                       /\ Head(s) < Tail(s)[k]
<1> DEFINE r == Tail(s)
<1>1. /\ Len(r) = Len(s) - 1 /\ Len(s) \in Nat /\ Len(s) > 0 /\ Head(s) = s[1]
      /\ \A k \in 1..Len(r) : r[k] = s[k + 1]
  BY HeadTailProperties
<1> HIDE DEF r
<1>2. \A k \in 1..Len(r) : k + 1 \in 1..Len(s) /\ 1 < k + 1
  BY <1>1
<1>3. \A k \in 1..Len(r) : Head(s) < r[k]
  BY <1>1, <1>2 DEF Increasing
<1>4. ASSUME NEW i \in 1..Len(r), NEW j \in 1..Len(r), i < j
      PROVE  r[i] < r[j]
  <2>1. i + 1 \in 1..Len(s) /\ j + 1 \in 1..Len(s) /\ i + 1 < j + 1
    BY <1>1, <1>4
  <2> QED
    BY <1>1, <1>4, <2>1 DEF Increasing
<1>5. Increasing(r)
  BY <1>4 DEF Increasing
<1> QED
  BY <1>1, <1>2, <1>3, <1>5 DEF r

\* n was said in turn t, and is before every frame of t that is still on the wire.
BeforeTheWire(n, t) ==
  /\ n <= said[t]
  /\ \A i \in 1..Len(wire) : wire[i].t = "audio" /\ wire[i].turn = t => n < wire[i].n

\* The wire has the frames of a turn in order.
WireInv ==
  /\ \A i \in 1..Len(wire) : wire[i].t = "audio" => wire[i].n <= said[wire[i].turn]
  /\ \A i, j \in 1..Len(wire) :
       i < j /\ wire[i].t = "audio" /\ wire[j].t = "audio" /\ wire[i].turn = wire[j].turn
         => wire[i].n < wire[j].n

\* No two turns share a queue.
OwnQueues ==
  \A t, u \in Turn : audio[t] # NoQueue /\ (audio[u] = audio[t] \/ stream[u] = audio[t]) => u = t

\* A queue that turn t may yet push onto or read from.
QueueOf(t, q) == q # NoQueue /\ (q = audio[t] \/ q = stream[t])

QueueInv ==
  /\ \A q \in 1..Len(queues) : Increasing(queues[q].items)
  /\ \A t \in Turn : \A q \in 1..Len(queues) :
       QueueOf(t, q) => \A k \in 1..Len(queues[q].items) : BeforeTheWire(queues[q].items[k], t)

HeardInv ==
  \A t \in Turn :
    /\ Increasing(heard[t])
    /\ \A k \in 1..Len(heard[t]) : BeforeTheWire(heard[t][k], t)
    /\ pump[t] = "none" => heard[t] = <<>>
    /\ stream[t] # NoQueue =>
         \A k \in 1..Len(heard[t]) : \A m \in 1..Len(queues[stream[t]].items) :
           heard[t][k] < queues[stream[t]].items[m]

OrderInv == TypeOK /\ WireInv /\ OwnQueues /\ QueueInv /\ HeardInv

\* What is before the wire stays before it.
StillBefore ==
  \A n \in 1..MaxFrames, t \in Turn : BeforeTheWire(n, t) => BeforeTheWire(n, t)'

LEMMA Typing ==
  ASSUME TypeOK
  PROVE  /\ queues \in Seq(Queue) /\ Len(queues) \in Nat
         /\ wire \in Seq(Frame) /\ Len(wire) \in Nat
         /\ said \in [Turn -> 0..MaxFrames]
         /\ \A i \in 1..Len(wire) : /\ wire[i].turn \in Turn
                                    /\ wire[i].t = "audio" => wire[i].n \in 1..MaxFrames
         /\ \A q \in 1..Len(queues) : /\ queues[q] \in Queue
                                      /\ queues[q].items \in Seq(1..MaxFrames)
                                      /\ Len(queues[q].items) \in Nat
                                      /\ \A k \in 1..Len(queues[q].items) : queues[q].items[k] \in 1..MaxFrames
         /\ \A t \in Turn : /\ heard[t] \in Seq(1..MaxFrames)
                            /\ Len(heard[t]) \in Nat
                            /\ \A k \in 1..Len(heard[t]) : heard[t][k] \in 1..MaxFrames
<1>1. /\ queues \in Seq(Queue) /\ wire \in Seq(Frame)
      /\ said \in [Turn -> 0..MaxFrames] /\ heard \in [Turn -> Seq(1..MaxFrames)]
  BY DEF TypeOK
<1>2. \A i \in 1..Len(wire) : wire[i] \in Frame
  BY <1>1
<1>3. \A f \in Frame : f.turn \in Turn /\ (f.t = "audio" => f.n \in 1..MaxFrames)
  BY DEF Frame
<1>4. \A q \in 1..Len(queues) : queues[q] \in Queue
  BY <1>1
<1>5. \A q \in Queue : q.items \in Seq(1..MaxFrames)
  BY DEF Queue
<1>6. \A s \in Seq(1..MaxFrames) : Len(s) \in Nat /\ \A k \in 1..Len(s) : s[k] \in 1..MaxFrames
  BY LenProperties, ElementOfSeq
<1>7. Len(queues) \in Nat /\ Len(wire) \in Nat
  BY <1>1
<1> QED
  BY <1>1, <1>2, <1>3, <1>4, <1>5, <1>6, <1>7

\* A frame is sent behind the others; an audio frame of t is one more than was said.
LEMMA SendOrder ==
  ASSUME TypeOK, WireInv, NEW f \in Frame, Send(f),
         \/ f.t # "audio" /\ said' = said
         \/ /\ f.t = "audio" /\ f.n = said[f.turn] + 1
            /\ said' = [said EXCEPT ![f.turn] = @ + 1]
  PROVE  WireInv' /\ StillBefore
<1>1. f.turn \in Turn
  BY DEF Frame
<1>2. \A t \in Turn : said[t] \in Int /\ said'[t] \in Int /\ said[t] <= said'[t]
  <2>1. said \in [Turn -> 0..MaxFrames] /\ \A t \in Turn : said[t] \in Int
    BY AudioConstants DEF TypeOK
  <2>2. CASE said' = said
    BY <2>1, <2>2
  <2>3. CASE said' = [said EXCEPT ![f.turn] = @ + 1]
    BY <1>1, <2>1, <2>3
  <2> QED
    BY <2>2, <2>3
<1>3. f.t = "audio" => f.n = said[f.turn] + 1 /\ f.n <= said'[f.turn]
  BY <1>1, <1>2, Typing
<1>4. CASE wire' = wire
  <2>1. WireInv'
    BY SMTT(30), <1>2, <1>4, Typing DEF WireInv
  <2>2. StillBefore
    BY <1>2, <1>4, Typing DEF StillBefore, BeforeTheWire
  <2> QED
    BY <2>1, <2>2
<1>5. CASE wire' = Append(wire, f)
  <2>1. /\ Len(wire') = Len(wire) + 1 /\ wire'[Len(wire) + 1] = f
        /\ \A i \in 1..Len(wire) : wire'[i] = wire[i]
    BY <1>5, Typing
  <2>2. \A i \in 1..Len(wire') : i \in 1..Len(wire) \/ i = Len(wire) + 1
    BY <2>1, Typing
  <2>3. WireInv'
    <3>1. \A i \in 1..Len(wire') : wire'[i].t = "audio" => wire'[i].n <= said'[wire'[i].turn]
      <4> SUFFICES ASSUME NEW i \in 1..Len(wire'), wire'[i].t = "audio"
                   PROVE  wire'[i].n <= said'[wire'[i].turn]
        OBVIOUS
      <4>1. CASE i \in 1..Len(wire)
        <5>1. wire[i].n <= said[wire[i].turn] /\ wire[i].turn \in Turn
          BY <2>1, <4>1, Typing DEF WireInv
        <5>2. wire[i].n \in Int
          BY <2>1, <4>1, Typing, AudioConstants
        <5> QED
          BY <1>2, <2>1, <4>1, <5>1, <5>2
      <4>2. CASE i = Len(wire) + 1
        BY <1>3, <2>1, <4>2
      <4> QED
        BY <2>2, <4>1, <4>2
    <3>2. ASSUME NEW i \in 1..Len(wire'), NEW j \in 1..Len(wire'), i < j,
                 wire'[i].t = "audio", wire'[j].t = "audio", wire'[i].turn = wire'[j].turn
          PROVE  wire'[i].n < wire'[j].n
      <4>1. i \in 1..Len(wire)
        BY <2>1, <3>2, Typing
      <4>2. CASE j \in 1..Len(wire)
        BY <2>1, <3>2, <4>1, <4>2 DEF WireInv
      <4>3. CASE j = Len(wire) + 1
        <5>1. wire[i].n <= said[f.turn] /\ wire[i].n \in Int
          BY <2>1, <3>2, <4>1, <4>3, Typing DEF WireInv
        <5>2. f.n = said[f.turn] + 1
          BY <1>3, <2>1, <3>2, <4>3
        <5> QED
          BY <1>1, <1>2, <2>1, <4>1, <4>3, <5>1, <5>2
      <4> QED
        BY <2>2, <4>2, <4>3
    <3> QED
      BY <3>1, <3>2 DEF WireInv
  <2>4. ASSUME NEW n \in 1..MaxFrames, NEW t \in Turn, BeforeTheWire(n, t)
        PROVE  BeforeTheWire(n, t)'
    <3>1. n <= said[t] /\ n <= said'[t]
      BY <1>2, <2>4 DEF BeforeTheWire
    <3>2. ASSUME NEW i \in 1..Len(wire'), wire'[i].t = "audio", wire'[i].turn = t
          PROVE  n < wire'[i].n
      <4>1. CASE i \in 1..Len(wire)
        BY <2>1, <2>4, <3>2, <4>1 DEF BeforeTheWire
      <4>2. CASE i = Len(wire) + 1
        BY <1>2, <1>3, <2>1, <3>1, <3>2, <4>2
      <4> QED
        BY <2>2, <4>1, <4>2
    <3> QED
      BY <3>1, <3>2 DEF BeforeTheWire
  <2> QED
    BY <2>3, <2>4 DEF StillBefore
<1> QED
  BY <1>4, <1>5 DEF Send

\* A frame that is read is the first of the wire; a wire that breaks has none.
LEMMA WireOrder ==
  ASSUME TypeOK, WireInv, said' = said, wire' = <<>> \/ (wire # <<>> /\ wire' = Tail(wire))
  PROVE  WireInv' /\ StillBefore
<1>1. CASE wire' = <<>>
  BY <1>1 DEF WireInv, StillBefore, BeforeTheWire
<1>2. CASE wire # <<>> /\ wire' = Tail(wire)
  <2>1. /\ Len(wire') = Len(wire) - 1 /\ Len(wire) \in Nat
        /\ \A i \in 1..Len(wire') : i + 1 \in 1..Len(wire) /\ wire'[i] = wire[i + 1]
    BY <1>2, Typing, HeadTailProperties
  <2>2. WireInv'
    <3>1. \A i \in 1..Len(wire') : wire'[i].t = "audio" => wire'[i].n <= said'[wire'[i].turn]
      BY <2>1 DEF WireInv
    <3>2. ASSUME NEW i \in 1..Len(wire'), NEW j \in 1..Len(wire'), i < j,
                 wire'[i].t = "audio", wire'[j].t = "audio", wire'[i].turn = wire'[j].turn
          PROVE  wire'[i].n < wire'[j].n
      <4>1. i + 1 \in 1..Len(wire) /\ j + 1 \in 1..Len(wire) /\ i + 1 < j + 1
        BY <2>1, <3>2
      <4> QED
        BY <2>1, <3>2, <4>1 DEF WireInv
    <3> QED
      BY <3>1, <3>2 DEF WireInv
  <2>3. StillBefore
    BY <2>1, Typing DEF StillBefore, BeforeTheWire
  <2> QED
    BY <2>2, <2>3
<1> QED
  BY <1>1, <1>2

LEMMA GatewayOrder ==
  ASSUME TypeOK, WireInv, NEW t \in Turn,
         OpenMic(t) \/ Forward(t) \/ CloseMic(t) \/ Cut(t) \/ Leave(t)
  PROVE  WireInv' /\ StillBefore
<1>1. CASE Forward(t)
  <2> DEFINE f == [t |-> "audio", turn |-> t, n |-> said[t] + 1]
  <2>1. f \in Frame
    <3>1. said[t] + 1 \in 1..MaxFrames
      BY <1>1, AudioConstants DEF Forward, TypeOK
    <3> QED
      BY <3>1 DEF Frame
  <2>2. /\ f.t = "audio" /\ f.n = said[f.turn] + 1
        /\ said' = [said EXCEPT ![f.turn] = @ + 1]
        /\ Send(f)
    BY <1>1 DEF Forward
  <2> HIDE DEF f
  <2> QED
    BY <2>1, <2>2, SendOrder
<1>2. CASE CloseMic(t)
  <2> DEFINE f == [t |-> "audio_end", turn |-> t]
  <2>1. f \in Frame /\ f.t # "audio" /\ said' = said /\ Send(f)
    BY <1>2 DEF CloseMic, Frame
  <2> HIDE DEF f
  <2> QED
    BY <2>1, SendOrder
<1>3. CASE Cut(t)
  <2> DEFINE f == [t |-> "cancel", turn |-> t]
  <2>1. f \in Frame /\ f.t # "audio" /\ said' = said /\ Send(f)
    BY <1>3 DEF Cut, Frame
  <2> HIDE DEF f
  <2> QED
    BY <2>1, SendOrder
<1>4. CASE OpenMic(t) \/ Leave(t)
  BY <1>4 DEF OpenMic, Leave, WireInv, StillBefore, BeforeTheWire
<1> QED
  BY <1>1, <1>2, <1>3, <1>4

\* Steps that touch no queue and no pump.
LEMMA QuietOrder ==
  ASSUME OrderInv, StillBefore, UNCHANGED <<queues, audio, pump, stream, heard>>
  PROVE  OwnQueues' /\ QueueInv' /\ HeardInv'
<1>1. OwnQueues'
  BY DEF OrderInv, OwnQueues
<1>2. QueueInv'
  BY Typing DEF OrderInv, QueueInv, QueueOf, StillBefore
<1>3. HeardInv'
  BY Typing DEF OrderInv, HeardInv, StillBefore
<1> QED
  BY <1>1, <1>2, <1>3

\* A queue that is closed and taken off the map keeps its items.
LEMMA ForgetOrder ==
  ASSUME OrderInv, StillBefore, NEW t \in Turn, Forget(t), UNCHANGED <<pump, stream, heard>>
  PROVE  OwnQueues' /\ QueueInv' /\ HeardInv'
<1>1. TypeOK
  BY DEF OrderInv
<1>2. /\ Len(queues') = Len(queues)
      /\ audio' = [audio EXCEPT ![t] = NoQueue]
      /\ \A q \in 1..Len(queues) : queues'[q].items = queues[q].items
  BY <1>1, ForgetQueue
<1>3. \A u \in Turn : audio'[u] = audio[u] \/ audio'[u] = NoQueue
  BY <1>1, <1>2 DEF TypeOK
<1>4. OwnQueues'
  BY <1>3 DEF OrderInv, OwnQueues
<1>5. \A u \in Turn : \A q \in 1..Len(queues) : QueueOf(u, q)' => QueueOf(u, q)
  BY <1>3 DEF QueueOf
<1>6. QueueInv'
  BY <1>1, <1>2, <1>5, Typing DEF OrderInv, QueueInv, StillBefore
<1>7. \A u \in Turn : stream[u] # NoQueue => stream[u] \in 1..Len(queues)
  BY <1>1 DEF TypeOK, NoQueue
<1>8. HeardInv'
  BY <1>1, <1>2, <1>7, Typing DEF OrderInv, HeardInv, StillBefore
<1> QED
  BY <1>4, <1>6, <1>8

\* What #queue answers is in order too: a new queue is empty, and its turn's own.
LEMMA GetOrder ==
  ASSUME OrderInv, NEW t \in Turn
  PROVE  /\ \A q \in 1..Len(Get(t).queues) : Increasing(Get(t).queues[q].items)
         /\ \A u \in Turn : Get(t).audio[u] = audio[u] \/ (u = t /\ Get(t).audio[u] = Get(t).id)
         /\ \A u \in Turn : Get(t).audio[u] = Get(t).id \/ stream[u] = Get(t).id => u = t
         /\ \A u, v \in Turn : Get(t).audio[u] # NoQueue
              /\ (Get(t).audio[v] = Get(t).audio[u] \/ stream[v] = Get(t).audio[u]) => v = u
         /\ \A k \in 1..Len(Get(t).queues[Get(t).id].items) :
              BeforeTheWire(Get(t).queues[Get(t).id].items[k], t)
<1> DEFINE got == Get(t)
<1>1. TypeOK
  BY DEF OrderInv
<1>2. /\ Len(got.queues) \in Nat /\ Len(queues) <= Len(got.queues)
      /\ \A q \in 1..Len(queues) : got.queues[q] = queues[q]
      /\ \A q \in 1..Len(got.queues) : q \in 1..Len(queues) \/ q = got.id
      /\ \/ /\ audio[t] # NoQueue /\ got.id = audio[t]
            /\ got.queues = queues /\ got.audio = audio
         \/ /\ audio[t] = NoQueue /\ got.id = Len(queues) + 1
            /\ got.queues[got.id] = [items |-> <<>>, closed |-> t \in ended]
            /\ got.audio = audio \/ got.audio = [audio EXCEPT ![t] = got.id]
  BY <1>1, GetQueue
<1> HIDE DEF got
<1>3. /\ audio \in [Turn -> NoQueue..Len(queues)] /\ stream \in [Turn -> NoQueue..Len(queues)]
      /\ Len(queues) \in Nat
  BY <1>1 DEF TypeOK
<1>4. CASE audio[t] # NoQueue /\ got.id = audio[t] /\ got.queues = queues /\ got.audio = audio
  <2>1. audio[t] \in 1..Len(queues) /\ QueueOf(t, audio[t])
    BY <1>3, <1>4 DEF QueueOf, NoQueue
  <2>2. \A k \in 1..Len(queues[audio[t]].items) : BeforeTheWire(queues[audio[t]].items[k], t)
    BY <2>1 DEF OrderInv, QueueInv
  <2>3. /\ \A u \in Turn : audio[u] = audio[t] \/ stream[u] = audio[t] => u = t
        /\ \A u, v \in Turn : audio[u] # NoQueue /\ (audio[v] = audio[u] \/ stream[v] = audio[u]) => v = u
    BY <1>4 DEF OrderInv, OwnQueues
  <2>4. \A q \in 1..Len(queues) : Increasing(queues[q].items)
    BY DEF OrderInv, QueueInv
  <2> QED
    BY <1>4, <2>2, <2>3, <2>4 DEF got
<1>5. CASE /\ audio[t] = NoQueue /\ got.id = Len(queues) + 1
           /\ got.queues[got.id] = [items |-> <<>>, closed |-> t \in ended]
           /\ got.audio = audio \/ got.audio = [audio EXCEPT ![t] = got.id]
  <2>1. got.queues[got.id].items = <<>>
    BY <1>5
  <2>2. \A q \in 1..Len(got.queues) : Increasing(got.queues[q].items)
    <3>1. \A q \in 1..Len(queues) : Increasing(queues[q].items)
      BY DEF OrderInv, QueueInv
    <3>2. Increasing(<<>>)
      BY DEF Increasing
    <3> QED
      BY <1>2, <2>1, <3>1, <3>2
  <2>3. \A u \in Turn : got.audio[u] = audio[u] \/ (u = t /\ got.audio[u] = got.id)
    BY <1>3, <1>5
  <2>4. \A u \in Turn : audio[u] # got.id /\ stream[u] # got.id
    BY <1>3, <1>5 DEF NoQueue
  <2>5. \A u, v \in Turn : got.audio[u] # NoQueue
          /\ (got.audio[v] = got.audio[u] \/ stream[v] = got.audio[u]) => v = u
    BY <2>3, <2>4 DEF OrderInv, OwnQueues
  <2> QED
    BY <2>1, <2>2, <2>3, <2>4, <2>5 DEF got
<1> QED
  BY <1>2, <1>4, <1>5

\* The first frame of the wire goes behind the queue of its turn.
LEMMA OnAudioOrder ==
  ASSUME OrderInv, StillBefore, NEW f \in Frame, OnAudio(f), wire # <<>>, f = Head(wire),
         wire' = Tail(wire), UNCHANGED <<said, pump, stream, heard>>
  PROVE  OwnQueues' /\ QueueInv' /\ HeardInv'
<1> DEFINE t   == f.turn
           got == Get(t)
           old == got.queues[got.id]
           new == Push(old, f.n)
<1>1. TypeOK
  BY DEF OrderInv
<1>2. /\ f = wire[1] /\ 1 \in 1..Len(wire)
      /\ Len(wire') = Len(wire) - 1
      /\ \A i \in 1..Len(wire') : i + 1 \in 1..Len(wire) /\ wire'[i] = wire[i + 1]
  BY <1>1, Typing, HeadTailProperties
<1>3. f.t = "audio" /\ t \in Turn /\ f.n \in 1..MaxFrames
  BY <1>2 DEF OnAudio, Frame
<1>4. BeforeTheWire(f.n, t)'
  <2>1. f.n <= said[t]
    BY <1>2, <1>3 DEF OrderInv, WireInv
  <2>2. \A i \in 1..Len(wire') :
          wire'[i].t = "audio" /\ wire'[i].turn = t => f.n < wire'[i].n
    <3> SUFFICES ASSUME NEW i \in 1..Len(wire'), wire'[i].t = "audio", wire'[i].turn = t
                 PROVE  f.n < wire'[i].n
      OBVIOUS
    <3>1. i + 1 \in 1..Len(wire) /\ 1 < i + 1 /\ wire[i + 1] = wire'[i]
      BY <1>2
    <3> QED
      BY <1>2, <1>3, <3>1 DEF OrderInv, WireInv
  <2> QED
    BY <2>1, <2>2 DEF BeforeTheWire
<1>5. /\ queues' = [got.queues EXCEPT ![got.id] = new]
      /\ audio' = got.audio
  BY DEF OnAudio
<1>6. /\ got.queues \in Seq(Queue) /\ got.id \in 1..Len(got.queues) /\ Len(got.queues) \in Nat
      /\ Len(queues) <= Len(got.queues) /\ Len(queues) \in Nat
      /\ \A q \in 1..Len(queues) : got.queues[q] = queues[q]
      /\ \A q \in 1..Len(got.queues) : q \in 1..Len(queues) \/ q = got.id
  BY <1>1, <1>3, GetQueue, Typing
<1>7. /\ \A q \in 1..Len(got.queues) : Increasing(got.queues[q].items)
      /\ \A u \in Turn : got.audio[u] = audio[u] \/ (u = t /\ got.audio[u] = got.id)
      /\ \A u \in Turn : got.audio[u] = got.id \/ stream[u] = got.id => u = t
      /\ \A u, v \in Turn : got.audio[u] # NoQueue
           /\ (got.audio[v] = got.audio[u] \/ stream[v] = got.audio[u]) => v = u
      /\ \A k \in 1..Len(old.items) : BeforeTheWire(old.items[k], t)
  BY <1>3, GetOrder
<1>8. old \in Queue
  BY <1>6
<1>9. new \in Queue /\ new.items = IF old.closed THEN old.items ELSE Append(old.items, f.n)
  BY <1>3, <1>8, PushQueue
<1>10. /\ old.items \in Seq(1..MaxFrames) /\ Len(old.items) \in Nat
       /\ \A k \in 1..Len(old.items) : old.items[k] \in 1..MaxFrames
  BY <1>8, LenProperties, ElementOfSeq DEF Queue
<1>11. BeforeTheWire(f.n, t)' /\ \A k \in 1..Len(old.items) : old.items[k] < f.n
  BY ZenonT(40), <1>2, <1>3, <1>4, <1>7 DEF BeforeTheWire
<1> HIDE DEF t, got, old, new
<1>12. \A n \in 1..MaxFrames : (\E k \in 1..Len(old.items) : n = old.items[k]) => BeforeTheWire(n, t)'
  BY <1>3, <1>7, <1>10 DEF StillBefore
<1>13. /\ Len(new.items) \in Nat
       /\ \A k \in 1..Len(new.items) : \/ k \in 1..Len(old.items) /\ new.items[k] = old.items[k]
                                       \/ k = Len(old.items) + 1 /\ new.items[k] = f.n
  <2>1. CASE new.items = old.items
    BY <1>10, <2>1
  <2>2. CASE new.items = Append(old.items, f.n)
    BY <1>3, <1>10, <2>2, AppendProperties
  <2> QED
    BY <1>9, <2>1, <2>2
<1>14. Increasing(new.items)
  <2>1. Increasing(old.items)
    BY <1>6, <1>7 DEF old
  <2> QED
    BY <1>3, <1>9, <1>10, <1>11, <2>1, IncreasingAppend
<1>15. /\ Len(queues') = Len(got.queues) /\ queues'[got.id] = new
       /\ \A q \in 1..Len(got.queues) : q # got.id => queues'[q] = queues[q] /\ q \in 1..Len(queues)
  BY <1>5, <1>6
<1>16. OwnQueues'
  BY <1>5, <1>7 DEF OwnQueues
<1>17. QueueInv'
  <2>1. \A q \in 1..Len(queues') : Increasing(queues'[q].items)
    BY <1>6, <1>7, <1>14, <1>15
  <2>2. ASSUME NEW u \in Turn, NEW q \in 1..Len(queues'), QueueOf(u, q)',
               NEW k \in 1..Len(queues'[q].items)
        PROVE  BeforeTheWire(queues[q].items[k], u)'
    <3>1. CASE q = got.id
      <4>1. u = t
        BY <1>5, <1>7, <2>2, <3>1 DEF QueueOf
      <4> QED
        BY <1>3, <1>10, <1>11, <1>12, <1>13, <1>15, <2>2, <3>1, <4>1 DEF BeforeTheWire
    <3>2. CASE q # got.id
      <4>1. queues'[q] = queues[q] /\ q \in 1..Len(queues)
        BY <1>15, <2>2, <3>2
      <4>2. QueueOf(u, q)
        BY <1>5, <1>7, <2>2, <3>2 DEF QueueOf
      <4>3. PICK n \in 1..MaxFrames : n = queues[q].items[k]
        BY <1>1, <2>2, <4>1, Typing
      <4>4. BeforeTheWire(n, u)
        BY <2>2, <4>1, <4>2, <4>3 DEF OrderInv, QueueInv
      <4>5. BeforeTheWire(n, u)'
        BY <4>4 DEF StillBefore
      <4> QED
        BY <4>1, <4>3, <4>5 DEF BeforeTheWire
    <3> QED
      BY <3>1, <3>2
  <2> QED
    BY <2>1, <2>2 DEF QueueInv
<1>18. HeardInv'
  <2> SUFFICES ASSUME NEW u \in Turn
               PROVE  /\ \A k \in 1..Len(heard[u]) : BeforeTheWire(heard[u][k], u)'
                      /\ stream[u] # NoQueue =>
                           \A k \in 1..Len(heard[u]) : \A m \in 1..Len(queues'[stream[u]].items) :
                             heard[u][k] < queues'[stream[u]].items[m]
    BY DEF HeardInv, OrderInv
  <2>1. \A k \in 1..Len(heard[u]) : BeforeTheWire(heard[u][k], u)'
    BY <1>1, Typing DEF OrderInv, HeardInv, StillBefore
  <2>2. ASSUME stream[u] # NoQueue, NEW k \in 1..Len(heard[u]),
               NEW m \in 1..Len(queues'[stream[u]].items)
        PROVE  heard[u][k] < queues'[stream[u]].items[m]
    <3>1. stream[u] \in 1..Len(queues)
      BY <1>1, <2>2 DEF TypeOK, NoQueue
    <3>2. \A i \in 1..Len(queues[stream[u]].items) : heard[u][k] < queues[stream[u]].items[i]
      BY <2>2 DEF OrderInv, HeardInv
    <3>3. CASE stream[u] = got.id
      <4>1. u = t
        BY <1>7, <3>3
      <4>2. heard[t][k] < f.n
        <5>1. BeforeTheWire(heard[t][k], t)
          BY <2>2, <4>1 DEF OrderInv, HeardInv
        <5> QED
          BY <1>2, <1>3, <5>1 DEF BeforeTheWire, t
      <4>3. old = queues[stream[u]]
        BY <1>6, <3>1, <3>3 DEF old
      <4> QED
        BY <1>13, <1>15, <2>2, <3>2, <3>3, <4>1, <4>2, <4>3
    <3>4. CASE stream[u] # got.id
      <4>1. queues'[stream[u]] = queues[stream[u]]
        BY <1>6, <1>15, <3>1, <3>4
      <4> QED
        BY <2>2, <3>2, <4>1
    <3> QED
      BY <3>3, <3>4
  <2> QED
    BY <2>1, <2>2
<1> QED
  BY <1>16, <1>17, <1>18

\* A transcribe that starts has heard nothing, and is handed a queue of its own.
LEMMA StartOrder ==
  ASSUME OrderInv, NEW t \in Turn, StartTranscribe(t)
  PROVE  OwnQueues' /\ QueueInv' /\ HeardInv'
<1> DEFINE got == Get(t)
<1>1. TypeOK
  BY DEF OrderInv
<1>2. /\ queues' = got.queues /\ audio' = got.audio
      /\ stream' = [stream EXCEPT ![t] = got.id]
      /\ pump' = [pump EXCEPT ![t] = "opening"]
      /\ heard' = heard /\ wire' = wire /\ said' = said
  BY DEF StartTranscribe, AudioStream, gateway
<1>3. heard[t] = <<>>
  BY DEF StartTranscribe, OrderInv, HeardInv
<1>4. /\ got.id \in 1..Len(got.queues) /\ Len(got.queues) \in Nat
      /\ Len(queues) <= Len(got.queues) /\ Len(queues) \in Nat
      /\ \A q \in 1..Len(queues) : got.queues[q] = queues[q]
      /\ \A q \in 1..Len(got.queues) : q \in 1..Len(queues) \/ q = got.id
  BY <1>1, GetQueue, Typing
<1>5. /\ \A q \in 1..Len(got.queues) : Increasing(got.queues[q].items)
      /\ \A u \in Turn : got.audio[u] = audio[u] \/ (u = t /\ got.audio[u] = got.id)
      /\ \A u \in Turn : got.audio[u] = got.id \/ stream[u] = got.id => u = t
      /\ \A u, v \in Turn : got.audio[u] # NoQueue
           /\ (got.audio[v] = got.audio[u] \/ stream[v] = got.audio[u]) => v = u
      /\ \A k \in 1..Len(got.queues[got.id].items) :
           BeforeTheWire(got.queues[got.id].items[k], t)
  BY GetOrder
<1> HIDE DEF got
<1>6. \A u \in Turn : stream'[u] = stream[u] \/ (u = t /\ stream'[u] = got.id)
  BY <1>1, <1>2 DEF TypeOK
<1>7. OwnQueues'
  BY <1>2, <1>5, <1>6 DEF OwnQueues
<1>8. QueueInv'
  <2>1. \A q \in 1..Len(queues') : Increasing(queues'[q].items)
    BY <1>2, <1>5
  <2>2. ASSUME NEW u \in Turn, NEW q \in 1..Len(queues'), QueueOf(u, q)',
               NEW k \in 1..Len(queues'[q].items)
        PROVE  BeforeTheWire(queues[q].items[k], u)'
    <3>1. CASE q = got.id
      <4>1. u = t
        BY <1>2, <1>5, <1>6, <2>2, <3>1 DEF QueueOf
      <4> QED
        BY <1>2, <1>5, <2>2, <3>1, <4>1 DEF BeforeTheWire
    <3>2. CASE q # got.id
      <4>1. queues'[q] = queues[q] /\ q \in 1..Len(queues)
        BY <1>2, <1>4, <2>2, <3>2
      <4>2. QueueOf(u, q)
        BY <1>2, <1>5, <1>6, <2>2, <3>2 DEF QueueOf
      <4>3. BeforeTheWire(queues[q].items[k], u)
        BY <2>2, <4>1, <4>2 DEF OrderInv, QueueInv
      <4> QED
        BY <1>2, <4>1, <4>3 DEF BeforeTheWire
    <3> QED
      BY <3>1, <3>2
  <2> QED
    BY <2>1, <2>2 DEF QueueInv
<1>9. HeardInv'
  <2> SUFFICES ASSUME NEW u \in Turn
               PROVE  /\ Increasing(heard[u])
                      /\ \A k \in 1..Len(heard[u]) : BeforeTheWire(heard[u][k], u)
                      /\ pump'[u] = "none" => heard[u] = <<>>
                      /\ stream'[u] # NoQueue =>
                           \A k \in 1..Len(heard[u]) : \A m \in 1..Len(queues'[stream'[u]].items) :
                             heard[u][k] < queues'[stream'[u]].items[m]
    BY <1>2 DEF HeardInv, BeforeTheWire
  <2>1. CASE u = t
    BY <1>3, <2>1 DEF Increasing
  <2>2. CASE u # t
    <3>1. stream'[u] = stream[u] /\ pump'[u] = pump[u]
      BY <1>1, <1>2, <2>2 DEF TypeOK
    <3>2. stream[u] # NoQueue => queues'[stream[u]] = queues[stream[u]]
      BY SMTT(30), <1>1, <1>2, <1>4 DEF TypeOK, NoQueue
    <3> QED
      BY <3>1, <3>2 DEF OrderInv, HeardInv
  <2> QED
    BY <2>1, <2>2
<1> QED
  BY <1>7, <1>8, <1>9

\* A pump takes the first of its queue, which is behind all that it has heard.
LEMMA ReadOrder ==
  ASSUME OrderInv, NEW t \in Turn, PumpReads(t)
  PROVE  OwnQueues' /\ QueueInv' /\ HeardInv'
<1> DEFINE s    == stream[t]
           old  == queues[s].items
           next == Head(old)
<1>1. TypeOK
  BY DEF OrderInv
<1>2. /\ UNCHANGED <<audio, stream, wire, said>>
      /\ queues' = [queues EXCEPT ![s] = [queues[s] EXCEPT !.items = Tail(old)]]
      /\ pump[t] = "reading" /\ old # <<>>
      /\ \A u \in Turn : pump'[u] = "none" => pump[u] = "none"
      /\ heard' \in {heard, [heard EXCEPT ![t] = Append(heard[t], next)]}
  BY <1>1 DEF PumpReads, TypeOK, gateway
<1>3. s \in 1..Len(queues) /\ QueueOf(t, s)
  BY <1>1, <1>2 DEF TypeOK, NoQueue, Pumping, QueueOf
<1>4. /\ queues \in Seq(Queue) /\ queues[s] \in Queue /\ old \in Seq(1..MaxFrames)
      /\ heard[t] \in Seq(1..MaxFrames) /\ heard \in [Turn -> Seq(1..MaxFrames)]
      /\ Len(queues) \in Nat
  BY <1>1, <1>3, Typing DEF TypeOK
<1>5. /\ Increasing(old)
      /\ \A k \in 1..Len(old) : BeforeTheWire(old[k], t)
  BY <1>3 DEF OrderInv, QueueInv
<1>6. /\ Increasing(Tail(old))
      /\ next = old[1] /\ 1 \in 1..Len(old)
      /\ \A k \in 1..Len(Tail(old)) : /\ k + 1 \in 1..Len(old)
                                      /\ Tail(old)[k] = old[k + 1]
                                      /\ next < Tail(old)[k]
  BY <1>2, <1>4, <1>5, IncreasingTail
<1>7. next \in 1..MaxFrames /\ BeforeTheWire(next, t)
  BY <1>2, <1>4, <1>5, <1>6, HeadTailProperties
<1>8. \A k \in 1..Len(heard[t]) : \A m \in 1..Len(old) : heard[t][k] < old[m]
  BY <1>3 DEF OrderInv, HeardInv, QueueOf
<1>9. [queues[s] EXCEPT !.items = Tail(old)].items = Tail(old)
  BY <1>4 DEF Queue
<1> HIDE DEF s, old, next
<1>10. /\ Len(queues') = Len(queues)
       /\ queues'[s].items = Tail(old)
       /\ \A q \in 1..Len(queues) : q # s => queues'[q] = queues[q]
  BY <1>2, <1>3, <1>4, <1>9
<1>11. OwnQueues'
  BY <1>2 DEF OrderInv, OwnQueues
<1>12. QueueInv'
  <2>1. \A q \in 1..Len(queues') : Increasing(queues'[q].items)
    BY <1>6, <1>10 DEF OrderInv, QueueInv
  <2>2. ASSUME NEW u \in Turn, NEW q \in 1..Len(queues'), QueueOf(u, q)',
               NEW k \in 1..Len(queues'[q].items)
        PROVE  BeforeTheWire(queues[q].items[k], u)'
    <3>1. QueueOf(u, q) /\ q \in 1..Len(queues)
      BY <1>2, <1>10, <2>2 DEF QueueOf
    <3>2. PICK m \in 1..Len(queues[q].items) : queues'[q].items[k] = queues[q].items[m]
      <4>1. CASE q = s
        BY <1>6, <1>10, <2>2, <4>1 DEF old
      <4>2. CASE q # s
        BY <1>10, <2>2, <3>1, <4>2
      <4> QED
        BY <4>1, <4>2
    <3>3. BeforeTheWire(queues[q].items[m], u)
      BY <3>1, <3>2 DEF OrderInv, QueueInv
    <3> QED
      BY <1>2, <3>2, <3>3 DEF BeforeTheWire
  <2> QED
    BY <2>1, <2>2 DEF QueueInv
<1>13. HeardInv'
  <2> SUFFICES ASSUME NEW u \in Turn
               PROVE  /\ Increasing(heard'[u])
                      /\ \A k \in 1..Len(heard'[u]) : BeforeTheWire(heard'[u][k], u)
                      /\ pump'[u] = "none" => heard'[u] = <<>>
                      /\ stream[u] # NoQueue =>
                           \A k \in 1..Len(heard'[u]) : \A m \in 1..Len(queues'[stream[u]].items) :
                             heard'[u][k] < queues'[stream[u]].items[m]
    BY <1>2 DEF HeardInv, BeforeTheWire
  <2>1. /\ Increasing(heard[u])
        /\ \A k \in 1..Len(heard[u]) : BeforeTheWire(heard[u][k], u)
        /\ pump[u] = "none" => heard[u] = <<>>
        /\ stream[u] # NoQueue =>
             \A k \in 1..Len(heard[u]) : \A m \in 1..Len(queues[stream[u]].items) :
               heard[u][k] < queues[stream[u]].items[m]
    BY DEF OrderInv, HeardInv
  <2>2. stream[u] # NoQueue => stream[u] \in 1..Len(queues)
    BY <1>1 DEF TypeOK, NoQueue
  <2>3. CASE heard'[u] = heard[u]
    <3>1. \A m \in 1..Len(Tail(old)) : m + 1 \in 1..Len(old) /\ Tail(old)[m] = old[m + 1]
      BY <1>6
    <3>2. stream[u] # NoQueue =>
            \A m \in 1..Len(queues'[stream[u]].items) :
              \E i \in 1..Len(queues[stream[u]].items) :
                queues'[stream[u]].items[m] = queues[stream[u]].items[i]
      <4>1. CASE stream[u] = s
        BY <1>10, <3>1, <4>1 DEF old
      <4>2. CASE stream[u] # s
        BY <1>10, <2>2, <4>2
      <4> QED
        BY <4>1, <4>2
    <3> QED
      BY <1>2, <2>1, <2>3, <3>2
  <2>4. CASE u = t /\ heard'[u] = Append(heard[t], next)
    <3>1. \A k \in 1..Len(heard[t]) : heard[t][k] < next
      BY <1>6, <1>8
    <3>2. Increasing(heard'[u])
      BY <1>4, <1>7, <2>1, <2>4, <3>1, IncreasingAppend
    <3>3. \A k \in 1..Len(heard'[u]) :
            (k \in 1..Len(heard[t]) /\ heard'[u][k] = heard[t][k]) \/ heard'[u][k] = next
      BY <1>4, <1>7, <2>4, AppendProperties
    <3>4. \A k \in 1..Len(heard'[u]) : BeforeTheWire(heard'[u][k], u)
      BY <1>7, <2>1, <2>4, <3>3
    <3>5. \A k \in 1..Len(heard'[u]) : \A m \in 1..Len(Tail(old)) : heard'[u][k] < Tail(old)[m]
      BY <1>6, <1>8, <3>3
    <3> QED
      BY <1>2, <1>10, <2>4, <3>2, <3>4, <3>5 DEF s
  <2> QED
    BY <1>2, <1>4, <2>3, <2>4
<1> QED
  BY <1>11, <1>12, <1>13

LEMMA NextOrder ==
  ASSUME OrderInv, [Next]_vars
  PROVE  OrderInv'
<1>1. TypeOK /\ TypeOK' /\ WireInv
  BY NextTyped DEF OrderInv
<1>2. CASE \E t \in Turn : OpenMic(t) \/ Forward(t) \/ CloseMic(t) \/ Cut(t) \/ Leave(t)
  <2>1. WireInv' /\ StillBefore
    BY <1>1, <1>2, GatewayOrder
  <2>2. UNCHANGED <<queues, audio, pump, stream, heard>>
    BY <1>2 DEF OpenMic, Forward, CloseMic, Cut, Leave, worker
  <2> QED
    BY <1>1, <2>1, <2>2, QuietOrder DEF OrderInv
<1>3. CASE OnFrame
  <2>1. /\ wire # <<>> /\ wire' = Tail(wire)
        /\ UNCHANGED <<said, pump, stream, heard>>
        /\ OnAudio(Head(wire)) \/ OnAudioEnd(Head(wire)) \/ OnCancel(Head(wire))
    BY <1>3 DEF OnFrame, gateway
  <2>2. PICK f \in Frame : f = Head(wire)
    BY <1>1, <2>1, Typing, HeadTailProperties
  <2>3. WireInv' /\ StillBefore
    BY <1>1, <2>1, WireOrder
  <2>4. CASE OnAudio(f)
    BY <1>1, <2>1, <2>2, <2>3, <2>4, OnAudioOrder DEF OrderInv
  <2>5. CASE OnAudioEnd(f) \/ OnCancel(f)
    <3>1. Forget(f.turn) /\ f.turn \in Turn
      BY <2>5 DEF OnAudioEnd, OnCancel, Discard, Frame
    <3> QED
      BY <1>1, <2>1, <2>3, <3>1, ForgetOrder DEF OrderInv
  <2> QED
    BY <2>1, <2>2, <2>4, <2>5
<1>4. ASSUME UNCHANGED <<said, wire>>
      PROVE  WireInv' /\ StillBefore
  BY <1>1, <1>4 DEF WireInv, StillBefore, BeforeTheWire
<1>5. CASE \E t \in Turn : StartTranscribe(t)
  <2>1. UNCHANGED <<said, wire>>
    BY <1>5 DEF StartTranscribe, gateway
  <2> QED
    BY <1>1, <1>4, <1>5, <2>1, StartOrder DEF OrderInv
<1>6. CASE \E t \in Turn : PumpReads(t)
  <2>1. UNCHANGED <<said, wire>>
    BY <1>6 DEF PumpReads, gateway
  <2> QED
    BY <1>1, <1>4, <1>6, <2>1, ReadOrder DEF OrderInv
<1>7. CASE \E t \in Turn : PumpOpens(t) \/ PumpFlushes(t)
  <2>1. /\ UNCHANGED <<said, wire, queues, audio, stream, heard>>
        /\ \A u \in Turn : pump'[u] = "none" => pump[u] = "none"
    BY <1>1, <1>7 DEF PumpOpens, PumpFlushes, gateway, TypeOK
  <2>2. OwnQueues' /\ QueueInv'
    BY <2>1 DEF OrderInv, OwnQueues, QueueInv, QueueOf, BeforeTheWire
  <2>3. HeardInv'
    BY <2>1 DEF OrderInv, HeardInv, BeforeTheWire
  <2> QED
    BY <1>1, <1>4, <2>1, <2>2, <2>3 DEF OrderInv
<1>8. CASE \E t \in Turn : EndTurn(t)
  <2>1. PICK t \in Turn : Forget(t) /\ UNCHANGED <<said, wire, pump, stream, heard>>
    BY <1>8 DEF EndTurn, Discard, gateway
  <2> QED
    BY <1>1, <1>4, <2>1, ForgetOrder DEF OrderInv
<1>9. CASE SocketCloses \/ SocketOpens
  <2>1. /\ UNCHANGED <<said, queues, audio, pump, stream, heard>>
        /\ wire' = <<>> \/ wire' = wire
    BY <1>9 DEF SocketCloses, SocketOpens, gateway, worker
  <2>2. WireInv' /\ StillBefore
    BY <1>1, <1>4, <2>1, WireOrder
  <2> QED
    BY <1>1, <2>1, <2>2, QuietOrder DEF OrderInv
<1>10. CASE Restart
  <2>1. /\ said' = said /\ wire' = <<>> /\ queues' = <<>> /\ heard' = heard
        /\ \A u \in Turn : /\ audio'[u] = NoQueue /\ stream'[u] = NoQueue
                           /\ pump'[u] = "none" => pump[u] = "none"
    BY <1>1, <1>10 DEF Restart, gateway, TypeOK
  <2>2. WireInv' /\ StillBefore
    BY <1>1, <2>1, WireOrder
  <2>3. OwnQueues' /\ QueueInv'
    <3>1. OwnQueues'
      BY <2>1 DEF OwnQueues
    <3>2. \A q : q \notin 1..Len(queues')
      BY <2>1
    <3> QED
      BY <3>1, <3>2 DEF QueueInv
  <2>4. HeardInv'
    <3> SUFFICES ASSUME NEW u \in Turn
                 PROVE  /\ Increasing(heard[u])
                        /\ \A k \in 1..Len(heard[u]) : BeforeTheWire(heard[u][k], u)'
                        /\ pump'[u] = "none" => heard[u] = <<>>
      BY <2>1 DEF HeardInv
    <3>1. /\ Increasing(heard[u])
          /\ \A k \in 1..Len(heard[u]) : BeforeTheWire(heard[u][k], u)
          /\ pump[u] = "none" => heard[u] = <<>>
      BY DEF OrderInv, HeardInv
    <3>2. \A k \in 1..Len(heard[u]) : BeforeTheWire(heard[u][k], u)'
      BY <1>1, <2>1, <2>2, <3>1, Typing DEF StillBefore
    <3> QED
      BY <2>1, <3>1, <3>2
  <2> QED
    BY <1>1, <2>2, <2>3, <2>4 DEF OrderInv
<1>11. CASE UNCHANGED vars
  BY <1>1, <1>4, <1>11, QuietOrder DEF vars, OrderInv
<1> QED
  BY <1>2, <1>3, <1>5, <1>6, <1>7, <1>8, <1>9, <1>10, <1>11 DEF Next

LEMMA InitOrder == Init => OrderInv
<1> SUFFICES ASSUME Init
             PROVE  OrderInv
  OBVIOUS
<1>1. TypeOK
  BY InitTypeOK
<1>2. WireInv /\ OwnQueues /\ QueueInv /\ HeardInv
  BY DEF Init, WireInv, OwnQueues, QueueInv, HeardInv, Increasing
<1> QED
  BY <1>1, <1>2 DEF OrderInv

\* A pump hears a frame once and in its order, for any turns that share the socket and
\* however often it or the worker is lost: a reconnection may leave a hole in an
\* utterance, and never repeats or reorders one (gateway-channel.ts, stream.ts).
THEOREM HeardOnceInOrder == Spec => []HeardInOrder
<1>1. Init => OrderInv
  BY InitOrder
<1>2. OrderInv /\ [Next]_vars => OrderInv'
  BY NextOrder
<1>3. OrderInv => HeardInOrder
  BY DEF OrderInv, HeardInv, Increasing, HeardInOrder
<1> QED
  BY <1>1, <1>2, <1>3, PTL DEF Spec

-----------------------------------------------------------------------------
(* While nothing is lost there is no hole.  What the pump has heard, what waits in its  *)
(* queue and what is on the wire are then all that was said, with nothing between them; *)
(* an audio_end or a cancel is behind the last frame of its turn, and closes its queue. *)

\* The frames of a turn follow each other on the wire up to the last that was said.
OnTheWire(n, t) ==
  \E i \in 1..Len(wire) : wire[i].t = "audio" /\ wire[i].turn = t /\ wire[i].n = n

WireIsDense ==
  losses = 0 =>
    /\ link
    /\ \A i \in 1..Len(wire) :
         wire[i].t = "audio" /\ wire[i].n < said[wire[i].turn]
           => OnTheWire(wire[i].n + 1, wire[i].turn)

\* No audio of turn t is behind place i of the wire, and none will be.
LastOf(t, i) ==
  /\ mic[t] \in {"ended", "cut", "left"}
  /\ \A j \in i..Len(wire) : wire[j].t = "audio" => wire[j].turn # t

\* An audio_end and a cancel are behind the audio of their turn.
EndsAreLast ==
  /\ \A i \in 1..Len(wire) :
       /\ wire[i].t # "audio" => LastOf(wire[i].turn, i)
       /\ wire[i].t = "cancel" => mic[wire[i].turn] = "cut"
  /\ \A t \in ended : LastOf(t, 1)

\* No two pumps are handed the same queue.
OwnStreams ==
  \A t, u \in Turn : stream[t] # NoQueue /\ stream[u] = stream[t] => u = t

\* A queue in the map is open.
MapIsOpen ==
  \A t \in Turn : audio[t] # NoQueue => ~queues[audio[t]].closed /\ t \notin ended

\* Nothing comes any more for a turn that was cut off or whose audio_end has come.
NothingComes(t) == (mic[t] = "cut" \/ t \in ended) /\ LastOf(t, 1)

\* What follows the first k frames of t is on the wire, or they are all that was said.
Fed(k, t) ==
  \/ NothingComes(t)
  \/ k <= said[t] /\ (k < said[t] => OnTheWire(k + 1, t))

\* s has the frames that come after the first k.
Continues(s, k) == \A i \in 1..Len(s) : s[i] = k + i

\* What the pump has taken and what it has yet to take.
Taken(t) == Len(heard[t]) + Len(queues[stream[t]].items)

\* Of a pump that runs: its queue goes on from what it has heard.
PumpIsDense(t) ==
  /\ Continues(queues[stream[t]].items, Len(heard[t]))
  /\ ~queues[stream[t]].closed => Fed(Taken(t), t)
  /\ queues[stream[t]].closed /\ t \notin over \cup late /\ mic[t] # "cut"
       => mic[t] \in {"ended", "left"} /\ Taken(t) = said[t]

\* Of a pump that is still to start: the queue it will be handed goes on from nothing.
StartIsDense(t) ==
  IF audio[t] = NoQueue
    THEN Fed(0, t)
    ELSE /\ Continues(queues[audio[t]].items, 0)
         /\ Fed(Len(queues[audio[t]].items), t)

\* The parts of turn t have no hole.
DenseOf(t) ==
  /\ Continues(heard[t], 0)
  /\ pump[t] \in Pumping => PumpIsDense(t)
  /\ pump[t] = "none" /\ t \notin over => StartIsDense(t)

DenseInv == losses = 0 => \A t \in Turn : DenseOf(t)

WholeInv == OwnStreams /\ WireIsDense /\ EndsAreLast /\ MapIsOpen /\ DenseInv

-----------------------------------------------------------------------------
(* The wire, step by step. *)

\* A frame goes to the end of the wire.
LEMMA WireAppend ==
  ASSUME TypeOK, NEW f \in Frame, wire' = Append(wire, f)
  PROVE  /\ Len(wire) \in Nat /\ Len(wire') = Len(wire) + 1
         /\ wire'[Len(wire) + 1] = f
         /\ \A i \in 1..Len(wire) : wire'[i] = wire[i] /\ i \in 1..Len(wire')
         /\ \A i \in 1..Len(wire') : i \in 1..Len(wire) \/ i = Len(wire) + 1
         /\ \A n, t : OnTheWire(n, t) => OnTheWire(n, t)'
<1>1. wire \in Seq(Frame)
  BY DEF TypeOK
<1>2. /\ Len(wire) \in Nat /\ Len(wire') = Len(wire) + 1
      /\ wire'[Len(wire) + 1] = f
      /\ \A i \in 1..Len(wire) : wire'[i] = wire[i]
  BY <1>1
<1>3. /\ \A i \in 1..Len(wire) : i \in 1..Len(wire')
      /\ \A i \in 1..Len(wire') : i \in 1..Len(wire) \/ i = Len(wire) + 1
  BY <1>2
<1>4. \A n, t : OnTheWire(n, t) => OnTheWire(n, t)'
  BY <1>2, <1>3 DEF OnTheWire
<1> QED
  BY <1>2, <1>3, <1>4

\* The first frame leaves the wire.
LEMMA WireTail ==
  ASSUME TypeOK, wire # <<>>, wire' = Tail(wire)
  PROVE  /\ Head(wire) = wire[1] /\ wire[1] \in Frame /\ 1 \in 1..Len(wire)
         /\ Len(wire) \in Nat /\ Len(wire') = Len(wire) - 1
         /\ \A i \in 1..Len(wire') : i + 1 \in 2..Len(wire) /\ wire'[i] = wire[i + 1]
         /\ \A i \in 2..Len(wire) : i - 1 \in 1..Len(wire') /\ wire'[i - 1] = wire[i]
<1>1. wire \in Seq(Frame)
  BY DEF TypeOK
<1>2. /\ Head(wire) = wire[1] /\ Len(wire) \in Nat /\ Len(wire) >= 1
      /\ Len(wire') = Len(wire) - 1
      /\ \A i \in 1..Len(wire') : wire'[i] = wire[i + 1]
  BY <1>1, HeadTailProperties
<1>3. wire[1] \in Frame
  BY <1>1, <1>2
<1>4. \A i \in 2..Len(wire) : i - 1 \in 1..Len(wire') /\ wire'[i - 1] = wire[(i - 1) + 1]
  BY <1>2
<1>5. \A i \in 2..Len(wire) : (i - 1) + 1 = i
  BY <1>2
<1> QED
  BY <1>2, <1>3, <1>4, <1>5

\* What the gateway's steps do to a microphone: it is opened once, and is not opened
\* again; a turn that was cut off stays cut off.
LEMMA MicMoves ==
  ASSUME TypeOK, NEW t \in Turn,
         OpenMic(t) \/ Forward(t) \/ CloseMic(t) \/ Cut(t) \/ Leave(t), NEW u \in Turn
  PROVE  /\ mic[u] \in {"ended", "cut", "left"} => mic'[u] \in {"ended", "cut", "left"}
         /\ mic[u] = "cut" => mic'[u] = "cut"
         /\ mic[u] \in {"ended", "left"} => mic'[u] \in {"ended", "left", "cut"}
         /\ mic[u] # "open" => said'[u] = said[u]
  BY DEF OpenMic, Forward, CloseMic, Cut, Leave, TypeOK

\* The gateway sends behind what it has sent, and nothing once a turn's microphone is
\* closed but what closed it.
LEMMA GatewayWhole ==
  ASSUME TypeOK, WireInv, WireIsDense, EndsAreLast, NEW t \in Turn,
         OpenMic(t) \/ Forward(t) \/ CloseMic(t) \/ Cut(t) \/ Leave(t)
  PROVE  /\ WireIsDense' /\ EndsAreLast'
         /\ losses = 0 => \A u \in Turn : \A k \in Nat : Fed(k, u) => Fed(k, u)'
<1>1. UNCHANGED <<link, losses, ended>>
  BY DEF OpenMic, Forward, CloseMic, Cut, Leave, worker
<1>2. \/ /\ UNCHANGED said
         /\ \/ wire' = wire
            \/ \E f \in Frame :
                 /\ wire' = Append(wire, f) /\ f.t # "audio" /\ f.turn = t
                 /\ mic'[t] \in {"ended", "cut"}
                 /\ f.t = "cancel" => mic'[t] = "cut"
      \/ /\ Forward(t)
         /\ said' = [said EXCEPT ![t] = said[t] + 1]
         /\ mic[t] = "open" /\ UNCHANGED mic
         /\ \/ ~link /\ wire' = wire
            \/ \E f \in Frame :
                 wire' = Append(wire, f) /\ f.t = "audio" /\ f.turn = t /\ f.n = said[t] + 1
  <2>1. CASE OpenMic(t) \/ Leave(t)
    BY <2>1 DEF OpenMic, Leave
  <2>2. CASE CloseMic(t)
    <3> DEFINE f == [t |-> "audio_end", turn |-> t]
    <3>1. f \in Frame /\ f.t # "audio" /\ f.t # "cancel" /\ f.turn = t
      BY DEF Frame
    <3>2. mic'[t] = "ended" /\ UNCHANGED said /\ (wire' = wire \/ wire' = Append(wire, f))
      BY <2>2 DEF CloseMic, Send, TypeOK
    <3> HIDE DEF f
    <3> QED
      BY <3>1, <3>2
  <2>3. CASE Cut(t)
    <3> DEFINE f == [t |-> "cancel", turn |-> t]
    <3>1. f \in Frame /\ f.t # "audio" /\ f.turn = t
      BY DEF Frame
    <3>2. mic'[t] = "cut" /\ UNCHANGED said /\ (wire' = wire \/ wire' = Append(wire, f))
      BY <2>3 DEF Cut, Send, TypeOK
    <3> HIDE DEF f
    <3> QED
      BY <3>1, <3>2
  <2>4. CASE Forward(t)
    <3> DEFINE f == [t |-> "audio", turn |-> t, n |-> said[t] + 1]
    <3>1. f \in Frame
      <4>1. said[t] + 1 \in 1..MaxFrames
        BY <2>4, AudioConstants DEF Forward, TypeOK
      <4> QED
        BY <4>1 DEF Frame
    <3>2. f.t = "audio" /\ f.turn = t /\ f.n = said[t] + 1
      OBVIOUS
    <3>3. /\ said' = [said EXCEPT ![t] = said[t] + 1]
          /\ mic[t] = "open" /\ UNCHANGED mic
          /\ (~link /\ wire' = wire) \/ wire' = Append(wire, f)
      BY <2>4 DEF Forward, Send
    <3> HIDE DEF f
    <3> QED
      BY <2>4, <3>1, <3>2, <3>3
  <2> QED
    BY <2>1, <2>2, <2>3, <2>4
<1>3. \A u \in Turn : mic[u] \in {"ended", "cut", "left"} => mic'[u] \in {"ended", "cut", "left"}
  BY MicMoves
<1>4. \A u \in Turn : mic[u] = "cut" => mic'[u] = "cut"
  BY MicMoves
<1>5. \A i \in 1..Len(wire) : wire[i].turn \in Turn
  BY Typing
<1>6. ended \subseteq Turn /\ said \in [Turn -> 0..MaxFrames] /\ \A u \in Turn : said[u] \in Nat
  BY AudioConstants DEF TypeOK
<1>7. CASE said' = said /\ wire' = wire
  <2>1. \A u \in Turn, i \in Nat : LastOf(u, i) => LastOf(u, i)'
    BY <1>3, <1>7 DEF LastOf
  <2>2. EndsAreLast'
    <3>1. ASSUME NEW i \in 1..Len(wire)
          PROVE  /\ wire[i].t # "audio" => LastOf(wire[i].turn, i)'
                 /\ wire[i].t = "cancel" => mic'[wire[i].turn] = "cut"
      <4>1. wire[i].turn \in Turn /\ wire'[i].turn = wire[i].turn
        BY <1>5, <1>7
      <4> QED
        BY <1>3, <1>4, <1>7, <4>1 DEF EndsAreLast, LastOf
    <3>2. \A u \in ended' : LastOf(u, 1)'
      BY <1>1, <1>6, <2>1 DEF EndsAreLast
    <3> QED
      BY <1>7, <3>1, <3>2 DEF EndsAreLast
  <2>3. WireIsDense'
    BY <1>1, <1>7 DEF WireIsDense, OnTheWire
  <2>4. \A u \in Turn, k \in Nat : Fed(k, u) => Fed(k, u)'
    BY <1>1, <1>4, <1>7, <2>1 DEF Fed, NothingComes, OnTheWire
  <2> QED
    BY <2>2, <2>3, <2>4
<1>8. ASSUME NEW f \in Frame, wire' = Append(wire, f), said' = said, f.t # "audio", f.turn = t,
             mic'[t] \in {"ended", "cut"}, f.t = "cancel" => mic'[t] = "cut"
      PROVE  /\ WireIsDense' /\ EndsAreLast'
             /\ \A u \in Turn, k \in Nat : Fed(k, u) => Fed(k, u)'
  <2>1. /\ Len(wire) \in Nat /\ Len(wire') = Len(wire) + 1
        /\ wire'[Len(wire) + 1] = f
        /\ \A i \in 1..Len(wire) : wire'[i] = wire[i]
        /\ \A i \in 1..Len(wire') : i \in 1..Len(wire) \/ i = Len(wire) + 1
        /\ \A n, u : OnTheWire(n, u) => OnTheWire(n, u)'
    BY <1>8, WireAppend
  <2>2. ASSUME NEW u \in Turn, NEW i \in Nat, LastOf(u, i), i >= 1
        PROVE  LastOf(u, i)'
    <3>1. \A j \in i..Len(wire') : wire'[j].t = "audio" => wire'[j].turn # u
      BY <1>8, <2>1, <2>2 DEF LastOf
    <3> QED
      BY <1>3, <2>2, <3>1 DEF LastOf
  <2>3. EndsAreLast'
    <3>1. ASSUME NEW i \in 1..Len(wire')
          PROVE  /\ wire'[i].t # "audio" => LastOf(wire[i].turn, i)'
                 /\ wire'[i].t = "cancel" => mic'[wire'[i].turn] = "cut"
      <4>1. CASE i \in 1..Len(wire)
        BY <1>4, <1>5, <2>1, <2>2, <4>1 DEF EndsAreLast
      <4>2. CASE i = Len(wire) + 1
        <5>1. LastOf(t, i)'
          BY <1>8, <2>1, <4>2 DEF LastOf
        <5> QED
          BY <1>8, <2>1, <4>2, <5>1
      <4> QED
        BY <2>1, <4>1, <4>2
    <3>2. \A u \in ended' : LastOf(u, 1)'
      BY <1>1, <1>6, <2>2 DEF EndsAreLast
    <3> QED
      BY <3>1, <3>2 DEF EndsAreLast
  <2>4. WireIsDense'
    BY <1>1, <1>8, <2>1 DEF WireIsDense
  <2>5. ASSUME NEW u \in Turn, NEW k \in Nat, Fed(k, u)
        PROVE  Fed(k, u)'
    <3>1. NothingComes(u) => NothingComes(u)'
      BY <1>1, <1>4, <2>2 DEF NothingComes
    <3> QED
      BY <1>8, <2>1, <2>5, <3>1 DEF Fed
  <2> QED
    BY <2>3, <2>4, <2>5
<1>9. ASSUME said' = [said EXCEPT ![t] = said[t] + 1], mic[t] = "open", UNCHANGED mic
      PROVE  /\ WireIsDense' /\ EndsAreLast'
             /\ losses = 0 => \A u \in Turn, k \in Nat : Fed(k, u) => Fed(k, u)'
  <2>1. /\ said'[t] = said[t] + 1
        /\ \A u \in Turn : u # t => said'[u] = said[u]
    BY <1>6, <1>9
  <2>2. CASE ~link /\ wire' = wire
    <3>1. losses # 0
      BY <2>2 DEF WireIsDense
    <3>2. \A u \in Turn, i \in Nat : LastOf(u, i) => LastOf(u, i)'
      BY <1>9, <2>2 DEF LastOf
    <3>3. ASSUME NEW i \in 1..Len(wire)
          PROVE  /\ wire[i].t # "audio" => LastOf(wire[i].turn, i)'
                 /\ wire[i].t = "cancel" => mic'[wire[i].turn] = "cut"
      <4>1. PICK u \in Turn : u = wire[i].turn /\ u = wire'[i].turn
        BY <1>5, <2>2
      <4>2. wire[i].t # "audio" => LastOf(u, i)
        BY <4>1 DEF EndsAreLast
      <4>3. wire[i].t # "audio" => LastOf(u, i)'
        BY <3>2, <4>2
      <4>4. wire[i].t # "audio" => LastOf(wire[i].turn, i)'
        BY <4>1, <4>3 DEF LastOf
      <4>5. wire[i].t = "cancel" => mic'[wire[i].turn] = "cut"
        BY <1>9 DEF EndsAreLast
      <4> QED
        BY <4>4, <4>5
    <3>4. ASSUME NEW u \in ended' PROVE LastOf(u, 1)'
      <4>1. u \in ended /\ u \in Turn
        BY <1>1, <1>6
      <4>2. LastOf(u, 1)
        BY <4>1 DEF EndsAreLast
      <4> QED
        BY <3>2, <4>1, <4>2
    <3>5. EndsAreLast'
      BY <2>2, <3>3, <3>4 DEF EndsAreLast
    <3> QED
      BY <1>1, <3>1, <3>5 DEF WireIsDense
  <2>3. ASSUME NEW f \in Frame, wire' = Append(wire, f), f.t = "audio", f.turn = t,
               f.n = said[t] + 1
        PROVE  /\ WireIsDense' /\ EndsAreLast'
               /\ \A u \in Turn, k \in Nat : Fed(k, u) => Fed(k, u)'
    <3>1. /\ Len(wire) \in Nat /\ Len(wire') = Len(wire) + 1
          /\ wire'[Len(wire) + 1] = f
          /\ \A i \in 1..Len(wire) : wire'[i] = wire[i]
          /\ \A i \in 1..Len(wire') : i \in 1..Len(wire) \/ i = Len(wire) + 1
          /\ \A n, u : OnTheWire(n, u) => OnTheWire(n, u)'
      BY <2>3, WireAppend
    <3>2. ASSUME NEW u \in Turn, NEW i \in Nat, LastOf(u, i), i >= 1
          PROVE  LastOf(u, i)'
      <4>1. u # t
        BY <1>9, <3>2 DEF LastOf
      <4>2. \A j \in i..Len(wire') : wire'[j].t = "audio" => wire'[j].turn # u
        BY <2>3, <3>1, <3>2, <4>1 DEF LastOf
      <4> QED
        BY <1>9, <3>2, <4>2 DEF LastOf
    <3>3. EndsAreLast'
      <4>1. ASSUME NEW i \in 1..Len(wire')
            PROVE  /\ wire'[i].t # "audio" => LastOf(wire[i].turn, i)'
                   /\ wire'[i].t = "cancel" => mic'[wire'[i].turn] = "cut"
        <5>1. CASE i \in 1..Len(wire)
          BY <1>5, <1>9, <3>1, <3>2, <5>1 DEF EndsAreLast
        <5>2. CASE i = Len(wire) + 1
          BY <2>3, <3>1, <5>2
        <5> QED
          BY <3>1, <5>1, <5>2
      <4>2. \A u \in ended' : LastOf(u, 1)'
        BY <1>1, <1>6, <3>2 DEF EndsAreLast
      <4> QED
        BY <4>1, <4>2 DEF EndsAreLast
    <3>4. \A n : n = said[t] + 1 => OnTheWire(n, t)'
      BY <2>3, <3>1 DEF OnTheWire
    <3>5. WireIsDense'
      <4> SUFFICES ASSUME losses = 0, NEW i \in 1..Len(wire'), wire'[i].t = "audio",
                          wire'[i].n < said'[wire'[i].turn]
                   PROVE  OnTheWire(wire[i].n + 1, wire[i].turn)'
        BY <1>1 DEF WireIsDense
      <4>1. CASE i = Len(wire) + 1
        BY <1>6, <2>1, <2>3, <3>1, <4>1
      <4>2. CASE i \in 1..Len(wire)
        <5> DEFINE u == wire[i].turn
                   n == wire[i].n
        <5>1. u \in Turn /\ n \in Nat /\ n <= said[u] /\ n < said'[u]
          BY <3>1, <4>2, Typing DEF WireInv
        <5>2. CASE n < said[u]
          BY <3>1, <4>2, <5>2 DEF WireIsDense
        <5>3. CASE ~(n < said[u])
          <6>1. u = t /\ n = said[t]
            BY <1>6, <2>1, <5>1, <5>3
          <6>2. wire'[i].n = said[t] /\ wire'[i].turn = t
            BY <3>1, <4>2, <6>1
          <6> QED
            BY <3>4, <6>2 DEF OnTheWire
        <5> QED
          BY <5>2, <5>3
      <4> QED
        BY <3>1, <4>1, <4>2
    <3>6. ASSUME NEW u \in Turn, NEW k \in Nat, Fed(k, u)
          PROVE  Fed(k, u)'
      <4>1. NothingComes(u) => NothingComes(u)'
        BY <1>1, <1>9, <3>2 DEF NothingComes
      <4>2. CASE u # t
        BY <2>1, <3>1, <3>6, <4>1, <4>2 DEF Fed
      <4>3. CASE u = t /\ ~NothingComes(u)
        <5>1. k <= said[t] /\ (k < said[t] => OnTheWire(k + 1, t)')
          BY <3>1, <3>6, <4>3 DEF Fed
        <5>2. k < said[t] \/ k = said[t]
          BY <1>6, <5>1
        <5>3. OnTheWire(k + 1, t)' /\ k <= said'[t]
          BY <1>6, <2>1, <3>4, <5>1, <5>2
        <5> QED
          BY <4>3, <5>3 DEF Fed
      <4> QED
        BY <4>1, <4>2, <4>3 DEF Fed
    <3> QED
      BY <3>3, <3>5, <3>6
  <2> QED
    BY <1>2, <1>6, <1>9, <2>1, <2>2, <2>3
<1> QED
  BY <1>2, <1>7, <1>8, <1>9

\* What is behind the first frame is what the wire has when it is taken.
LEMMA PopWhole ==
  ASSUME TypeOK, WireInv, WireIsDense, EndsAreLast, wire # <<>>, wire' = Tail(wire),
         UNCHANGED <<mic, said, link, losses>>,
         \A t \in ended' : t \in ended \/ LastOf(t, 1)
  PROVE  /\ WireIsDense' /\ EndsAreLast'
         /\ \A t \in Turn : LastOf(t, 1) => LastOf(t, 1)'
         /\ \A n, t : OnTheWire(n, t) => \/ OnTheWire(n, t)'
                                       \/ (wire[1].t = "audio" /\ wire[1].turn = t /\ wire[1].n = n)
<1>1. /\ Len(wire) \in Nat /\ Len(wire') = Len(wire) - 1
      /\ \A i \in 1..Len(wire') : i + 1 \in 2..Len(wire) /\ wire'[i] = wire[i + 1]
      /\ \A i \in 2..Len(wire) : i - 1 \in 1..Len(wire') /\ wire'[i - 1] = wire[i]
      /\ 1 \in 1..Len(wire)
  BY WireTail
<1>2. ASSUME NEW t, NEW i \in Nat, i >= 1, LastOf(t, i + 1)
      PROVE  LastOf(t, i)'
  <2>1. \A j \in i..Len(wire') : j + 1 \in i + 1..Len(wire) /\ wire'[j] = wire[j + 1]
    BY <1>1, <1>2
  <2> QED
    BY <1>2, <2>1 DEF LastOf
<1>3. ASSUME NEW t, LastOf(t, 1)
      PROVE  LastOf(t, 1)'
  <2>1. LastOf(t, 2)
    BY <1>1, <1>3 DEF LastOf
  <2> QED
    BY <1>2, <2>1
<1>4. EndsAreLast'
  <2>1. ASSUME NEW i \in 1..Len(wire')
        PROVE  /\ wire'[i].t # "audio" => LastOf(wire[i].turn, i)'
               /\ wire'[i].t = "cancel" => mic[wire'[i].turn] = "cut"
    <3>1. i + 1 \in 1..Len(wire) /\ wire'[i] = wire[i + 1] /\ i \in Nat /\ i >= 1
      BY <1>1
    <3>2. wire[i + 1].t # "audio" => LastOf(wire[i + 1].turn, i + 1)
      BY <3>1 DEF EndsAreLast
    <3>3. wire'[i].t # "audio" =>
            /\ mic[wire[i + 1].turn] \in {"ended", "cut", "left"}
            /\ \A k \in i + 1..Len(wire) : wire[k].t = "audio" => wire[k].turn # wire[i + 1].turn
      BY <3>1, <3>2 DEF LastOf
    <3>4. \A k \in i..Len(wire') : k + 1 \in i + 1..Len(wire) /\ wire'[k] = wire[k + 1]
      BY <1>1, <3>1
    <3>5. wire'[i].t # "audio" => LastOf(wire[i].turn, i)'
      BY <3>1, <3>3, <3>4 DEF LastOf
    <3> QED
      BY <3>1, <3>5 DEF EndsAreLast
  <2>2. \A t \in ended' : LastOf(t, 1)'
    BY <1>3 DEF EndsAreLast
  <2> QED
    BY <2>1, <2>2 DEF EndsAreLast
<1>5. \A n, t : OnTheWire(n, t) => \/ OnTheWire(n, t)'
                                  \/ (wire[1].t = "audio" /\ wire[1].turn = t /\ wire[1].n = n)
  <2> SUFFICES ASSUME NEW n, NEW t, OnTheWire(n, t)
               PROVE  \/ OnTheWire(n, t)'
                      \/ (wire[1].t = "audio" /\ wire[1].turn = t /\ wire[1].n = n)
    OBVIOUS
  <2>1. PICK i \in 1..Len(wire) : wire[i].t = "audio" /\ wire[i].turn = t /\ wire[i].n = n
    BY DEF OnTheWire
  <2>2. CASE i = 1
    BY <2>1, <2>2
  <2>3. CASE i # 1
    <3>1. i - 1 \in 1..Len(wire') /\ wire'[i - 1] = wire[i]
      BY <1>1, <2>3
    <3> QED
      BY <2>1, <3>1 DEF OnTheWire
  <2> QED
    BY <2>2, <2>3
<1>6. WireIsDense'
  <2> SUFFICES ASSUME losses = 0, NEW i \in 1..Len(wire'), wire'[i].t = "audio",
                      wire'[i].n < said[wire'[i].turn]
               PROVE  OnTheWire(wire[i].n + 1, wire[i].turn)'
    BY DEF WireIsDense
  <2> DEFINE n == wire[i + 1].n
             t == wire[i + 1].turn
  <2>1. i + 1 \in 1..Len(wire) /\ wire'[i] = wire[i + 1] /\ 1 < i + 1
    BY <1>1
  <2>2. OnTheWire(n + 1, t)
    BY <2>1 DEF WireIsDense
  <2>3. ~(wire[1].t = "audio" /\ wire[1].turn = t /\ wire[1].n = n + 1)
    <3>1. n \in 1..MaxFrames
      BY <2>1, Typing
    <3>2. wire[1].t = "audio" /\ wire[1].turn = t => wire[1].n < n
      BY <1>1, <2>1 DEF WireInv
    <3> QED
      BY <3>1, <3>2
  <2>4. \A m : m = n + 1 => \A u : u = t => OnTheWire(m, u)'
    BY <1>5, <2>2, <2>3
  <2> QED
    BY <2>1, <2>4 DEF OnTheWire
<1>7. link' = link
  OBVIOUS
<1> QED
  BY <1>3, <1>4, <1>5, <1>6

\* An audio frame at the head of the wire is the one that comes next.
LEMMA HeadIsNext ==
  ASSUME TypeOK, WireInv, WireIsDense, EndsAreLast, losses = 0, wire # <<>>, wire' = Tail(wire),
         UNCHANGED <<mic, said, link, losses, ended>>,
         NEW f \in Frame, f = wire[1], f.t = "audio",
         NEW k \in Nat, k < f.n, Fed(k, f.turn)
  PROVE  f.n = k + 1 /\ Fed(f.n, f.turn)'
<1> DEFINE t == f.turn
<1>1. 1 \in 1..Len(wire) /\ f.n \in 1..MaxFrames /\ t \in Turn /\ f.n <= said[t]
  BY WireTail, Typing DEF WireInv
<1>2. ~NothingComes(t)
  BY <1>1 DEF NothingComes, LastOf
<1>3. said[t] \in Nat
  BY <1>1, AudioConstants DEF TypeOK
<1>4. OnTheWire(k + 1, t)
  BY <1>1, <1>2, <1>3 DEF Fed
<1>5. PICK j \in 1..Len(wire) : wire[j].t = "audio" /\ wire[j].turn = t /\ wire[j].n = k + 1
  BY <1>4 DEF OnTheWire
<1>6. f.n = k + 1
  <2>1. j = 1 \/ 1 < j
    BY <1>1, <1>5
  <2>2. 1 < j => f.n < k + 1
    BY <1>1, <1>5 DEF WireInv
  <2> QED
    BY <1>1, <1>5, <2>1, <2>2
<1>7. Fed(f.n, t)'
  <2>1. f.n < said[t] => OnTheWire(f.n + 1, t)
    BY <1>1 DEF WireIsDense
  <2>2. f.n < said[t] => OnTheWire(f.n + 1, t)'
    <3>1. f.n + 1 # f.n
      BY <1>1
    <3> QED
      BY <2>1, <3>1, PopWhole
  <2> QED
    BY <1>1, <2>2 DEF Fed
<1> QED
  BY <1>6, <1>7

-----------------------------------------------------------------------------
(* The queues, step by step. *)

\* What is asked of a turn that a step leaves alone: where its parts are, and that what
\* its queues wait for is still to come.
LeftAlone(u) ==
  /\ pump'[u] = pump[u] /\ stream'[u] = stream[u] /\ audio'[u] = audio[u] /\ heard'[u] = heard[u]
  /\ (u \in over') = (u \in over) /\ (u \in late') = (u \in late)
  /\ stream[u] # NoQueue => queues'[stream[u]] = queues[stream[u]]
  /\ audio[u] # NoQueue => queues'[audio[u]] = queues[audio[u]]
  /\ mic'[u] = "cut" \/ (mic[u] # "cut" /\ (mic[u] \in {"ended", "left"} =>
                                             mic'[u] \in {"ended", "left"} /\ said'[u] = said[u]))
  /\ \A k \in Nat : Fed(k, u) => Fed(k, u)'

LEMMA TakenIsNat ==
  ASSUME TypeOK, NEW u \in Turn, stream[u] \in 1..Len(queues)
  PROVE  Taken(u) \in Nat
<1> DEFINE had == Len(heard[u])
           has == Len(queues[stream[u]].items)
<1>1. had \in Nat /\ has \in Nat
  BY Typing
<1>2. Taken(u) = had + has
  BY DEF Taken
<1> HIDE DEF had, has
<1> QED
  BY <1>1, <1>2

LEMMA LeftAloneIsDense ==
  ASSUME TypeOK, NEW u \in Turn, DenseOf(u), LeftAlone(u)
  PROVE  DenseOf(u)'
<1> DEFINE q == queues[stream[u]]
           a == queues[audio[u]]
<1>1. Continues(heard[u], 0)'
  BY DEF DenseOf, LeftAlone, Continues
<1>2. ASSUME pump[u] \in Pumping
      PROVE  PumpIsDense(u)'
  <2>1. stream[u] \in 1..Len(queues)
    BY <1>2 DEF TypeOK, NoQueue
  <2>2. Taken(u) \in Nat
    BY <2>1, TakenIsNat
  <2>3. stream'[u] = stream[u] /\ heard'[u] = heard[u] /\ queues'[stream[u]] = q
    BY <2>1 DEF LeftAlone, NoQueue
  <2>4. PumpIsDense(u)
    BY <1>2 DEF DenseOf
  <2>5. Taken(u)' = Taken(u)
    BY <2>3 DEF Taken
  <2>6. ~q.closed => Fed(Taken(u), u)'
    <3>1. ASSUME NEW k \in Nat, k = Taken(u), ~q.closed
          PROVE  Fed(k, u)'
      BY <2>4, <3>1 DEF LeftAlone, PumpIsDense
    <3> QED
      BY <2>2, <2>5, <3>1 DEF Fed
  <2> QED
    BY <2>3, <2>4, <2>5, <2>6 DEF PumpIsDense, LeftAlone, Continues
<1>3. ASSUME pump[u] = "none", u \notin over
      PROVE  StartIsDense(u)'
  <2>1. StartIsDense(u) /\ audio'[u] = audio[u]
    BY <1>3 DEF DenseOf, LeftAlone
  <2>2. CASE audio[u] = NoQueue
    BY <2>1, <2>2 DEF StartIsDense, LeftAlone
  <2>3. CASE audio[u] # NoQueue
    <3>1. audio[u] \in 1..Len(queues)
      BY <2>3 DEF TypeOK, NoQueue
    <3>2. Len(a.items) \in Nat /\ queues'[audio[u]] = a
      BY <2>3, <3>1, Typing DEF LeftAlone
    <3>3. ASSUME NEW k \in Nat, k = Len(a.items)
          PROVE  Fed(k, u)'
      BY <2>1, <2>3, <3>3 DEF LeftAlone, StartIsDense
    <3>4. Fed(Len(queues[audio[u]].items), u)'
      BY <2>1, <3>2, <3>3 DEF Fed
    <3> QED
      BY <2>1, <2>3, <3>2, <3>4 DEF StartIsDense, Continues
  <2> QED
    BY <2>2, <2>3
<1> QED
  BY <1>1, <1>2, <1>3 DEF DenseOf, LeftAlone

\* What the gateway does leaves every turn's queues alone.
LEMMA GatewayDense ==
  ASSUME OrderInv, WholeInv, NEW t \in Turn,
         OpenMic(t) \/ Forward(t) \/ CloseMic(t) \/ Cut(t) \/ Leave(t)
  PROVE  WholeInv'
<1>1. TypeOK /\ WireInv
  BY DEF OrderInv
<1>2. /\ WireIsDense' /\ EndsAreLast'
      /\ losses = 0 => \A u \in Turn : \A k \in Nat : Fed(k, u) => Fed(k, u)'
  BY <1>1, GatewayWhole DEF WholeInv
<1>3. UNCHANGED <<queues, audio, ended, pump, stream, heard, over, late, losses>>
  BY DEF OpenMic, Forward, CloseMic, Cut, Leave, worker
<1>4. OwnStreams' /\ MapIsOpen'
  BY <1>3 DEF WholeInv, OwnStreams, MapIsOpen
<1>5. ASSUME losses = 0, NEW u \in Turn
      PROVE  DenseOf(u)'
  <2>1. LeftAlone(u)
    <3>1. mic'[u] = "cut" \/ (mic[u] # "cut" /\ (mic[u] \in {"ended", "left"} =>
                                                 mic'[u] \in {"ended", "left"} /\ said'[u] = said[u]))
      BY <1>1, MicMoves
    <3> QED
      BY <1>2, <1>3, <1>5, <3>1 DEF LeftAlone
  <2> QED
    BY <1>1, <1>5, <2>1, LeftAloneIsDense DEF WholeInv, DenseInv
<1> QED
  BY <1>2, <1>3, <1>4, <1>5 DEF WholeInv, DenseInv

\* An audio_end, a cancel or the end of turn t closes the queue of t and no other.
LEMMA ForgetIsOwn ==
  ASSUME OrderInv, WholeInv, OpenQueueIsOnTheMap, NEW t \in Turn, Forget(t),
         UNCHANGED <<pump, stream>>, ended' \subseteq ended \cup {t}, ended \subseteq ended' \cup {t}
  PROVE  /\ OwnStreams' /\ MapIsOpen'
         /\ audio'[t] = NoQueue
         /\ \A q \in 1..Len(queues) : queues'[q].items = queues[q].items
         /\ pump[t] \in Pumping => queues'[stream[t]].closed
         /\ \A u \in Turn : u # t =>
              /\ audio'[u] = audio[u]
              /\ stream[u] # NoQueue => queues'[stream[u]] = queues[stream[u]]
              /\ audio[u] # NoQueue => queues'[audio[u]] = queues[audio[u]]
<1>1. TypeOK
  BY DEF OrderInv
<1>2. /\ audio \in [Turn -> NoQueue..Len(queues)] /\ stream \in [Turn -> NoQueue..Len(queues)]
      /\ Len(queues) \in Nat
  BY <1>1 DEF TypeOK
<1>3. /\ audio' = [audio EXCEPT ![t] = NoQueue]
      /\ \A q \in 1..Len(queues) : /\ queues'[q].items = queues[q].items
                                   /\ q # audio[t] => queues'[q] = queues[q]
  BY <1>1, ForgetQueue
<1>4. audio'[t] = NoQueue /\ \A u \in Turn : u # t => audio'[u] = audio[u]
  BY <1>2, <1>3
<1>5. ASSUME NEW u \in Turn, u # t
      PROVE  /\ stream[u] # NoQueue => queues'[stream[u]] = queues[stream[u]]
             /\ audio[u] # NoQueue => queues'[audio[u]] = queues[audio[u]]
  <2>1. audio[t] # NoQueue => audio[u] # audio[t] /\ stream[u] # audio[t]
    BY <1>5 DEF OrderInv, OwnQueues
  <2>2. stream[u] # NoQueue => stream[u] \in 1..Len(queues)
    BY <1>2 DEF NoQueue
  <2>3. audio[u] # NoQueue => audio[u] \in 1..Len(queues)
    BY <1>2 DEF NoQueue
  <2> QED
    BY <1>3, <2>1, <2>2, <2>3
<1>6. OpenQueueIsOnTheMap'
  BY <1>1, ForgetReaches
<1>7. pump[t] \in Pumping => queues'[stream[t]].closed
  BY <1>1, <1>4, <1>6 DEF OpenQueueIsOnTheMap, TypeOK
<1>8. OwnStreams'
  BY DEF WholeInv, OwnStreams
<1>9. MapIsOpen'
  BY <1>4, <1>5 DEF WholeInv, MapIsOpen
<1> QED
  BY <1>3, <1>4, <1>5, <1>7, <1>8, <1>9

\* What waits for the wire goes on waiting when the head of the wire is not of its turn.
LEMMA PopFeeds ==
  ASSUME TypeOK, WireInv, WireIsDense, EndsAreLast, wire # <<>>, wire' = Tail(wire),
         UNCHANGED <<mic, said, link, losses>>,
         \A t \in ended' : t \in ended \/ LastOf(t, 1),
         NEW u \in Turn, u \in ended => u \in ended',
         ~(wire[1].t = "audio" /\ wire[1].turn = u),
         NEW k \in Nat, Fed(k, u)
  PROVE  Fed(k, u)'
<1>1. CASE NothingComes(u)
  BY <1>1, PopWhole DEF NothingComes, Fed
<1>2. CASE k <= said[u] /\ (k < said[u] => OnTheWire(k + 1, u))
  <2>1. \A n : n = k + 1 => (OnTheWire(n, u) => OnTheWire(n, u)')
    BY PopWhole
  <2> QED
    BY <1>2, <2>1 DEF Fed, OnTheWire
<1> QED
  BY <1>1, <1>2 DEF Fed

\* An audio_end or a cancel closes its turn's queue behind the turn's last frame.
LEMMA EndDense ==
  ASSUME OrderInv, WholeInv, OpenQueueIsOnTheMap, OnFrame,
         NEW f \in Frame, f = wire[1], OnAudioEnd(f) \/ OnCancel(f)
  PROVE  WholeInv'
<1> DEFINE t == f.turn
<1>1. TypeOK /\ WireInv /\ WireIsDense /\ EndsAreLast /\ MapIsOpen
  BY DEF OrderInv, WholeInv
<1>2. /\ wire # <<>> /\ wire' = Tail(wire)
      /\ UNCHANGED <<mic, said, link, losses, pump, stream, heard, over, late>>
  BY DEF OnFrame, gateway
<1>3. /\ f.t # "audio" /\ t \in Turn
      /\ f.t = "audio_end" \/ f.t = "cancel"
      /\ 1 \in 1..Len(wire)
  BY <1>1, <1>2, WireTail DEF OnAudioEnd, OnCancel, Frame
<1>4. Forget(t) /\ ended' \subseteq ended \cup {t} /\ ended \subseteq ended' \cup {t}
  BY DEF OnAudioEnd, OnCancel, Discard
<1>5. LastOf(t, 1) /\ (t \in ended' \/ mic[t] = "cut")
  BY <1>1, <1>3 DEF EndsAreLast, OnAudioEnd, OnCancel
<1> HIDE DEF t
<1>6. \A u \in ended' : u \in ended \/ LastOf(u, 1)
  BY <1>4, <1>5
<1>7. WireIsDense' /\ EndsAreLast' /\ LastOf(t, 1)'
  BY <1>1, <1>2, <1>3, <1>5, <1>6, PopWhole
<1>8. \A k : Fed(k, t)'
  BY <1>2, <1>5, <1>7 DEF Fed, NothingComes
<1>9. /\ OwnStreams' /\ MapIsOpen'
      /\ audio'[t] = NoQueue
      /\ \A q \in 1..Len(queues) : queues'[q].items = queues[q].items
      /\ pump[t] \in Pumping => queues'[stream[t]].closed
      /\ \A u \in Turn : u # t =>
           /\ audio'[u] = audio[u]
           /\ stream[u] # NoQueue => queues'[stream[u]] = queues[stream[u]]
           /\ audio[u] # NoQueue => queues'[audio[u]] = queues[audio[u]]
  BY <1>2, <1>3, <1>4, ForgetIsOwn
<1>10. ASSUME losses = 0, NEW u \in Turn, u # t
       PROVE  DenseOf(u)'
  <2>1. u \in ended => u \in ended'
    BY <1>4, <1>10
  <2>2. \A k \in Nat : Fed(k, u) => Fed(k, u)'
    BY <1>1, <1>2, <1>3, <1>6, <2>1, PopFeeds
  <2>3. LeftAlone(u)
    BY <1>2, <1>9, <1>10, <2>2 DEF LeftAlone
  <2> QED
    BY <1>1, <1>10, <2>3, LeftAloneIsDense DEF WholeInv, DenseInv
<1>11. ASSUME losses = 0
       PROVE  DenseOf(t)'
  <2>1. DenseOf(t)
    BY <1>3, <1>11 DEF WholeInv, DenseInv
  <2>2. ASSUME pump[t] \in Pumping
        PROVE  PumpIsDense(t)'
    <3> DEFINE q == queues[stream[t]]
    <3>1. stream[t] \in 1..Len(queues)
      BY <1>1, <1>3, <2>2 DEF TypeOK, NoQueue
    <3>2. PumpIsDense(t) /\ queues'[stream[t]].items = q.items /\ queues'[stream[t]].closed
      BY <1>9, <2>1, <2>2, <3>1 DEF DenseOf
    <3>3. Taken(t)' = Taken(t) /\ Taken(t) \in Nat /\ said[t] \in Nat
      BY <1>1, <1>2, <1>3, <3>1, <3>2, TakenIsNat, AudioConstants DEF Taken, TypeOK
    <3>4. ASSUME t \notin over \cup late, mic[t] # "cut"
          PROVE  mic[t] \in {"ended", "left"} /\ Taken(t) = said[t]
      <4>1. CASE q.closed
        BY <3>2, <3>4, <4>1 DEF PumpIsDense
      <4>2. CASE ~q.closed
        <5>1. audio[t] = stream[t]
          BY <1>3, <2>2, <4>2 DEF OpenQueueIsOnTheMap
        <5>2. t \notin ended
          BY <1>1, <1>3, <3>1, <5>1 DEF MapIsOpen, NoQueue
        <5>3. Taken(t) <= said[t] /\ (Taken(t) < said[t] => OnTheWire(Taken(t) + 1, t))
          BY <3>2, <3>4, <4>2, <5>2 DEF PumpIsDense, Fed, NothingComes
        <5>4. \A n : ~OnTheWire(n, t)
          BY <1>5 DEF LastOf, OnTheWire
        <5> QED
          BY <1>5, <3>3, <3>4, <5>3, <5>4 DEF LastOf
      <4> QED
        BY <4>1, <4>2
    <3>5. Continues(queues[stream[t]].items, Len(heard[t]))'
      BY <1>2, <3>2 DEF PumpIsDense, Continues
    <3> QED
      BY <1>2, <3>2, <3>3, <3>4, <3>5 DEF PumpIsDense
  <2>3. StartIsDense(t)'
    BY <1>8, <1>9 DEF StartIsDense
  <2> QED
    BY <1>2, <2>1, <2>2, <2>3 DEF DenseOf, Continues
<1> QED
  BY <1>2, <1>7, <1>9, <1>10, <1>11 DEF WholeInv, DenseInv

\* The end of a turn closes its queue, and the turn is over.
LEMMA EndTurnDense ==
  ASSUME OrderInv, WholeInv, OpenQueueIsOnTheMap, NEW t \in Turn, EndTurn(t)
  PROVE  WholeInv'
<1>1. TypeOK /\ WireIsDense /\ EndsAreLast
  BY DEF OrderInv, WholeInv
<1>2. /\ UNCHANGED <<wire, mic, said, link, losses, pump, stream, heard, late>>
      /\ over' = over \cup {t} /\ ended' = ended \ {t} /\ Forget(t)
  BY DEF EndTurn, Discard, gateway
<1>3. WireIsDense' /\ EndsAreLast'
  BY <1>1, <1>2 DEF WireIsDense, EndsAreLast, LastOf, OnTheWire
<1>4. /\ OwnStreams' /\ MapIsOpen'
      /\ \A q \in 1..Len(queues) : queues'[q].items = queues[q].items
      /\ pump[t] \in Pumping => queues'[stream[t]].closed
      /\ \A u \in Turn : u # t =>
           /\ audio'[u] = audio[u]
           /\ stream[u] # NoQueue => queues'[stream[u]] = queues[stream[u]]
           /\ audio[u] # NoQueue => queues'[audio[u]] = queues[audio[u]]
  <2>1. ended' \subseteq ended \cup {t} /\ ended \subseteq ended' \cup {t}
    BY <1>2
  <2> QED
    BY <1>2, <2>1, ForgetIsOwn
<1>5. ASSUME losses = 0, NEW u \in Turn, u # t
      PROVE  DenseOf(u)'
  <2>1. \A k \in Nat : Fed(k, u) => Fed(k, u)'
    BY <1>2, <1>5 DEF Fed, NothingComes, LastOf, OnTheWire
  <2>2. LeftAlone(u)
    BY <1>2, <1>4, <1>5, <2>1 DEF LeftAlone
  <2> QED
    BY <1>1, <1>5, <2>2, LeftAloneIsDense DEF WholeInv, DenseInv
<1>6. ASSUME losses = 0
      PROVE  DenseOf(t)'
  <2>1. DenseOf(t)
    BY <1>6 DEF WholeInv, DenseInv
  <2>2. ASSUME pump[t] \in Pumping
        PROVE  PumpIsDense(t)'
    <3>1. stream[t] \in 1..Len(queues)
      BY <1>1, <2>2 DEF TypeOK, NoQueue
    <3>2. queues'[stream[t]].items = queues[stream[t]].items /\ queues'[stream[t]].closed
      BY <1>4, <2>2, <3>1
    <3> QED
      BY <1>2, <2>1, <2>2, <3>2 DEF DenseOf, PumpIsDense, Continues
  <2> QED
    BY <1>2, <2>1, <2>2 DEF DenseOf, Continues
<1> QED
  BY <1>2, <1>3, <1>4, <1>5, <1>6 DEF WholeInv, DenseInv

\* The next frame goes behind the others.
LEMMA ContinuesAppend ==
  ASSUME NEW s \in Seq(1..MaxFrames), NEW k \in Nat, NEW n \in 1..MaxFrames,
         Continues(s, k), n = k + Len(s) + 1
  PROVE  Len(Append(s, n)) = Len(s) + 1 /\ Continues(Append(s, n), k)
<1> DEFINE a == Append(s, n)
<1>1. /\ Len(a) = Len(s) + 1 /\ a[Len(s) + 1] = n /\ Len(s) \in Nat
      /\ \A i \in 1..Len(s) : a[i] = s[i]
  OBVIOUS
<1> HIDE DEF a
<1>2. ASSUME NEW i \in 1..Len(a)
      PROVE  a[i] = k + i
  <2>1. i \in 1..Len(s) \/ i = Len(s) + 1
    BY <1>1
  <2>2. n = k + (Len(s) + 1)
    BY <1>1
  <2> QED
    BY <1>1, <2>1, <2>2 DEF Continues
<1> QED
  BY <1>1, <1>2 DEF Continues, a

\* All that a turn has been given is before the head of the wire.
LEMMA LastIsBefore ==
  ASSUME NEW s \in Seq(1..MaxFrames), NEW k \in Nat, NEW t \in Turn, NEW n \in Nat,
         1 \in 1..Len(wire), wire[1].t = "audio", wire[1].turn = t, wire[1].n = n, k < n,
         Continues(s, k), \A i \in 1..Len(s) : BeforeTheWire(s[i], t)
  PROVE  k + Len(s) < n
<1>1. Len(s) \in Nat
  OBVIOUS
<1>2. CASE Len(s) = 0
  BY <1>2
<1>3. CASE Len(s) # 0
  <2>1. Len(s) \in 1..Len(s)
    BY <1>1, <1>3
  <2>2. s[Len(s)] = k + Len(s)
    BY <2>1 DEF Continues
  <2>3. s[Len(s)] < n
    BY <2>1 DEF BeforeTheWire
  <2> QED
    BY <2>2, <2>3
<1> QED
  BY <1>2, <1>3

\* An audio frame is the next of its turn: its queue goes on without a hole.
LEMMA AudioDense ==
  ASSUME OrderInv, WholeInv, OpenQueueIsOnTheMap, OnFrame,
         NEW f \in Frame, f = wire[1], OnAudio(f)
  PROVE  WholeInv'
<1> DEFINE t   == f.turn
           got == Get(t)
           old == got.queues[got.id]
           new == Push(old, f.n)
<1>1. TypeOK /\ WireInv /\ WireIsDense /\ EndsAreLast /\ MapIsOpen /\ OwnQueues /\ QueueInv /\ HeardInv
  BY DEF OrderInv, WholeInv
<1>2. /\ wire # <<>> /\ wire' = Tail(wire)
      /\ UNCHANGED <<mic, said, link, losses, pump, stream, heard, over, late, ended>>
      /\ queues' = [got.queues EXCEPT ![got.id] = new] /\ audio' = got.audio
  BY DEF OnFrame, OnAudio, gateway
<1>3. /\ f.t = "audio" /\ t \in Turn /\ f.n \in 1..MaxFrames
      /\ 1 \in 1..Len(wire) /\ wire[1].t = "audio" /\ wire[1].turn = t /\ wire[1].n = f.n
  BY <1>1, <1>2, WireTail DEF OnAudio, Frame
<1>4. WireIsDense' /\ EndsAreLast'
  BY <1>1, <1>2, PopWhole
<1>5. t \notin ended
  BY <1>1, <1>3 DEF EndsAreLast, LastOf
<1>6. /\ got.queues \in Seq(Queue) /\ got.id \in 1..Len(got.queues) /\ Len(got.queues) \in Nat
      /\ Len(queues) <= Len(got.queues) /\ Len(queues) \in Nat
      /\ \A q \in 1..Len(queues) : got.queues[q] = queues[q]
      /\ audio[t] # NoQueue \/ Len(queues) < got.id
  <2>1. Len(queues) \in Nat
    BY <1>1, Typing
  <2>2. /\ got.queues \in Seq(Queue) /\ got.id \in 1..Len(got.queues) /\ Len(got.queues) \in Nat
        /\ Len(queues) <= Len(got.queues)
        /\ \A q \in 1..Len(queues) : got.queues[q] = queues[q]
        /\ audio[t] # NoQueue \/ got.id = Len(queues) + 1
    BY <1>1, <1>3, GetQueue
  <2> HIDE DEF got
  <2> QED
    BY <2>1, <2>2
<1>7. old \in Queue
  BY <1>6
<1>8. /\ ~old.closed /\ audio'[t] = got.id /\ (audio[t] # NoQueue => got.id = audio[t])
      /\ audio[t] = NoQueue => old.items = <<>>
  <2>1. CASE audio[t] # NoQueue
    <3>1. got.id = audio[t] /\ got.queues = queues /\ got.audio = audio
      BY <1>1, <1>3, <2>1, GetQueue
    <3>2. ~queues[audio[t]].closed
      BY <1>1, <1>3, <2>1 DEF MapIsOpen
    <3> QED
      BY <1>2, <2>1, <3>1, <3>2
  <2>2. CASE audio[t] = NoQueue
    <3>1. old = [items |-> <<>>, closed |-> t \in ended] /\ got.audio = [audio EXCEPT ![t] = got.id]
      BY <1>1, <1>3, <1>5, <2>2, GetQueue
    <3>2. old.closed = (t \in ended)
      <4>1. [items |-> <<>>, closed |-> t \in ended].closed = (t \in ended)
        OBVIOUS
      <4> QED
        BY <3>1, <4>1, Zenon
    <3>3. old.items = <<>>
      BY <3>1
    <3>4. audio \in [Turn -> NoQueue..Len(queues)]
      BY <1>1 DEF TypeOK
    <3> HIDE DEF old, got
    <3>5. audio'[t] = got.id
      BY <1>2, <1>3, <3>1, <3>4
    <3> QED
      BY <1>5, <2>2, <3>2, <3>3, <3>5
  <2> QED
    BY <2>1, <2>2
<1>9. /\ new.items = Append(old.items, f.n) /\ ~new.closed
      /\ old.items \in Seq(1..MaxFrames)
  <2>1. old.items \in Seq(1..MaxFrames)
    BY <1>7 DEF Queue
  <2> HIDE DEF old
  <2>2. new.closed = old.closed /\ new.items = IF old.closed THEN old.items ELSE Append(old.items, f.n)
    BY <1>3, <1>7, PushQueue
  <2> QED
    BY <1>8, <2>1, <2>2
<1>10. /\ \A u \in Turn : got.audio[u] = audio[u] \/ (u = t /\ got.audio[u] = got.id)
       /\ \A u \in Turn : got.audio[u] = got.id \/ stream[u] = got.id => u = t
  BY <1>3, GetOrder
<1> HIDE DEF t, got, old, new
<1>11. /\ queues'[got.id] = new
       /\ \A q \in 1..Len(queues) : q # got.id => queues'[q] = queues[q]
  BY <1>2, <1>6
<1>12. ASSUME NEW u \in Turn, u # t
       PROVE  /\ audio'[u] = audio[u]
              /\ stream[u] # NoQueue => queues'[stream[u]] = queues[stream[u]]
              /\ audio[u] # NoQueue => queues'[audio[u]] = queues[audio[u]]
  <2>1. audio'[u] = audio[u] /\ audio[u] # got.id /\ stream[u] # got.id
    BY <1>2, <1>10, <1>12
  <2>2. /\ stream[u] # NoQueue => stream[u] \in 1..Len(queues)
        /\ audio[u] # NoQueue => audio[u] \in 1..Len(queues)
    BY <1>1 DEF TypeOK, NoQueue
  <2> QED
    BY <1>11, <2>1, <2>2
<1>13. OwnStreams'
  BY <1>2 DEF WholeInv, OwnStreams
<1>14. MapIsOpen'
  <2> SUFFICES ASSUME NEW u \in Turn, audio'[u] # NoQueue
               PROVE  ~queues'[audio'[u]].closed /\ u \notin ended
    BY <1>2 DEF MapIsOpen
  <2>1. CASE u = t
    BY <1>5, <1>8, <1>9, <1>11, <2>1
  <2>2. CASE u # t
    BY <1>1, <1>12, <2>2 DEF MapIsOpen
  <2> QED
    BY <2>1, <2>2
<1>15. ASSUME losses = 0, NEW u \in Turn, u # t
       PROVE  DenseOf(u)'
  <2>1. \A k \in Nat : Fed(k, u) => Fed(k, u)'
    BY <1>1, <1>2, <1>3, <1>15, PopFeeds
  <2>2. LeftAlone(u)
    BY <1>2, <1>12, <1>15, <2>1 DEF LeftAlone
  <2> QED
    BY <1>1, <1>15, <2>2, LeftAloneIsDense DEF WholeInv, DenseInv
<1>16. ASSUME losses = 0, NEW k \in Nat, k < f.n, Fed(k, t)
       PROVE  f.n = k + 1 /\ \A n : n = k + 1 => Fed(n, t)'
  <2>1. f.n = k + 1 /\ Fed(f.n, f.turn)'
    BY <1>1, <1>2, <1>3, <1>16, HeadIsNext DEF t
  <2> QED
    BY <2>1 DEF t
<1>17. ASSUME losses = 0, pump[t] \in Pumping
       PROVE  PumpIsDense(t)'
  <2> DEFINE q   == queues[stream[t]]
             had == Len(heard[t])
             has == Len(q.items)
  <2>1. PumpIsDense(t) /\ Continues(heard[t], 0)
    BY <1>3, <1>17 DEF WholeInv, DenseInv, DenseOf
  <2>2. stream[t] \in 1..Len(queues) /\ stream[t] # NoQueue
    BY <1>1, <1>3, <1>17 DEF TypeOK, NoQueue
  <2>3. CASE q.closed
    <3>1. stream[t] # got.id
      BY <1>1, <1>3, <1>6, <1>8, <2>2, <2>3 DEF MapIsOpen
    <3>2. queues'[stream[t]] = q
      BY <1>11, <2>2, <3>1
    <3> QED
      BY <1>2, <2>1, <2>3, <3>2 DEF PumpIsDense, Taken, Continues
  <2>4. CASE ~q.closed
    <3>1. audio[t] = stream[t] /\ got.id = stream[t] /\ old = q
      BY <1>3, <1>6, <1>8, <1>17, <2>2, <2>4 DEF OpenQueueIsOnTheMap, old
    <3>2. had \in Nat /\ has \in Nat /\ heard[t] \in Seq(1..MaxFrames) /\ q.items \in Seq(1..MaxFrames)
      BY <1>1, <1>3, <2>2, Typing
    <3>3. had < f.n
      <4>1. \A i \in 1..Len(heard[t]) : BeforeTheWire(heard[t][i], t)
        BY <1>1, <1>3 DEF HeardInv
      <4>2. 0 + Len(heard[t]) < f.n
        BY <1>3, <2>1, <3>2, <4>1, LastIsBefore
      <4> QED
        BY <3>2, <4>2
    <3>4. had + has < f.n
      <4>1. \A i \in 1..Len(q.items) : BeforeTheWire(q.items[i], t)
        BY <1>1, <1>3, <2>2 DEF QueueInv, QueueOf
      <4>2. Continues(q.items, had)
        BY <2>1 DEF PumpIsDense
      <4>3. had + Len(q.items) < f.n
        <5> HIDE DEF q, had
        <5> QED
          BY <1>3, <3>2, <3>3, <4>1, <4>2, LastIsBefore
      <4> QED
        BY <4>3
    <3>5. had + has \in Nat /\ Fed(had + has, t)
      <4>1. Taken(t) = had + has
        BY DEF Taken
      <4>2. Fed(Taken(t), t)
        BY <2>1, <2>4 DEF PumpIsDense
      <4> HIDE DEF had, has
      <4> QED
        BY <3>2, <4>1, <4>2
    <3>6. f.n = had + has + 1 /\ \A n : n = had + has + 1 => Fed(n, t)'
      BY <1>16, <1>17, <3>4, <3>5
    <3>7. queues'[stream[t]].items = Append(q.items, f.n) /\ ~queues'[stream[t]].closed
      BY <1>9, <1>11, <3>1
    <3>8. Continues(Append(q.items, f.n), had) /\ Len(Append(q.items, f.n)) = has + 1
      BY <1>3, <2>1, <3>2, <3>6, ContinuesAppend DEF PumpIsDense
    <3> HIDE DEF q, had, has
    <3>9. \A n : n = Taken(t)' => n = had + has + 1
      <4>1. Taken(t)' = Len(heard[t]) + Len(queues'[stream[t]].items)
        BY <1>2 DEF Taken
      <4>2. Len(queues'[stream[t]].items) = has + 1
        BY <3>7, <3>8
      <4>3. Taken(t)' = had + (has + 1)
        BY <4>1, <4>2 DEF had
      <4>4. had + (has + 1) = had + has + 1
        BY <3>2
      <4> QED
        BY <4>3, <4>4
    <3>10. \A n : n = Taken(t)' => Fed(n, t)'
      BY <3>6, <3>9
    <3>11. Fed(Taken(t), t)'
      BY <3>10 DEF Fed
    <3> QED
      BY <1>2, <3>7, <3>8, <3>11 DEF PumpIsDense, Continues, had
  <2> QED
    BY <2>3, <2>4
<1>18. ASSUME losses = 0, pump[t] = "none", t \notin over
       PROVE  StartIsDense(t)'
  <2> DEFINE has == Len(old.items)
  <2>1. StartIsDense(t)
    BY <1>3, <1>18 DEF WholeInv, DenseInv, DenseOf
  <2>2. has \in Nat
    BY <1>9
  <2>3. Continues(old.items, 0) /\ Fed(has, t) /\ \A i \in 1..has : BeforeTheWire(old.items[i], t)
    <3>1. CASE audio[t] = NoQueue
      BY <1>8, <2>1, <3>1 DEF StartIsDense, Continues
    <3>2. CASE audio[t] # NoQueue
      <4>1. audio[t] \in 1..Len(queues)
        BY <1>1, <1>3, <3>2 DEF TypeOK, NoQueue
      <4>2. old = queues[audio[t]]
        BY <1>6, <1>8, <3>2, <4>1 DEF old
      <4>3. \A i \in 1..has : BeforeTheWire(old.items[i], t)
        BY <1>1, <1>3, <3>2, <4>1, <4>2 DEF QueueInv, QueueOf
      <4> QED
        BY <2>1, <3>2, <4>2, <4>3 DEF StartIsDense
    <3> QED
      BY <3>1, <3>2
  <2>4. 0 + Len(old.items) < f.n
    <3>1. f.n \in Nat /\ 0 < f.n
      BY <1>3
    <3> QED
      BY <1>3, <1>9, <2>3, <3>1, LastIsBefore
  <2>5. f.n = has + 1 /\ \A n : n = has + 1 => Fed(n, t)'
    BY <1>16, <1>18, <2>2, <2>3, <2>4
  <2>6. f.n = 0 + Len(old.items) + 1
    BY <2>2, <2>5
  <2>7. Continues(new.items, 0) /\ Len(new.items) = has + 1
    BY <1>3, <1>9, <2>3, <2>6, ContinuesAppend
  <2> HIDE DEF has
  <2>8. audio'[t] # NoQueue /\ queues'[audio'[t]] = new
    BY <1>6, <1>8, <1>11 DEF NoQueue
  <2>9. \A n : n = Len(queues'[audio'[t]].items) => Fed(n, t)'
    BY <2>5, <2>7, <2>8
  <2>10. Fed(Len(queues[audio[t]].items), t)'
    BY <2>9 DEF Fed
  <2> QED
    BY <2>7, <2>8, <2>10 DEF StartIsDense, Continues
<1>19. ASSUME losses = 0
       PROVE  DenseOf(t)'
  BY <1>2, <1>3, <1>17, <1>18, <1>19 DEF WholeInv, DenseInv, DenseOf, Continues
<1> QED
  BY <1>2, <1>4, <1>13, <1>14, <1>15, <1>19 DEF WholeInv, DenseInv

\* The wire, the microphones and the ended turns stay as they are.
LEMMA QuietWhole ==
  ASSUME WireIsDense, EndsAreLast, UNCHANGED <<mic, said, link, wire, losses, ended>>
  PROVE  /\ WireIsDense' /\ EndsAreLast'
         /\ \A k, u : Fed(k, u) => Fed(k, u)'
BY DEF WireIsDense, EndsAreLast, LastOf, OnTheWire, Fed, NothingComes

\* A pump that starts is handed what waits for its turn, from the first frame on.
LEMMA StartDense ==
  ASSUME OrderInv, WholeInv, NEW t \in Turn, StartTranscribe(t)
  PROVE  WholeInv'
<1> DEFINE got == Get(t)
<1>1. TypeOK /\ WireIsDense /\ EndsAreLast /\ MapIsOpen /\ HeardInv
  BY DEF OrderInv, WholeInv
<1>2. /\ queues' = got.queues /\ audio' = got.audio
      /\ stream' = [stream EXCEPT ![t] = got.id]
      /\ pump' = [pump EXCEPT ![t] = "opening"]
      /\ late' = IF t \in ended THEN late \cup {t} ELSE late
      /\ UNCHANGED <<mic, said, link, wire, ended, heard, over, losses>>
      /\ pump[t] = "none" /\ t \notin over
  BY DEF StartTranscribe, AudioStream, gateway
<1>3. /\ WireIsDense' /\ EndsAreLast'
      /\ \A k, u : Fed(k, u) => Fed(k, u)'
  BY <1>1, <1>2, QuietWhole
<1>4. /\ got.id \in 1..Len(got.queues)
      /\ Len(queues) <= Len(got.queues) /\ Len(queues) \in Nat
      /\ \A q \in 1..Len(queues) : got.queues[q] = queues[q]
  <2>1. Len(queues) \in Nat
    BY <1>1, Typing
  <2>2. /\ got.id \in 1..Len(got.queues)
        /\ Len(queues) <= Len(got.queues)
        /\ \A q \in 1..Len(queues) : got.queues[q] = queues[q]
    BY <1>1, GetQueue
  <2> HIDE DEF got
  <2> QED
    BY <2>1, <2>2
<1>5. /\ \A u \in Turn : got.audio[u] = audio[u] \/ (u = t /\ got.audio[u] = got.id)
      /\ \A u \in Turn : got.audio[u] = got.id \/ stream[u] = got.id => u = t
  BY GetOrder
<1>6. \/ audio[t] # NoQueue /\ got.id = audio[t] /\ got.queues = queues /\ got.audio = audio
      \/ /\ audio[t] = NoQueue
         /\ got.queues[got.id] = [items |-> <<>>, closed |-> t \in ended]
         /\ t \in ended => got.audio = audio
  BY <1>1, GetQueue
<1>7. [items |-> <<>>, closed |-> t \in ended].closed = (t \in ended)
  OBVIOUS
<1>8. stream \in [Turn -> NoQueue..Len(queues)] /\ audio \in [Turn -> NoQueue..Len(queues)]
      /\ pump \in [Turn -> {"none", "opening", "reading", "flushed", "stopped", "dead"}]
      /\ late \subseteq Turn
  BY <1>1 DEF TypeOK
<1>9. audio[t] = NoQueue => got.queues[got.id].closed = (t \in ended)
  BY <1>6, <1>7, Zenon
<1>10. audio[t] = NoQueue => got.queues[got.id].items = <<>>
  BY <1>6
<1> HIDE DEF got
<1>11. stream'[t] = got.id /\ \A u \in Turn : u # t => stream'[u] = stream[u] /\ audio'[u] = audio[u]
  BY <1>2, <1>5, <1>8
<1>12. OwnStreams'
  BY <1>2, <1>5, <1>11 DEF WholeInv, OwnStreams
<1>13. MapIsOpen'
  <2> SUFFICES ASSUME NEW u \in Turn, audio'[u] # NoQueue
               PROVE  ~queues'[audio'[u]].closed /\ u \notin ended
    BY <1>2 DEF MapIsOpen
  <2>1. CASE audio'[u] = audio[u]
    <3>1. audio[u] \in 1..Len(queues)
      BY <1>8, <2>1 DEF NoQueue
    <3> QED
      BY <1>1, <1>2, <1>4, <2>1, <3>1 DEF MapIsOpen
  <2>2. CASE u = t /\ audio'[u] = got.id /\ audio'[u] # audio[u]
    BY <1>2, <1>6, <1>9, <2>2
  <2> QED
    BY <1>2, <1>5, <2>1, <2>2
<1>14. ASSUME losses = 0, NEW u \in Turn, u # t
       PROVE  DenseOf(u)'
  <2>1. /\ stream[u] # NoQueue => stream[u] \in 1..Len(queues)
        /\ audio[u] # NoQueue => audio[u] \in 1..Len(queues)
    BY <1>8 DEF NoQueue
  <2>2. pump'[u] = pump[u] /\ (u \in late') = (u \in late)
    BY <1>2, <1>8, <1>14
  <2>3. LeftAlone(u)
    BY <1>2, <1>3, <1>4, <1>11, <1>14, <2>1, <2>2 DEF LeftAlone
  <2> QED
    BY <1>1, <1>14, <2>3, LeftAloneIsDense DEF WholeInv, DenseInv
<1>15. ASSUME losses = 0
       PROVE  DenseOf(t)'
  <2> DEFINE q == got.queues[got.id]
  <2>1. heard[t] = <<>> /\ Len(heard[t]) = 0
    BY <1>1, <1>2 DEF HeardInv
  <2>2. StartIsDense(t)
    BY <1>2, <1>15 DEF WholeInv, DenseInv, DenseOf
  <2>3. queues'[stream'[t]] = q
    BY <1>2, <1>11
  <2>4. /\ Continues(q.items, 0) /\ Len(q.items) \in Nat
        /\ ~q.closed => Fed(Len(q.items), t)
        /\ q.closed => t \in late'
    <3>1. CASE audio[t] = NoQueue
      <4>1. q.items = <<>> /\ Len(q.items) = 0 /\ q.closed = (t \in ended)
        BY <1>9, <1>10, <3>1
      <4>2. Fed(0, t)
        BY <2>2, <3>1 DEF StartIsDense
      <4>3. ~q.closed => Fed(Len(q.items), t)
        BY <4>1, <4>2
      <4>4. q.closed => t \in late'
        BY <1>2, <4>1
      <4> HIDE DEF q
      <4> QED
        BY <4>1, <4>3, <4>4 DEF Continues
    <3>2. CASE audio[t] # NoQueue
      <4>1. audio[t] \in 1..Len(queues) /\ q = queues[audio[t]]
        BY <1>6, <1>8, <3>2 DEF NoQueue
      <4>2. ~q.closed /\ Len(q.items) \in Nat
        BY <1>1, <3>2, <4>1, Typing DEF MapIsOpen
      <4> QED
        BY <2>2, <3>2, <4>1, <4>2 DEF StartIsDense
    <3> QED
      BY <3>1, <3>2
  <2> HIDE DEF q
  <2>5. \A k : k = Taken(t)' => k = Len(q.items)
    <3>1. Taken(t)' = Len(heard[t]) + Len(q.items)
      BY <1>2, <2>3 DEF Taken
    <3> QED
      BY <2>1, <2>4, <3>1
  <2>6. ~q.closed => \A k : k = Taken(t)' => Fed(k, t)'
    BY <1>3, <2>4, <2>5
  <2>7. ~q.closed => Fed(Taken(t), t)'
    BY <2>6 DEF Fed
  <2>8. PumpIsDense(t)'
    BY <1>2, <2>1, <2>3, <2>4, <2>7 DEF PumpIsDense, Continues
  <2> QED
    BY <1>2, <1>8, <2>1, <2>8 DEF DenseOf, Continues
<1> QED
  BY <1>2, <1>3, <1>12, <1>13, <1>14, <1>15 DEF WholeInv, DenseInv

\* The next frame that is read follows what was heard, and the rest follows it.
LEMMA ContinuesRead ==
  ASSUME NEW h \in Seq(1..MaxFrames), NEW s \in Seq(1..MaxFrames), s # <<>>,
         Continues(h, 0), Continues(s, Len(h))
  PROVE  /\ Continues(Append(h, Head(s)), 0)
         /\ Continues(Tail(s), Len(Append(h, Head(s))))
         /\ Len(Append(h, Head(s))) + Len(Tail(s)) = Len(h) + Len(s)
<1> DEFINE a == Append(h, Head(s))
           r == Tail(s)
<1>1. /\ Len(r) = Len(s) - 1 /\ Len(s) \in Nat /\ Len(s) > 0 /\ Head(s) = s[1]
      /\ \A k \in 1..Len(r) : r[k] = s[k + 1]
      /\ Len(h) \in Nat
  BY HeadTailProperties
<1>2. 1 \in 1..Len(s)
  BY <1>1
<1>3. s[1] = Len(h) + 1 /\ s[1] \in 1..MaxFrames
  <2>1. s[1] = Len(h) + 1
    BY <1>2 DEF Continues
  <2>2. s[1] \in 1..MaxFrames
    BY <1>2, ElementOfSeq
  <2> QED
    BY <2>1, <2>2
<1>4. Head(s) = 0 + Len(h) + 1 /\ Head(s) \in 1..MaxFrames
  BY <1>1, <1>3
<1>5. Continues(a, 0) /\ Len(a) = Len(h) + 1
  BY <1>4, ContinuesAppend
<1> HIDE DEF a, r
<1>6. ASSUME NEW i \in 1..Len(r)
      PROVE  r[i] = Len(a) + i
  <2>1. i + 1 \in 1..Len(s)
    BY <1>1
  <2>2. s[i + 1] = Len(h) + (i + 1)
    BY <2>1 DEF Continues
  <2> QED
    BY <1>1, <1>5, <2>2
<1>7. Continues(r, Len(a))
  BY <1>6 DEF Continues
<1>8. Len(a) + Len(r) = Len(h) + Len(s)
  BY <1>1, <1>5
<1> QED
  BY <1>5, <1>7, <1>8 DEF a, r

\* A pump takes from its own queue what comes next.
LEMMA ReadDense ==
  ASSUME OrderInv, WholeInv, NEW t \in Turn, PumpReads(t)
  PROVE  WholeInv'
<1> DEFINE s   == stream[t]
           old == queues[s].items
           h   == heard[t]
<1>1. TypeOK /\ WireIsDense /\ EndsAreLast /\ MapIsOpen /\ OwnQueues /\ OwnStreams
  BY DEF OrderInv, WholeInv
<1>2. /\ UNCHANGED <<mic, said, link, wire, audio, ended, stream, over, losses, late>>
      /\ queues' = [queues EXCEPT ![s] = [queues[s] EXCEPT !.items = Tail(old)]]
      /\ pump[t] = "reading" /\ old # <<>>
      /\ \/ heard' = [heard EXCEPT ![t] = Append(h, Head(old))] /\ pump' = pump
         \/ heard' = heard /\ pump' = [pump EXCEPT ![t] = "stopped"]
  BY DEF PumpReads, gateway
<1>3. /\ WireIsDense' /\ EndsAreLast'
      /\ \A k, u : Fed(k, u) => Fed(k, u)'
  BY <1>1, <1>2, QuietWhole
<1>4. /\ s \in 1..Len(queues) /\ pump[t] \in Pumping /\ s # NoQueue
      /\ heard \in [Turn -> Seq(1..MaxFrames)]
      /\ pump \in [Turn -> {"none", "opening", "reading", "flushed", "stopped", "dead"}]
  BY <1>1, <1>2 DEF TypeOK, NoQueue, Pumping
<1>5. /\ queues \in Seq(Queue) /\ queues[s] \in Queue /\ old \in Seq(1..MaxFrames)
      /\ h \in Seq(1..MaxFrames) /\ Len(queues) \in Nat
  BY <1>1, <1>4, Typing
<1>6. /\ [queues[s] EXCEPT !.items = Tail(old)].items = Tail(old)
      /\ [queues[s] EXCEPT !.items = Tail(old)].closed = queues[s].closed
  BY <1>5 DEF Queue
<1>7. \A u \in Turn : /\ u # t => stream[u] # s
                      /\ audio[u] = s => u = t
  BY <1>1, <1>4 DEF OwnStreams, OwnQueues
<1> HIDE DEF s, old, h
<1>8. /\ queues'[s].items = Tail(old) /\ queues'[s].closed = queues[s].closed
      /\ \A q \in 1..Len(queues) : q # s => queues'[q] = queues[q]
  BY <1>2, <1>4, <1>5, <1>6
<1>9. /\ \A u \in Turn : stream[u] # NoQueue => stream[u] \in 1..Len(queues)
      /\ \A u \in Turn : audio[u] # NoQueue => audio[u] \in 1..Len(queues)
  BY SMTT(30), <1>1 DEF TypeOK, NoQueue
<1>10. OwnStreams' /\ MapIsOpen'
  <2>1. OwnStreams'
    BY <1>1, <1>2 DEF OwnStreams
  <2>2. \A q \in 1..Len(queues) : queues'[q].closed = queues[q].closed
    BY <1>8
  <2>3. MapIsOpen'
    BY <1>1, <1>2, <1>9, <2>2 DEF MapIsOpen
  <2> QED
    BY <2>1, <2>3
<1>11. ASSUME losses = 0, NEW u \in Turn, u # t
       PROVE  DenseOf(u)'
  <2>1. /\ stream[u] # NoQueue => queues'[stream[u]] = queues[stream[u]]
        /\ audio[u] # NoQueue => queues'[audio[u]] = queues[audio[u]]
    BY <1>7, <1>8, <1>9, <1>11
  <2>2. heard'[u] = heard[u] /\ pump'[u] = pump[u]
    BY <1>2, <1>4, <1>11
  <2>3. LeftAlone(u)
    BY <1>2, <1>3, <1>11, <2>1, <2>2 DEF LeftAlone
  <2> QED
    BY <1>1, <1>11, <2>3, LeftAloneIsDense DEF WholeInv, DenseInv
<1>12. ASSUME losses = 0
       PROVE  DenseOf(t)'
  <2>1. /\ Continues(h, 0)
        /\ Continues(old, Len(h))
        /\ PumpIsDense(t)
    BY <1>4, <1>12 DEF WholeInv, DenseInv, DenseOf, PumpIsDense, old, s, h
  <2>2. CASE heard'[t] = h /\ pump'[t] = "stopped"
    BY <2>1, <2>2 DEF DenseOf, Continues, Pumping
  <2>3. CASE heard'[t] = Append(h, Head(old)) /\ pump'[t] = "reading"
    <3>1. /\ Continues(Append(h, Head(old)), 0)
          /\ Continues(Tail(old), Len(Append(h, Head(old))))
          /\ Len(Append(h, Head(old))) + Len(Tail(old)) = Len(h) + Len(old)
      BY <1>2, <1>5, <2>1, ContinuesRead
    <3>2. Taken(t)' = Len(Append(h, Head(old))) + Len(Tail(old))
      BY <1>2, <1>8, <2>3 DEF Taken, s
    <3>3. Taken(t)' = Taken(t)
      BY <3>1, <3>2 DEF Taken, h, old, s
    <3>4. ~queues[s].closed => \A k : k = Taken(t)' => Fed(k, t)'
      BY <1>3, <2>1, <3>3 DEF PumpIsDense, s
    <3>5. ~queues[s].closed => Fed(Taken(t), t)'
      BY <3>4 DEF Fed
    <3>6. PumpIsDense(t)'
      BY <1>2, <1>8, <2>1, <2>3, <3>1, <3>3, <3>5 DEF PumpIsDense, Continues, s
    <3> QED
      BY <2>3, <3>1, <3>6 DEF DenseOf, Continues
  <2>4. CASE heard' = [heard EXCEPT ![t] = Append(h, Head(old))] /\ pump' = pump
    BY <1>2, <1>4, <2>3, <2>4
  <2>5. CASE heard' = heard /\ pump' = [pump EXCEPT ![t] = "stopped"]
    BY <1>4, <2>2, <2>5 DEF h
  <2> QED
    BY <1>2, <2>4, <2>5
<1> QED
  BY <1>2, <1>3, <1>10, <1>11, <1>12 DEF WholeInv, DenseInv

\* A pump that opens, or that asks for the final transcript, takes nothing.
LEMMA PumpDense ==
  ASSUME OrderInv, WholeInv, NEW t \in Turn, PumpOpens(t) \/ PumpFlushes(t)
  PROVE  WholeInv'
<1>1. TypeOK /\ WireIsDense /\ EndsAreLast
  BY DEF OrderInv, WholeInv
<1>2. UNCHANGED <<mic, said, link, wire, queues, audio, ended, stream, heard, over, losses, late>>
  BY DEF PumpOpens, PumpFlushes, gateway
<1>3. \A u \in Turn : /\ pump'[u] \in Pumping => pump[u] \in Pumping
                      /\ pump'[u] = "none" => pump[u] = "none"
  BY <1>1 DEF PumpOpens, PumpFlushes, TypeOK, Pumping
<1>4. /\ WireIsDense' /\ EndsAreLast'
      /\ \A k, u : Fed(k, u) => Fed(k, u)'
  BY <1>1, <1>2, QuietWhole
<1>5. OwnStreams' /\ MapIsOpen'
  BY <1>2 DEF WholeInv, OwnStreams, MapIsOpen
<1>6. ASSUME losses = 0, NEW u \in Turn
      PROVE  DenseOf(u)'
  <2>1. DenseOf(u)
    BY <1>6 DEF WholeInv, DenseInv
  <2>2. PumpIsDense(u) => PumpIsDense(u)'
    BY <1>2 DEF PumpIsDense, Taken, Fed, NothingComes, LastOf, OnTheWire, Continues
  <2>3. StartIsDense(u) => StartIsDense(u)'
    BY <1>2 DEF StartIsDense, Fed, NothingComes, LastOf, OnTheWire, Continues
  <2> QED
    BY <1>2, <1>3, <2>1, <2>2, <2>3 DEF DenseOf, Continues
<1> QED
  BY <1>2, <1>4, <1>5, <1>6 DEF WholeInv, DenseInv

\* Once something was lost, nothing is asked of what is heard.
LEMMA LossWhole ==
  ASSUME OrderInv, WholeInv, SocketCloses \/ SocketOpens \/ Restart
  PROVE  WholeInv'
<1>1. TypeOK /\ losses \in Nat
  BY AudioConstants DEF OrderInv, TypeOK
<1>2. losses' # 0
  BY <1>1 DEF SocketCloses, SocketOpens, Restart, WholeInv, WireIsDense
<1>3. EndsAreLast'
  <2>1. CASE SocketOpens
    BY <2>1 DEF SocketOpens, gateway, worker, WholeInv, EndsAreLast, LastOf
  <2>2. CASE SocketCloses \/ Restart
    <3>1. wire' = <<>> /\ ended' \subseteq ended /\ mic' = mic
      BY <2>2 DEF SocketCloses, Restart, gateway, worker
    <3> QED
      BY <3>1 DEF WholeInv, EndsAreLast, LastOf
  <2> QED
    BY <2>1, <2>2
<1>4. OwnStreams' /\ MapIsOpen'
  <2>1. CASE SocketCloses \/ SocketOpens
    BY <2>1 DEF SocketCloses, SocketOpens, worker, WholeInv, OwnStreams, MapIsOpen
  <2>2. CASE Restart
    BY <2>2 DEF Restart, OwnStreams, MapIsOpen
  <2> QED
    BY <2>1, <2>2
<1> QED
  BY <1>2, <1>3, <1>4 DEF WholeInv, WireIsDense, DenseInv

LEMMA NextWhole ==
  ASSUME OrderInv, OpenQueueIsOnTheMap, WholeInv, [Next]_vars
  PROVE  WholeInv'
<1>1. CASE \E t \in Turn : OpenMic(t) \/ Forward(t) \/ CloseMic(t) \/ Cut(t) \/ Leave(t)
  BY <1>1, GatewayDense
<1>2. CASE \E t \in Turn : StartTranscribe(t)
  BY <1>2, StartDense
<1>3. CASE \E t \in Turn : PumpOpens(t) \/ PumpFlushes(t)
  BY <1>3, PumpDense
<1>4. CASE \E t \in Turn : PumpReads(t)
  BY <1>4, ReadDense
<1>5. CASE \E t \in Turn : EndTurn(t)
  BY <1>5, EndTurnDense
<1>6. CASE OnFrame
  <2>1. wire # <<>> /\ (OnAudio(Head(wire)) \/ OnAudioEnd(Head(wire)) \/ OnCancel(Head(wire)))
    BY <1>6 DEF OnFrame
  <2>2. PICK f \in Frame : f = Head(wire) /\ f = wire[1]
    BY <2>1, Typing, HeadTailProperties DEF OrderInv
  <2> QED
    BY <1>6, <2>1, <2>2, AudioDense, EndDense
<1>7. CASE SocketCloses \/ SocketOpens \/ Restart
  BY <1>7, LossWhole
<1>8. CASE UNCHANGED vars
  <2>1. UNCHANGED <<mic, said, link, wire, queues, audio, ended, pump, stream, heard, over, losses, late>>
    BY <1>8 DEF vars
  <2>2. OwnStreams' /\ WireIsDense' /\ EndsAreLast' /\ MapIsOpen'
    BY <2>1 DEF WholeInv, OwnStreams, WireIsDense, EndsAreLast, MapIsOpen, LastOf, OnTheWire
  <2>3. DenseInv'
    <3>1. \A k, u : Fed(k, u) => Fed(k, u)'
      BY <2>1, QuietWhole DEF WholeInv
    <3>2. \A u \in Turn : LeftAlone(u)
      BY <2>1, <3>1 DEF LeftAlone
    <3> QED
      BY <2>1, <3>2, LeftAloneIsDense DEF WholeInv, DenseInv, OrderInv
  <2> QED
    BY <2>2, <2>3 DEF WholeInv
<1> QED
  BY <1>1, <1>2, <1>3, <1>4, <1>5, <1>6, <1>7, <1>8 DEF Next

LEMMA InitWhole == Init => WholeInv
<1> SUFFICES ASSUME Init
             PROVE  WholeInv
  OBVIOUS
<1>1. OwnStreams /\ WireIsDense /\ EndsAreLast /\ MapIsOpen
  BY DEF Init, OwnStreams, WireIsDense, EndsAreLast, MapIsOpen
<1>2. ASSUME NEW t \in Turn
      PROVE  DenseOf(t)
  <2>1. /\ said[t] = 0 /\ audio[t] = NoQueue /\ pump[t] = "none"
        /\ heard[t] = <<>> /\ Len(heard[t]) = 0
    BY DEF Init
  <2>2. Fed(0, t)
    BY <2>1 DEF Fed
  <2> QED
    BY <2>1, <2>2 DEF DenseOf, StartIsDense, Continues, Pumping
<1> QED
  BY <1>1, <1>2 DEF WholeInv, DenseInv

\* While neither the connection nor the worker is lost, a pump hears the utterance from
\* its first frame on and misses none, for any turns that share the socket and wherever
\* the start of transcribe falls between their frames (gateway-channel.ts, stt.ts).
THEOREM NothingIsMissed == Spec => []HeardWithoutHoles
<1>1. Init => OrderInv /\ OpenQueueIsOnTheMap /\ WholeInv
  BY InitOrder, InitWhole DEF Init, OpenQueueIsOnTheMap, Pumping
<1>2. OrderInv /\ OpenQueueIsOnTheMap /\ WholeInv /\ [Next]_vars
        => OrderInv' /\ OpenQueueIsOnTheMap' /\ WholeInv'
  <2>1. OrderInv => TypeOK
    BY DEF OrderInv
  <2> QED
    BY <2>1, NextOrder, NextReaches, NextWhole
<1>3. OrderInv /\ WholeInv => HeardWithoutHoles
  <2> SUFFICES ASSUME OrderInv, WholeInv, losses = 0, NEW t \in Turn, NEW i \in 1..Len(heard[t])
               PROVE  heard[t][i] = i
    BY DEF HeardWithoutHoles
  <2>1. Continues(heard[t], 0)
    BY DEF WholeInv, DenseInv, DenseOf
  <2>2. heard[t][i] = 0 + i
    BY <2>1 DEF Continues
  <2> QED
    BY <2>2
<1> QED
  BY <1>1, <1>2, <1>3, PTL DEF Spec

\* Only a pump that has read its queue to the end asks for the final transcript.
LEMMA OnlyFlushed ==
  ASSUME TypeOK, [Next]_vars, NEW t \in Turn, pump[t] = "reading", pump'[t] = "flushed"
  PROVE  PumpFlushes(t)
<1>0. pump \in [Turn -> {"none", "opening", "reading", "flushed", "stopped", "dead"}]
  BY DEF TypeOK
<1>1. pump' # pump
  OBVIOUS
<1>2. ~OnFrame /\ ~SocketCloses /\ ~SocketOpens /\ ~UNCHANGED vars
  BY <1>1 DEF OnFrame, SocketCloses, SocketOpens, worker, vars
<1>3. ~Restart
  BY <1>0 DEF Restart, Pumping
<1>4. ASSUME NEW u \in Turn
      PROVE  /\ ~OpenMic(u) /\ ~Forward(u) /\ ~CloseMic(u) /\ ~Cut(u) /\ ~Leave(u) /\ ~EndTurn(u)
             /\ ~StartTranscribe(u) /\ ~PumpOpens(u) /\ ~PumpReads(u)
             /\ PumpFlushes(u) => u = t
  <2>1. ~OpenMic(u) /\ ~Forward(u) /\ ~CloseMic(u) /\ ~Cut(u) /\ ~Leave(u) /\ ~EndTurn(u)
    BY <1>1 DEF OpenMic, Forward, CloseMic, Cut, Leave, EndTurn, worker
  <2>2. ~StartTranscribe(u) /\ ~PumpOpens(u) /\ ~PumpReads(u)
    BY <1>0 DEF StartTranscribe, PumpOpens, PumpReads
  <2>3. PumpFlushes(u) => u = t
    BY <1>0 DEF PumpFlushes
  <2> QED
    BY <2>1, <2>2, <2>3
<1> QED
  BY <1>2, <1>3, <1>4 DEF Next

\* Unless something was lost, the turn was cut off or is over, or transcribe came after
\* the end of the utterance, a pump asks for the final transcript only when it has heard
\* every frame that was said (stt.ts, gateway-channel.ts).
THEOREM FlushComesLast == Spec => FlushedAfterAll
<1>1. Init => OrderInv /\ OpenQueueIsOnTheMap /\ WholeInv
  BY InitOrder, InitWhole DEF Init, OpenQueueIsOnTheMap, Pumping
<1>2. OrderInv /\ OpenQueueIsOnTheMap /\ WholeInv /\ [Next]_vars
        => OrderInv' /\ OpenQueueIsOnTheMap' /\ WholeInv'
  <2>1. OrderInv => TypeOK
    BY DEF OrderInv
  <2> QED
    BY <2>1, NextOrder, NextReaches, NextWhole
<1>3. OrderInv /\ WholeInv /\ [Next]_vars
        => \A t \in Turn :
             /\ pump[t] = "reading" /\ pump'[t] = "flushed"
             /\ losses = 0 /\ t \notin over \cup late /\ mic[t] # "cut"
             => mic[t] \in {"ended", "left"} /\ Len(heard[t]) = said[t]
  <2> SUFFICES ASSUME OrderInv, WholeInv, [Next]_vars, NEW t \in Turn,
                      pump[t] = "reading", pump'[t] = "flushed",
                      losses = 0, t \notin over \cup late, mic[t] # "cut"
               PROVE  mic[t] \in {"ended", "left"} /\ Len(heard[t]) = said[t]
    OBVIOUS
  <2>1. TypeOK
    BY DEF OrderInv
  <2>2. queues[stream[t]].items = <<>> /\ queues[stream[t]].closed
    BY <2>1, OnlyFlushed DEF PumpFlushes
  <2>3. PumpIsDense(t)
    BY DEF WholeInv, DenseInv, DenseOf, Pumping
  <2>4. mic[t] \in {"ended", "left"} /\ Taken(t) = said[t]
    BY <2>2, <2>3 DEF PumpIsDense
  <2>5. Taken(t) = Len(heard[t])
    <3>1. Len(heard[t]) \in Nat
      BY <2>1, Typing
    <3> QED
      BY <2>2, <3>1 DEF Taken
  <2> QED
    BY <2>4, <2>5
<1> QED
  BY <1>1, <1>2, <1>3, PTL DEF Spec, FlushedAfterAll
=============================================================================
