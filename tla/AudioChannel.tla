---------------------------- MODULE AudioChannel ----------------------------
(***************************************************************************)
(* The caller's audio on its way to transcribe: the internal socket from   *)
(* the gateway to the worker, which reconnects (gateway-channel.ts,        *)
(* apps/gateway/src/index.ts), the worker's queue per turn, and the pump   *)
(* that reads it (stream.ts, stt.ts).  Turn has the frames of one turn in  *)
(* one step each; here they cross, turn by turn and frame by frame.        *)
(*                                                                         *)
(* A queue is an object: the channel's map holds one of a turn's queues,   *)
(* or none, and a pump goes on reading the one it was handed.  `queues` is *)
(* every queue that the process has made, and a queue's name is its place. *)
(* An audio frame is its number in the utterance.                          *)
(***************************************************************************)
EXTENDS Integers, Sequences

CONSTANTS
  Turn,
  MaxFrames,  \* bound: audio frames of an utterance
  MaxLosses   \* bound: how often the connection or the worker is lost

ASSUME AudioConstants ==
  /\ MaxFrames \in Nat
  /\ MaxLosses \in Nat

VARIABLES
  mic,      \* [Turn -> what the gateway has made of the turn's microphone]
  said,     \* [Turn -> how many audio frames the gateway has forwarded]
  link,     \* is the socket open, as the gateway sees it?
  wire,     \* frames on their way to the worker
  queues,   \* the queues the worker has made
  audio,    \* [Turn -> the queue in the map, or NoQueue]
  ended,    \* turns whose audio_end has come
  pump,     \* [Turn -> where the pump of the turn's transcribe is]
  stream,   \* [Turn -> the queue the pump was handed, or NoQueue]
  heard,    \* [Turn -> the frames the pump has taken]
  over,     \* turns whose endTurn has run
  losses,   \* how often the connection or the worker was lost
  late      \* (history) turns whose pump began after audio_end

vars == <<mic, said, link, wire, queues, audio, ended, pump, stream, heard, over, losses, late>>

gateway == <<mic, said>>
worker  == <<queues, audio, ended, pump, stream, heard, over, late>>

-----------------------------------------------------------------------------
NoQueue == 0

\* A pump has a queue while its socket to Saaras opens, and while it reads.
Pumping == {"opening", "reading"}

Frame == [t : {"audio"}, turn : Turn, n : 1..MaxFrames]
           \cup [t : {"audio_end", "cancel"}, turn : Turn]

Queue == [items : Seq(1..MaxFrames), closed : BOOLEAN]

TypeOK ==
  /\ mic \in [Turn -> {"unused", "open", "ended", "cut", "left"}]
  /\ said \in [Turn -> 0..MaxFrames]
  /\ link \in BOOLEAN
  /\ wire \in Seq(Frame)
  /\ queues \in Seq(Queue)
  /\ audio \in [Turn -> NoQueue..Len(queues)]
  /\ ended \subseteq Turn
  /\ pump \in [Turn -> {"none", "opening", "reading", "flushed", "stopped", "dead"}]
  /\ stream \in [Turn -> NoQueue..Len(queues)]
  /\ \A t \in Turn : pump[t] \in Pumping => stream[t] # NoQueue
  /\ heard \in [Turn -> Seq(1..MaxFrames)]
  /\ over \subseteq Turn
  /\ losses \in 0..MaxLosses
  /\ late \subseteq Turn

Init ==
  /\ mic = [t \in Turn |-> "unused"]
  /\ said = [t \in Turn |-> 0]
  /\ link = TRUE
  /\ wire = <<>>
  /\ queues = <<>>
  /\ audio = [t \in Turn |-> NoQueue]
  /\ ended = {}
  /\ pump = [t \in Turn |-> "none"]
  /\ stream = [t \in Turn |-> NoQueue]
  /\ heard = [t \in Turn |-> <<>>]
  /\ over = {}
  /\ losses = 0
  /\ late = {}

-----------------------------------------------------------------------------
(* The gateway: one turn of some session. *)

\* toWorker: a frame for which there is no open socket is dropped.
Send(f) == wire' = IF link THEN Append(wire, f) ELSE wire

\* #beginTurn
OpenMic(t) ==
  /\ mic[t] = "unused"
  /\ mic' = [mic EXCEPT ![t] = "open"]
  /\ UNCHANGED <<said, link, wire, losses, worker>>

\* #forwardAudio
Forward(t) ==
  /\ mic[t] = "open"
  /\ said[t] < MaxFrames
  /\ said' = [said EXCEPT ![t] = @ + 1]
  /\ Send([t |-> "audio", turn |-> t, n |-> said[t] + 1])
  /\ UNCHANGED <<mic, link, losses, worker>>

\* The detector hears the end of the utterance.
CloseMic(t) ==
  /\ mic[t] = "open"
  /\ mic' = [mic EXCEPT ![t] = "ended"]
  /\ Send([t |-> "audio_end", turn |-> t])
  /\ UNCHANGED <<said, link, losses, worker>>

\* #bargeIn, by the caller or because the call has closed.
Cut(t) ==
  /\ mic[t] \in {"open", "ended"}
  /\ mic' = [mic EXCEPT ![t] = "cut"]
  /\ Send([t |-> "cancel", turn |-> t])
  /\ UNCHANGED <<said, link, losses, worker>>

\* The turn's workflow ends first: #turn is null, and nothing more is sent.
Leave(t) ==
  /\ mic[t] \in {"open", "ended"}
  /\ mic' = [mic EXCEPT ![t] = "left"]
  /\ UNCHANGED <<said, link, wire, losses, worker>>

-----------------------------------------------------------------------------
(* The worker's channel. *)

\* #queue: the turn's queue, and the queues and the map with it in them.
Get(t) ==
  IF audio[t] # NoQueue
    THEN [id |-> audio[t], queues |-> queues, audio |-> audio]
    ELSE [id     |-> Len(queues) + 1,
          queues |-> Append(queues, [items |-> <<>>, closed |-> t \in ended]),
          audio  |-> IF t \in ended THEN audio ELSE [audio EXCEPT ![t] = Len(queues) + 1]]

\* (mutant) the newest item is the first to be read
Unshift(queue, item) == IF queue.closed THEN queue ELSE [queue EXCEPT !.items = <<item>> \o @]

\* AsyncQueue: nothing is pushed onto a closed queue.
Push(queue, item) == IF queue.closed THEN queue ELSE [queue EXCEPT !.items = Append(@, item)]

\* (mutant) what is buffered goes with the queue
CloseEmpty(queue) == [queue EXCEPT !.closed = TRUE, !.items = <<>>]

Close(queue) == [queue EXCEPT !.closed = TRUE]

\* (mutant) the queue is forgotten, and left open
JustForget(t) == audio' = [audio EXCEPT ![t] = NoQueue] /\ UNCHANGED queues

\* The turn's queue is closed and taken off the map.
Forget(t) ==
  /\ queues' = IF audio[t] = NoQueue THEN queues ELSE [queues EXCEPT ![audio[t]] = Close(@)]
  /\ audio' = [audio EXCEPT ![t] = NoQueue]

Discard(t) ==
  /\ Forget(t)
  /\ ended' = ended \ {t}

\* #onFrame
OnAudio(f) ==
  /\ f.t = "audio"
  /\ LET got == Get(f.turn)
     IN /\ queues' = [got.queues EXCEPT ![got.id] = Push(@, f.n)]
        /\ audio' = got.audio
  /\ UNCHANGED ended

\* A queue that is made only to be closed is not kept.
OnAudioEnd(f) ==
  /\ f.t = "audio_end"
  /\ ended' = ended \cup {f.turn}
  /\ Forget(f.turn)

OnCancel(f) ==
  /\ f.t = "cancel"
  /\ Discard(f.turn)

OnFrame ==
  /\ wire # <<>>
  /\ wire' = Tail(wire)
  /\ OnAudio(Head(wire)) \/ OnAudioEnd(Head(wire)) \/ OnCancel(Head(wire))
  /\ UNCHANGED <<gateway, link, pump, stream, heard, over, losses, late>>

\* The socket closes and what it carried is lost; each end dials or accepts anew.
SocketCloses ==
  /\ losses < MaxLosses
  /\ link' = FALSE
  /\ wire' = <<>>
  /\ losses' = losses + 1
  /\ UNCHANGED <<gateway, worker>>

SocketOpens ==
  /\ ~link
  /\ link' = TRUE
  /\ UNCHANGED <<gateway, wire, losses, worker>>

\* The worker dies and is started again, with none of its queues.
Restart ==
  /\ losses < MaxLosses
  /\ losses' = losses + 1
  /\ link' = FALSE
  /\ wire' = <<>>
  /\ queues' = <<>>
  /\ audio' = [t \in Turn |-> NoQueue]
  /\ ended' = {}
  /\ pump' = [t \in Turn |-> IF pump[t] \in Pumping THEN "dead" ELSE pump[t]]
  /\ stream' = [t \in Turn |-> NoQueue]
  /\ UNCHANGED <<gateway, heard, over, late>>

-----------------------------------------------------------------------------
(* transcribe and its pump. *)

\* (mutant) a pump is handed a queue of its own
AudioStreamAnew(t) ==
  /\ queues' = Append(queues, [items |-> <<>>, closed |-> t \in ended])
  /\ audio' = [audio EXCEPT ![t] = IF t \in ended THEN NoQueue ELSE Len(queues) + 1]
  /\ stream' = [stream EXCEPT ![t] = Len(queues) + 1]

AudioStream(t) ==
  LET got == Get(t)
  IN /\ queues' = got.queues
     /\ audio' = got.audio
     /\ stream' = [stream EXCEPT ![t] = got.id]

\* Temporal runs transcribe once, some time after the turn has begun.
StartTranscribe(t) ==
  /\ mic[t] # "unused"
  /\ pump[t] = "none"
  /\ t \notin over
  /\ AudioStream(t)
  /\ pump' = [pump EXCEPT ![t] = "opening"]
  /\ late' = IF t \in ended THEN late \cup {t} ELSE late
  /\ UNCHANGED <<gateway, link, wire, ended, heard, over, losses>>

\* The socket to Saaras opens, or does not.
PumpOpens(t) ==
  /\ pump[t] = "opening"
  /\ \E outcome \in {"reading", "stopped"} : pump' = [pump EXCEPT ![t] = outcome]
  /\ UNCHANGED <<gateway, link, wire, queues, audio, ended, stream, heard, over, losses, late>>

\* The pump takes a frame, and sends it to Saaras, or finds that socket closed.
PumpReads(t) ==
  /\ pump[t] = "reading"
  /\ queues[stream[t]].items # <<>>
  /\ queues' = [queues EXCEPT ![stream[t]].items = Tail(@)]
  /\ \/ /\ heard' = [heard EXCEPT ![t] = Append(@, Head(queues[stream[t]].items))]
        /\ UNCHANGED pump
     \/ /\ pump' = [pump EXCEPT ![t] = "stopped"]
        /\ UNCHANGED heard
  /\ UNCHANGED <<gateway, link, wire, audio, ended, stream, over, losses, late>>

\* The queue is closed and read to its end: Saaras is asked for the final transcript,
\* if its socket is still there.
PumpFlushes(t) ==
  /\ pump[t] = "reading"
  /\ queues[stream[t]].items = <<>>
  /\ queues[stream[t]].closed
  /\ \E outcome \in {"flushed", "stopped"} : pump' = [pump EXCEPT ![t] = outcome]
  /\ UNCHANGED <<gateway, link, wire, queues, audio, ended, stream, heard, over, losses, late>>

\* endTurn: the workflow's last activity, whatever has become of transcribe.
EndTurn(t) ==
  /\ mic[t] # "unused"
  /\ t \notin over
  /\ over' = over \cup {t}
  /\ Discard(t)
  /\ UNCHANGED <<gateway, link, wire, pump, stream, heard, losses, late>>

-----------------------------------------------------------------------------
Next ==
  \/ \E t \in Turn :
       \/ OpenMic(t) \/ Forward(t) \/ CloseMic(t) \/ Cut(t) \/ Leave(t)
       \/ StartTranscribe(t) \/ PumpOpens(t) \/ PumpReads(t) \/ PumpFlushes(t) \/ EndTurn(t)
  \/ OnFrame \/ SocketCloses \/ SocketOpens \/ Restart

Spec == Init /\ [][Next]_vars

\* Every workflow comes to its endTurn (TurnEnds of Turn), a connection opens or fails,
\* and a pump is never starved.
FairSpec ==
  /\ Spec
  /\ \A t \in Turn : WF_vars(EndTurn(t))
  /\ \A t \in Turn : WF_vars(PumpOpens(t)) /\ WF_vars(PumpReads(t)) /\ WF_vars(PumpFlushes(t))

-----------------------------------------------------------------------------
(* Properties. *)

\* A frame is heard once and in its order, however often the connection is lost
\* (gateway-channel.ts, stream.ts).
HeardInOrder ==
  \A t \in Turn : \A i, j \in 1..Len(heard[t]) : i < j => heard[t][i] < heard[t][j]

\* While the connection lasts there is no hole in what is heard, whenever transcribe
\* is scheduled: what came before it waits in the queue.
HeardWithoutHoles ==
  losses = 0 => \A t \in Turn : \A i \in 1..Len(heard[t]) : heard[t][i] = i

\* A pump that asks for the final transcript of a turn that goes on, having begun
\* before the end of the utterance, has heard all of it.
FlushedAfterAll ==
  [][\A t \in Turn :
       /\ pump[t] = "reading" /\ pump'[t] = "flushed"
       /\ losses = 0 /\ t \notin over \cup late /\ mic[t] # "cut"
       => mic[t] \in {"ended", "left"} /\ Len(heard[t]) = said[t]]_vars

\* An open queue that a pump was handed is the one on the map, so whatever ends the
\* turn's audio (audio_end, cancel, endTurn) reaches the pump.
OpenQueueIsOnTheMap ==
  \A t \in Turn :
    pump[t] \in Pumping => queues[stream[t]].closed \/ audio[t] = stream[t]

\* No pump waits for ever: not when audio_end was lost, or came before transcribe.
PumpsEnd == \A t \in Turn : pump[t] \in Pumping ~> pump[t] \notin Pumping
=============================================================================
