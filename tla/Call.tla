-------------------------------- MODULE Call --------------------------------
(***************************************************************************)
(* One call, as the caller, the voice gateway and the browser live it:     *)
(* the gateway's Session (apps/gateway/src/session.ts) with its detector   *)
(* (vad.ts), its two sockets (apps/gateway/src/index.ts), and the          *)
(* browser's VoiceCall with its playback queue (apps/web/lib/call.ts).     *)
(*                                                                         *)
(* The worker and Temporal are what the gateway can see of them: a turn's  *)
(* frames arrive in the order they were sent, the outcome of its workflow  *)
(* arrives on a path of its own, and neither has to stop at once when the  *)
(* gateway asks.                                                           *)
(*                                                                         *)
(* A turn is its number in the call.                                       *)
(***************************************************************************)
EXTENDS Vad, Integers, Sequences, FiniteSets

CONSTANTS
  MaxTurns,    \* bound: turns of one call
  MaxChunks    \* bound: audio chunks the worker sends for one turn

ASSUME CallConstants ==
  /\ MaxTurns \in Nat \ {0}
  /\ MaxChunks \in Nat

VARIABLES
  call,       \* the caller's socket: opening, live, closing (the browser has closed
              \* it), dropped (the gateway has seen it close), closed (both have)
  vad,        \* the detector
  run,        \* history: [loud, quiet] frames in a row, up to the thresholds
  cur,        \* #turn, or NoTurn
  begun,      \* #turnIndex: turns begun
  turn,       \* [Turn -> what the session keeps of the turn]
  saga,       \* [Turn -> the turn's workflow and what became of its result]
  toWorker,   \* [Turn -> the last kind of frame sent down for it]
  fromWorker, \* frames on their way up the internal socket
  aired,      \* [Turn -> audio chunks sent on to the browser]
  down,       \* messages on their way to the browser
  playing,    \* the browser's scheduled audio, first to play first
  history,    \* #history: the turns whose exchange it holds
  events,     \* turn events emitted
  spoken      \* [Turn -> audio chunks the worker has sent for it]

sessionVars == <<cur, begun, turn, history>>
micVars     == <<vad, run>>
workerVars  == <<saga, fromWorker, spoken>>
browserVars == <<down, playing>>
vars == <<call, sessionVars, micVars, workerVars, browserVars, toWorker, aired, events>>

-----------------------------------------------------------------------------
NoTurn == 0
Turn   == 1..MaxTurns

\* A frame up belongs to a turn.  "final" stands for a partial too; the text of
\* the reply, which is only passed on, is left out.
Frame == [t : {"final", "tts_audio"}, turn : Turn]

\* A message down, of those that change what the browser plays.  (What it draws,
\* of its flow and of turn reports, is FlowPage's; captions change nothing.)
Message == [t : {"audio", "stop_audio"}, turn : Turn]

\* ActiveTurn: what the session keeps of a turn.
ActiveTurn == [closed : BOOLEAN, cancelled : BOOLEAN, heard : BOOLEAN]

TurnEvent == [turn : Turn, index : Int, ok : BOOLEAN]

FrameRank == [none |-> 0, audio |-> 1, audio_end |-> 2, cancel |-> 3]

TypeOK ==
  /\ call \in {"opening", "live", "closing", "dropped", "closed"}
  /\ vad \in VadState
  /\ run \in [loud : 0..SpeechFrames, quiet : 0..HangoverFrames]
  /\ cur \in Turn \cup {NoTurn}
  /\ begun \in {NoTurn} \cup Turn
  /\ turn \in [Turn -> ActiveTurn]
  /\ saga \in [Turn -> {"none", "running", "completed", "failed", "settled"}]
  /\ toWorker \in [Turn -> DOMAIN FrameRank]
  /\ fromWorker \in Seq(Frame)
  /\ aired \in [Turn -> Nat]
  /\ down \in Seq(Message)
  /\ playing \in Seq(Turn)
  /\ history \in Seq(Turn)
  /\ events \in Seq(TurnEvent)
  /\ spoken \in [Turn -> 0..MaxChunks]

\* The turn that #beginTurn makes.
NewTurn == [closed |-> FALSE, cancelled |-> FALSE, heard |-> FALSE]

Init ==
  /\ call = "opening"
  /\ vad = VadSilent
  /\ run = [loud |-> 0, quiet |-> 0]
  /\ cur = NoTurn
  /\ begun = 0
  /\ turn = [n \in Turn |-> NewTurn]
  /\ saga = [n \in Turn |-> "none"]
  /\ toWorker = [n \in Turn |-> "none"]
  /\ fromWorker = << >>
  /\ aired = [n \in Turn |-> 0]
  /\ down = << >>
  /\ playing = << >>
  /\ history = << >>
  /\ events = << >>
  /\ spoken = [n \in Turn |-> 0]

\* #send: nothing goes to a caller whose socket is not open, and a browser that
\* has closed its own no longer takes what arrives.
Sent(messages) == IF call \in {"opening", "live"} THEN down \o messages ELSE down
ToBrowser(t, n) == [t |-> t, turn |-> n]

-----------------------------------------------------------------------------
(* Control messages. *)

\* The browser's first message: audio counts from here.
Start ==
  /\ call = "opening"
  /\ call' = "live"
  /\ UNCHANGED <<sessionVars, micVars, workerVars, browserVars, toWorker, aired, events>>

-----------------------------------------------------------------------------
(* The caller's microphone. *)

Capped(k, cap) == IF k > cap THEN cap ELSE k
RunNext(loud) ==
  IF loud THEN [loud |-> Capped(run.loud + 1, SpeechFrames), quiet |-> 0]
          ELSE [loud |-> 0, quiet |-> Capped(run.quiet + 1, HangoverFrames)]

\* (mutant) the microphone of a turn is never noted as closed
ForwardsAlways(n) == n # NoTurn

\* A frame is forwarded while the turn's microphone is open.
Forwards(n) == n # NoTurn /\ ~turn[n].closed

\* Frames sent before the caller hung up may still arrive after it.
MicFrame(loud) ==
  /\ call \in {"live", "closing"}
  /\ vad' = VadNext(vad, loud)
  /\ run' = RunNext(loud)

\* A frame that neither starts nor ends an utterance.
Audio(loud) ==
  /\ MicFrame(loud)
  /\ VadEvent(vad, loud) = "none"
  /\ toWorker' = IF Forwards(cur) THEN [toWorker EXCEPT ![cur] = "audio"] ELSE toWorker
  /\ UNCHANGED <<call, sessionVars, workerVars, browserVars, aired, events>>

\* #bargeIn, where there is a turn to cut off: playback stops first, then the
\* hops are told, and the workflow's cancellation follows on a path of its own.
CutOff(n) == [turn EXCEPT ![n].cancelled = TRUE]

\* Speech begins: whatever turn is in flight is cut off, and a new one begins.
SpeechStart ==
  /\ MicFrame(TRUE)
  /\ VadEvent(vad, TRUE) = "speech-start"
  /\ begun < MaxTurns
  /\ begun' = begun + 1
  /\ cur' = begun + 1
  /\ turn' = [(IF cur = NoTurn THEN turn ELSE CutOff(cur)) EXCEPT ![begun + 1] = NewTurn]
  /\ saga' = [saga EXCEPT ![begun + 1] = "running"]
  /\ toWorker' = [n \in Turn |-> IF n = begun + 1 THEN "audio"
                                 ELSE IF n = cur THEN "cancel" ELSE toWorker[n]]
  /\ down' = IF cur = NoTurn THEN down ELSE Sent(<<ToBrowser("stop_audio", cur)>>)
  /\ UNCHANGED <<call, history, fromWorker, spoken, playing, aired, events>>

\* (mutant) micClosedAt is never set
LeaveMicOpen(n) == turn

\* The turn's audio is over.
CloseMic(n) == [turn EXCEPT ![n].closed = TRUE]

\* Speech ends: the last frame is forwarded, then the audio of the turn ends.
SpeechEnd ==
  /\ MicFrame(FALSE)
  /\ VadEvent(vad, FALSE) = "speech-end"
  /\ IF cur = NoTurn
       THEN UNCHANGED <<turn, toWorker>>
       ELSE /\ turn' = CloseMic(cur)
            /\ toWorker' = [toWorker EXCEPT ![cur] = "audio_end"]
  /\ UNCHANGED <<call, cur, begun, history, workerVars, browserVars, aired, events>>

\* The caller hangs up: playback stops; the gateway has yet to see the close.
HangUp ==
  /\ call = "live"
  /\ call' = "closing"
  /\ playing' = << >>
  /\ down' = << >>
  /\ UNCHANGED <<sessionVars, micVars, workerVars, toWorker, aired, events>>

\* The gateway's end of the socket closes: the turn in flight is cut off, and no
\* stop_audio can be sent.  A browser that has not hung up plays on.
Close ==
  /\ call \in {"opening", "live", "closing"}
  /\ call' = IF call = "closing" THEN "closed" ELSE "dropped"
  /\ cur' = NoTurn
  /\ IF cur = NoTurn
       THEN UNCHANGED <<turn, toWorker>>
       ELSE /\ turn' = CutOff(cur)
            /\ toWorker' = [toWorker EXCEPT ![cur] = "cancel"]
  /\ UNCHANGED <<begun, history, micVars, workerVars, browserVars, aired, events>>

\* The browser sees its own end close (onclose): it stops what it plays, and what
\* was still on its way is lost.
BrowserCloses ==
  /\ call = "dropped"
  /\ call' = "closed"
  /\ down' = << >>
  /\ playing' = << >>
  /\ UNCHANGED <<sessionVars, micVars, workerVars, toWorker, aired, events>>

-----------------------------------------------------------------------------
(* The worker, as the gateway sees it. *)

\* A hop sends a frame up.  An attempt that was cancelled, or given up on, goes
\* on sending until its own code stops it, whatever became of the workflow.
\* (bound: one text frame in transit, and none the session already has)
WorkerSends(n) ==
  /\ saga[n] # "none"
  /\ \/ /\ ~turn[n].heard
        /\ \A i \in 1..Len(fromWorker) : fromWorker[i] # [t |-> "final", turn |-> n]
        /\ fromWorker' = Append(fromWorker, [t |-> "final", turn |-> n])
        /\ UNCHANGED spoken
     \/ /\ spoken[n] < MaxChunks
        /\ spoken' = [spoken EXCEPT ![n] = @ + 1]
        /\ fromWorker' = Append(fromWorker, [t |-> "tts_audio", turn |-> n])
  /\ UNCHANGED <<call, sessionVars, micVars, saga, browserVars, toWorker, aired, events>>

\* The workflow closes, successfully or not.
SagaEnds(n) ==
  /\ saga[n] = "running"
  /\ \E outcome \in {"completed", "failed"} : saga' = [saga EXCEPT ![n] = outcome]
  /\ UNCHANGED <<call, sessionVars, micVars, fromWorker, spoken, browserVars, toWorker,
                 aired, events>>

-----------------------------------------------------------------------------
(* The session's ears to the worker and to Temporal. *)

\* (mutant) a frame is for this turn if any turn is in flight
HasTheFloorAnyone(n) == cur # NoTurn

\* onWorkerFrame's guard: a frame of any turn but the one in flight is dropped.
HasTheFloor(n) == cur = n

OnWorkerFrame ==
  /\ fromWorker # << >>
  /\ fromWorker' = Tail(fromWorker)
  /\ LET frame == Head(fromWorker)
         n     == frame.turn
     IN IF ~HasTheFloor(n)
          THEN UNCHANGED <<turn, aired, down>>
          ELSE \/ /\ frame.t = "final"
                  /\ turn' = [turn EXCEPT ![n].heard = TRUE]
                  /\ UNCHANGED <<aired, down>>
               \/ /\ frame.t = "tts_audio"
                  /\ aired' = [aired EXCEPT ![n] = @ + 1]
                  /\ down' = Sent(<<ToBrowser("audio", n)>>)
                  /\ UNCHANGED turn
  /\ UNCHANGED <<call, cur, begun, history, micVars, saga, spoken, playing,
                 toWorker, events>>

\* (mutant) the outcome of a turn that was cut off goes unreported
ReportsIfCurrent(n) == cur = n

\* #awaitTurn reports every turn, also one that was replaced meanwhile.
Reports(n) == TRUE

\* #awaitTurn: the outcome is reported, and the exchange remembered if it was
\* a success, whether or not the turn was cut off in between.
AwaitTurn(n) ==
  /\ saga[n] \in {"completed", "failed"}
  /\ saga' = [saga EXCEPT ![n] = "settled"]
  /\ history' = IF saga[n] = "completed" /\ turn[n].heard THEN Append(history, n) ELSE history
  /\ events' = IF Reports(n)
                 THEN Append(events, [turn |-> n, index |-> begun - 1,
                                      ok |-> saga[n] = "completed"])
                 ELSE events
  /\ cur' = IF cur = n THEN NoTurn ELSE cur
  /\ UNCHANGED <<call, begun, turn, micVars, fromWorker, spoken, browserVars,
                 toWorker, aired>>

-----------------------------------------------------------------------------
(* The browser. *)

\* #onMessage: audio is scheduled behind what is playing, and stop_audio silences
\* everything scheduled.
BrowserReceives ==
  /\ down # << >>
  /\ down' = Tail(down)
  /\ LET message == Head(down)
     IN \/ message.t = "audio" /\ playing' = Append(playing, message.turn)
        \/ message.t = "stop_audio" /\ playing' = << >>
  /\ UNCHANGED <<call, sessionVars, micVars, workerVars, toWorker, aired, events>>

\* A scheduled buffer has been played.
Played ==
  /\ playing # << >>
  /\ playing' = Tail(playing)
  /\ UNCHANGED <<call, sessionVars, micVars, workerVars, down, toWorker, aired, events>>

-----------------------------------------------------------------------------
Next ==
  \/ Start \/ (\E loud \in BOOLEAN : Audio(loud)) \/ SpeechStart \/ SpeechEnd \/ HangUp \/ Close
  \/ BrowserCloses
  \/ \E n \in Turn : WorkerSends(n) \/ SagaEnds(n) \/ AwaitTurn(n)
  \/ OnWorkerFrame \/ BrowserReceives \/ Played

Spec == Init /\ [][Next]_vars

\* The sockets deliver, and show their close to both ends; every workflow closes
\* (Turn: TurnEnds), and the gateway learns of it.  The caller owes nothing, and a
\* scheduled buffer may play for as long as it likes.
Fairness ==
  /\ WF_vars(OnWorkerFrame) /\ WF_vars(BrowserReceives) /\ WF_vars(BrowserCloses)
  /\ \A n \in Turn : WF_vars(SagaEnds(n)) /\ WF_vars(AwaitTurn(n))

FairSpec == Spec /\ Fairness

-----------------------------------------------------------------------------
(* Safety. *)

Silenced(n) ==
  /\ \A i \in 1..Len(playing) : playing[i] # n
  /\ \A i \in 1..Len(down) : down[i] # ToBrowser("audio", n)

StopOnItsWay(n) ==
  \E j \in 1..Len(down) :
    /\ down[j] = ToBrowser("stop_audio", n)
    /\ \A i \in j..Len(down) : down[i] # ToBrowser("audio", n)

\* A turn that is cut off has no speech left in the browser or on its way to it,
\* or a stop_audio follows the last of it: nothing the worker still sends gets
\* past the stop (onWorkerFrame's guard and the order of #bargeIn).  When the
\* connection was lost no stop_audio can follow, and the browser plays on until it
\* sees its own socket close.
CutOffTurnIsSilent ==
  \A n \in Turn :
    turn[n].cancelled => Silenced(n) \/ StopOnItsWay(n) \/ call = "dropped"

\* The microphone of the turn in flight is open only while the caller is
\* speaking, so that its audio_end is still to come: without one the turn hangs
\* on its timeout (onAudio).
OpenMicIsSpeaking == cur # NoTurn /\ ~turn[cur].closed => vad.speaking

\* What goes down the internal socket for one turn is audio, then audio_end, then
\* cancel, never back: the worker drops a turn's queue at audio_end and at
\* cancel, and later audio would make it a new one (gateway-channel.ts).
WorkerFramesInOrder ==
  [][\A n \in Turn :
       FrameRank[toWorker[n]] <= FrameRank[toWorker'[n]]]_vars

\* A turn begins only on SpeechFrames loud frames in a row, and its audio ends
\* only after HangoverFrames quiet ones: no door slam, no clipped pause (vad.ts).
UtterancesAreHeardOut ==
  [][/\ begun' # begun => run'.loud = SpeechFrames
     /\ \A n \in Turn : toWorker'[n] = "audio_end" /\ toWorker[n] # "audio_end"
                          => run'.quiet = HangoverFrames]_vars

\* The gateway keeps the promise of Floor, whatever the worker still sends.
TheFloor == INSTANCE Floor WITH floor <- cur
KeepsTheFloor == TheFloor!Spec

-----------------------------------------------------------------------------
(* Liveness. *)

\* Every turn begun is reported, once and for all, when its workflow has closed:
\* also one cut off, and also after the caller has gone (#awaitTurn).
EveryTurnReported ==
  \A n \in Turn :
    begun >= n ~> [](Cardinality({i \in 1..Len(events) : events[i].turn = n}) = 1)

\* Talking over a turn in flight empties the browser of its speech for good.
BargeInSilences ==
  \A n \in Turn : turn[n].cancelled ~> [](\A i \in 1..Len(playing) : playing[i] # n)

-----------------------------------------------------------------------------
(* A statement of the repository that the code does not keep. *)

\* session.ts: "The caller talking over the agent *is* barge-in."  While the
\* caller speaks the utterance that began the latest turn, and the gateway has
\* nothing left to tell the browser, the browser plays nothing of an earlier one.
TalkingOverStopsTheReply ==
  vad.speaking /\ down = << >> => \A i \in 1..Len(playing) : playing[i] = begun
=============================================================================
