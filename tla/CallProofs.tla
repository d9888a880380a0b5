----------------------------- MODULE CallProofs -----------------------------
(***************************************************************************)
(* Proofs about one call, for every number of turns and chunks and         *)
(* every setting of the detector: type correctness, that the microphone of *)
(* a turn is open only while the caller speaks, that a turn cut off is     *)
(* silent, that the gateway implements Floor, that what goes down to the   *)
(* worker is in order, and that an utterance is heard out.                 *)
(***************************************************************************)
EXTENDS Call, TLAPS

-----------------------------------------------------------------------------
(* The detector. *)

\* What a frame does to the detector, by the event it causes.
LEMMA VadSteps ==
  ASSUME NEW v \in VadState, NEW loud \in BOOLEAN
  PROVE  /\ VadNext(v, loud) \in VadState
         /\ VadEvent(v, loud) = "none" => VadNext(v, loud).speaking = v.speaking
         /\ VadEvent(v, loud) = "speech-start" => VadNext(v, loud).speaking
         /\ VadEvent(v, loud) \in {"none", "speech-start", "speech-end"}
  <1>1. VadEvent(v, loud) \in {"none", "speech-start", "speech-end"}
    BY DEF VadEvent
  <1>2. CASE VadEvent(v, loud) = "speech-end"
    BY <1>2, VadConstants DEF VadState, VadNext, VadReset, VadSilent
  <1>3. CASE VadEvent(v, loud) = "speech-start"
    <2>1. ~v.speaking /\ v.loud + 1 <= SpeechFrames
      BY <1>3, VadConstants DEF VadEvent, VadState
    <2>2. VadNext(v, loud) = [speaking |-> TRUE, loud |-> v.loud + 1, quiet |-> 0]
      BY <1>3 DEF VadNext, VadState
    <2> QED BY <1>3, <2>1, <2>2, VadConstants DEF VadState
  <1>4. CASE VadEvent(v, loud) = "none"
    <2>1. CASE v.speaking
      <3>1. VadNext(v, loud) = [speaking |-> TRUE, loud |-> v.loud,
                                quiet |-> IF loud THEN 0 ELSE v.quiet + 1]
        BY <1>4, <2>1 DEF VadNext, VadState
      <3>2. loud \/ v.quiet + 1 < HangoverFrames
        BY <1>4, <2>1, VadConstants DEF VadEvent, VadState
      <3> QED BY <1>4, <2>1, <3>1, <3>2, VadConstants DEF VadState
    <2>2. CASE ~v.speaking
      <3>1. VadNext(v, loud) = [speaking |-> FALSE, loud |-> IF loud THEN v.loud + 1 ELSE 0,
                                quiet |-> v.quiet]
        BY <1>4, <2>2 DEF VadNext, VadState
      <3>2. ~loud \/ v.loud + 1 < SpeechFrames
        BY <1>4, <2>2, VadConstants DEF VadEvent, VadState
      <3>3. v.speaking = FALSE /\ v.loud \in Nat /\ v.quiet \in 0..HangoverFrames - 1
        BY <2>2, VadConstants DEF VadState
      <3>4. (IF loud THEN v.loud + 1 ELSE 0) \in 0..SpeechFrames - 1
        BY <3>2, <3>3, VadConstants
      <3>5. VadNext(v, loud) \in VadState
        BY <3>1, <3>3, <3>4, VadConstants DEF VadState
      <3>6. VadNext(v, loud).speaking = FALSE
        BY <3>1
      <3> QED BY <1>4, <3>3, <3>5, <3>6
    <2> QED BY <2>1, <2>2
  <1> QED BY <1>1, <1>2, <1>3, <1>4

-----------------------------------------------------------------------------
(* The inductive invariant.  CutOffTurnIsSilent needs that a turn cut off    *)
(* never has the floor again, so that none of its frames is let through, and *)
(* that a browser which has hung up has nothing left on its way, because     *)
(* #send then adds no stop_audio to it.                                      *)

CutOffHasNoFloor == \A n \in Turn : turn[n].cancelled => cur # n

GoneIsQuiet == call \in {"closing", "closed"} => down = << >> /\ playing = << >>

CallInv ==
  /\ TypeOK
  /\ GoneIsQuiet
  /\ CutOffHasNoFloor
  /\ OpenMicIsSpeaking
  /\ CutOffTurnIsSilent

LEMMA InitCallInv == Init => CallInv
  <1> SUFFICES ASSUME Init PROVE CallInv
    OBVIOUS
  <1>1. TypeOK
    BY CallConstants, VadConstants
    DEF Init, TypeOK, VadState, VadSilent, NewTurn, ActiveTurn, NoTurn, Turn, FrameRank, Message, Frame
  <1>2. GoneIsQuiet /\ CutOffHasNoFloor /\ OpenMicIsSpeaking /\ CutOffTurnIsSilent
    BY DEF Init, GoneIsQuiet, CutOffHasNoFloor, OpenMicIsSpeaking, CutOffTurnIsSilent,
       NewTurn, NoTurn
  <1> QED BY <1>1, <1>2 DEF CallInv

-----------------------------------------------------------------------------
(* What the pieces of a step keep. *)

\* A message joins the others, if the browser still takes any.
LEMMA SentType ==
  ASSUME TypeOK, NEW m \in Message
  PROVE  Sent(<<m>>) \in Seq(Message)
  BY DEF TypeOK, Sent

LEMMA AudioMessage ==
  ASSUME NEW n \in Turn
  PROVE  ToBrowser("audio", n) \in Message /\ ToBrowser("stop_audio", n) \in Message
  BY DEF Message, ToBrowser

\* A silent turn, or one whose stop is on its way, stays so when a message that
\* is not its speech is queued behind.
LEMMA SilentAppend ==
  ASSUME TypeOK, NEW n \in Turn, NEW m, m # ToBrowser("audio", n),
         Silenced(n) \/ StopOnItsWay(n),
         down' = Sent(<<m>>), UNCHANGED playing
  PROVE  (Silenced(n) \/ StopOnItsWay(n))'
  <1>1. CASE call \notin {"opening", "live"}
    BY <1>1 DEF Sent, Silenced, StopOnItsWay, ToBrowser
  <1>2. CASE call \in {"opening", "live"}
    <2>1. /\ Len(down') = Len(down) + 1 /\ Len(down) \in Nat
          /\ \A i \in 1..Len(down) : down'[i] = down[i]
          /\ down'[Len(down) + 1] = m
      BY <1>2 DEF Sent, TypeOK
    <2> DEFINE speech == ToBrowser("audio", n)
               stop == ToBrowser("stop_audio", n)
    <2>2. CASE Silenced(n)
      <3>1. \A i \in 1..Len(down) : down[i] # speech
        BY <2>2 DEF Silenced
      <3>2. m # speech
        OBVIOUS
      <3> HIDE DEF speech
      <3>3. \A i \in 1..Len(down') : down'[i] # speech
        BY <2>1, <3>1, <3>2
      <3> QED BY <2>2, <3>3 DEF Silenced, speech, ToBrowser
    <2>3. CASE StopOnItsWay(n)
      <3>1. PICK j \in 1..Len(down) :
              down[j] = stop /\ \A i \in j..Len(down) : down[i] # speech
        BY <2>3 DEF StopOnItsWay
      <3>2. m # speech
        OBVIOUS
      <3> HIDE DEF speech, stop
      <3>3. /\ j \in 1..Len(down') /\ down'[j] = stop
            /\ \A i \in j..Len(down') : down'[i] # speech
        BY <2>1, <3>1, <3>2
      <3> QED BY <3>3 DEF StopOnItsWay, speech, stop, ToBrowser
    <2> QED BY <2>2, <2>3
  <1> QED BY <1>1, <1>2

\* The stop that #bargeIn queues is behind all the speech of the turn.
LEMMA StopAppended ==
  ASSUME TypeOK, GoneIsQuiet, NEW n \in Turn, call \in {"opening", "live", "closing"},
         down' = Sent(<<ToBrowser("stop_audio", n)>>), UNCHANGED playing
  PROVE  (Silenced(n) \/ StopOnItsWay(n))'
  <1>1. CASE call = "closing"
    BY <1>1 DEF GoneIsQuiet, Sent, Silenced
  <1>2. CASE call \in {"opening", "live"}
    <2>1. /\ Len(down') = Len(down) + 1 /\ Len(down) \in Nat
          /\ down'[Len(down) + 1] = ToBrowser("stop_audio", n)
      BY <1>2 DEF Sent, TypeOK
    <2> QED BY <2>1 DEF StopOnItsWay, ToBrowser
  <1> QED BY <1>1, <1>2 DEF TypeOK

\* Playback only shrinks.
LEMMA SilentPlayed ==
  ASSUME TypeOK, NEW n \in Turn, Silenced(n) \/ StopOnItsWay(n),
         playing # << >>, playing' = Tail(playing), UNCHANGED down
  PROVE  (Silenced(n) \/ StopOnItsWay(n))'
  <1>1. /\ Len(playing') = Len(playing) - 1 /\ Len(playing) \in Nat
        /\ \A i \in 1..Len(playing') : playing'[i] = playing[i + 1]
    BY DEF TypeOK
  <1> QED BY <1>1 DEF Silenced, StopOnItsWay, ToBrowser

\* The browser takes its next message.
LEMMA SilentReceived ==
  ASSUME TypeOK, NEW n \in Turn, Silenced(n) \/ StopOnItsWay(n), BrowserReceives
  PROVE  (Silenced(n) \/ StopOnItsWay(n))'
  <1>1. /\ down # << >> /\ Len(down) \in Nat /\ Len(down) >= 1
        /\ Len(down') = Len(down) - 1
        /\ \A i \in 1..Len(down') : down'[i] = down[i + 1]
        /\ Head(down) = down[1] /\ Head(down) \in Message
    BY DEF TypeOK, BrowserReceives
  <1>2. \/ /\ Head(down).t = "audio"
           /\ playing' = Append(playing, Head(down).turn)
        \/ /\ Head(down).t = "stop_audio"
           /\ playing' = << >>
    BY DEF BrowserReceives
  <1>3. CASE Silenced(n)
    <2>1. \A i \in 1..Len(down') : down'[i] # ToBrowser("audio", n)
      BY <1>1, <1>3 DEF Silenced, ToBrowser
    <2>2. CASE Head(down).t = "audio"
      <3>1. Head(down) = ToBrowser("audio", Head(down).turn) /\ Head(down).turn \in Turn
        BY <1>1, <2>2 DEF Message, ToBrowser
      <3>2. Head(down).turn # n
        BY <1>1, <1>3, <3>1 DEF Silenced
      <3>3. /\ Len(playing') = Len(playing) + 1 /\ Len(playing) \in Nat
            /\ \A i \in 1..Len(playing) : playing'[i] = playing[i]
            /\ playing'[Len(playing) + 1] = Head(down).turn
        <4> DEFINE k == Head(down).turn
        <4>1. playing' = Append(playing, k) /\ k \in Turn /\ playing \in Seq(Turn)
          BY <1>2, <2>2, <3>1 DEF TypeOK
        <4> HIDE DEF k
        <4>2. /\ Len(playing') = Len(playing) + 1 /\ Len(playing) \in Nat
              /\ \A i \in 1..Len(playing) : playing'[i] = playing[i]
              /\ playing'[Len(playing) + 1] = k
          BY <4>1
        <4> QED BY <4>2 DEF k
      <3> QED BY <1>3, <2>1, <3>2, <3>3 DEF Silenced, ToBrowser
    <2>3. CASE Head(down).t # "audio"
      BY <1>2, <1>3, <2>1, <2>3 DEF Silenced, ToBrowser
    <2> QED BY <2>2, <2>3
  <1>4. CASE StopOnItsWay(n)
    <2>1. PICK j \in 1..Len(down) :
            /\ down[j] = ToBrowser("stop_audio", n)
            /\ \A i \in j..Len(down) : down[i] # ToBrowser("audio", n)
      BY <1>4 DEF StopOnItsWay
    <2>2. CASE j = 1
      <3>1. playing' = << >>
        BY <1>1, <1>2, <2>1, <2>2 DEF ToBrowser
      <3>2. \A i \in 1..Len(down') : down'[i] # ToBrowser("audio", n)
        BY <1>1, <2>1, <2>2 DEF ToBrowser
      <3> QED BY <3>1, <3>2 DEF Silenced, ToBrowser
    <2>3. CASE j > 1
      <3>1. /\ j - 1 \in 1..Len(down')
            /\ down'[j - 1] = ToBrowser("stop_audio", n)
            /\ \A i \in (j - 1)..Len(down') : down'[i] # ToBrowser("audio", n)
        BY <1>1, <2>1, <2>3 DEF ToBrowser
      <3> QED BY <3>1 DEF StopOnItsWay, ToBrowser
    <2> QED BY <2>2, <2>3
  <1> QED BY <1>3, <1>4

-----------------------------------------------------------------------------
(* Type correctness, step by step. *)

LEMMA TurnMarked ==
  ASSUME TypeOK, NEW n \in Turn
  PROVE  /\ CloseMic(n) \in [Turn -> ActiveTurn]
         /\ CutOff(n) \in [Turn -> ActiveTurn]
         /\ [turn EXCEPT ![n].heard = TRUE] \in [Turn -> ActiveTurn]
  <1>1. turn \in [Turn -> ActiveTurn]
    BY DEF TypeOK
  <1>2. CloseMic(n) \in [Turn -> ActiveTurn]
    BY <1>1 DEF CloseMic, ActiveTurn
  <1>3. CutOff(n) \in [Turn -> ActiveTurn]
    BY <1>1 DEF CutOff, ActiveTurn
  <1>4. [turn EXCEPT ![n].heard = TRUE] \in [Turn -> ActiveTurn]
    BY <1>1 DEF ActiveTurn
  <1> QED BY <1>2, <1>3, <1>4

LEMMA MicType ==
  ASSUME TypeOK, NEW loud \in BOOLEAN, MicFrame(loud)
  PROVE  /\ call' = call => call' \in {"opening", "live", "closing", "dropped", "closed"}
         /\ vad' \in VadState
         /\ run' \in [loud : 0..SpeechFrames, quiet : 0..HangoverFrames]
  <1>1. vad' \in VadState
    BY VadSteps DEF TypeOK, MicFrame
  <1>2. run' \in [loud : 0..SpeechFrames, quiet : 0..HangoverFrames]
    <2>1. run.loud \in 0..SpeechFrames /\ run.quiet \in 0..HangoverFrames
      BY DEF TypeOK
    <2>2. Capped(run.loud + 1, SpeechFrames) \in 0..SpeechFrames
      BY <2>1, VadConstants DEF Capped
    <2>3. Capped(run.quiet + 1, HangoverFrames) \in 0..HangoverFrames
      BY <2>1, VadConstants DEF Capped
    <2> HIDE DEF Capped
    <2> QED BY <2>2, <2>3, VadConstants DEF MicFrame, RunNext
  <1> QED BY <1>1, <1>2 DEF TypeOK

LEMMA StartType ==
  ASSUME TypeOK, Start
  PROVE  TypeOK'
  BY DEF Start, TypeOK, sessionVars, micVars, workerVars, browserVars

LEMMA AudioType ==
  ASSUME TypeOK, NEW loud \in BOOLEAN, Audio(loud)
  PROVE  TypeOK'
  <1>1. toWorker' \in [Turn -> DOMAIN FrameRank]
    BY DEF Audio, TypeOK, FrameRank, Forwards
  <1> QED BY <1>1, MicType DEF Audio, TypeOK, sessionVars, workerVars, browserVars

LEMMA SpeechStartType ==
  ASSUME TypeOK, SpeechStart
  PROVE  TypeOK'
  <1>1. begun + 1 \in Turn
    BY CallConstants DEF SpeechStart, TypeOK, Turn, NoTurn
  <1>2. turn' \in [Turn -> ActiveTurn]
    <2>1. NewTurn \in ActiveTurn
      BY DEF NewTurn, TypeOK, ActiveTurn
    <2>2. (IF cur = NoTurn THEN turn ELSE CutOff(cur))
            \in [Turn -> ActiveTurn]
      BY TurnMarked DEF CutOff, TypeOK
    <2> QED BY <1>1, <2>1, <2>2 DEF SpeechStart
  <1>3. saga' \in [Turn -> {"none", "running", "completed", "failed", "settled"}]
    BY <1>1 DEF SpeechStart, TypeOK
  <1>4. toWorker' \in [Turn -> DOMAIN FrameRank]
    BY DEF SpeechStart, TypeOK, FrameRank
  <1>5. down' \in Seq(Message)
    <2>1. cur # NoTurn => ToBrowser("stop_audio", cur) \in Message
      BY AudioMessage DEF TypeOK
    <2> QED BY <2>1, SentType DEF SpeechStart, TypeOK
  <1>6. begun' \in {NoTurn} \cup Turn /\ cur' \in Turn \cup {NoTurn}
    BY <1>1 DEF SpeechStart
  <1>7. MicFrame(TRUE) /\ UNCHANGED <<call, history, fromWorker, spoken, playing, aired, events>>
    BY DEF SpeechStart
  <1> QED BY <1>2, <1>3, <1>4, <1>5, <1>6, <1>7, MicType DEF TypeOK

LEMMA SpeechEndType ==
  ASSUME TypeOK, SpeechEnd
  PROVE  TypeOK'
  <1>1. turn' \in [Turn -> ActiveTurn]
    <2>1. cur \in Turn \cup {NoTurn} /\ turn \in [Turn -> ActiveTurn]
      BY DEF TypeOK
    <2>2. cur \in Turn => CloseMic(cur) \in [Turn -> ActiveTurn]
      BY TurnMarked
    <2>3. cur # NoTurn => turn' = CloseMic(cur)
      BY DEF SpeechEnd
    <2>4. cur = NoTurn => turn' = turn
      BY DEF SpeechEnd
    <2> QED BY <2>1, <2>2, <2>3, <2>4
  <1>2. toWorker' \in [Turn -> DOMAIN FrameRank]
    BY DEF SpeechEnd, TypeOK, FrameRank
  <1> QED BY <1>1, <1>2, MicType DEF SpeechEnd, TypeOK, workerVars, browserVars

LEMMA CloseType ==
  ASSUME TypeOK, HangUp \/ Close \/ BrowserCloses
  PROVE  TypeOK'
  <1>1. turn' \in [Turn -> ActiveTurn]
    <2>1. cur \in Turn \cup {NoTurn} /\ turn \in [Turn -> ActiveTurn]
      BY DEF TypeOK
    <2>2. cur \in Turn => CutOff(cur) \in [Turn -> ActiveTurn]
      BY TurnMarked
    <2>3. turn' = turn \/ (cur # NoTurn /\ turn' = CutOff(cur))
      BY DEF HangUp, Close, BrowserCloses, sessionVars
    <2> QED BY <2>1, <2>2, <2>3
  <1>2. toWorker' \in [Turn -> DOMAIN FrameRank]
    BY DEF HangUp, Close, BrowserCloses, TypeOK, FrameRank
  <1>3. /\ call' \in {"opening", "live", "closing", "dropped", "closed"}
        /\ cur' \in Turn \cup {NoTurn}
    BY DEF HangUp, Close, BrowserCloses, TypeOK, sessionVars
  <1>4. down' \in Seq(Message) /\ playing' \in Seq(Turn)
    <2>1. (down' = << >> /\ playing' = << >>) \/ UNCHANGED browserVars
      BY DEF HangUp, Close, BrowserCloses
    <2>2. CASE down' = << >> /\ playing' = << >>
      BY <2>2
    <2>3. CASE UNCHANGED browserVars
      BY <2>3 DEF TypeOK, browserVars
    <2> QED BY <2>1, <2>2, <2>3
  <1> QED BY <1>1, <1>2, <1>3, <1>4 DEF HangUp, Close, BrowserCloses, TypeOK, sessionVars, micVars, workerVars

LEMMA WorkerType ==
  ASSUME TypeOK, NEW n \in Turn, WorkerSends(n) \/ SagaEnds(n) \/ AwaitTurn(n)
  PROVE  TypeOK'
  <1>1. CASE WorkerSends(n)
    <2>1. [t |-> "final", turn |-> n] \in Frame /\ [t |-> "tts_audio", turn |-> n] \in Frame
      BY DEF Frame
    <2>2. fromWorker' \in Seq(Frame)
      <3>1. PICK frame \in Frame : fromWorker' = Append(fromWorker, frame)
        BY <1>1, <2>1 DEF WorkerSends
      <3>2. fromWorker \in Seq(Frame)
        BY DEF TypeOK
      <3> QED BY <3>1, <3>2
    <2>3. spoken' \in [Turn -> 0..MaxChunks]
      <3>1. spoken \in [Turn -> 0..MaxChunks]
        BY DEF TypeOK
      <3>2. spoken[n] < MaxChunks => spoken[n] + 1 \in 0..MaxChunks
        BY <3>1, CallConstants
      <3>3. \/ UNCHANGED spoken
            \/ spoken[n] < MaxChunks /\ spoken' = [spoken EXCEPT ![n] = spoken[n] + 1]
        BY <1>1 DEF WorkerSends
      <3> QED BY <3>1, <3>2, <3>3
    <2> QED BY <1>1, <2>2, <2>3
        DEF WorkerSends, TypeOK, sessionVars, micVars, browserVars
  <1>2. CASE SagaEnds(n)
    BY <1>2 DEF SagaEnds, TypeOK, sessionVars, micVars, browserVars
  <1>3. CASE AwaitTurn(n)
    <2>1. [turn |-> n, index |-> begun - 1, ok |-> saga[n] = "completed"]
            \in TurnEvent
      BY CallConstants DEF TypeOK, Turn, NoTurn, TurnEvent
    <2>2. events' \in Seq(TurnEvent)
      <3>1. events \in Seq(TurnEvent)
        BY DEF TypeOK
      <3> DEFINE e == [turn |-> n, index |-> begun - 1, ok |-> saga[n] = "completed"]
      <3>2. e \in TurnEvent /\ (events' = events \/ events' = Append(events, e))
        BY <1>3, <2>1 DEF AwaitTurn
      <3> HIDE DEF e
      <3> QED BY <3>1, <3>2
    <2>3. history' \in Seq(Turn)
      BY <1>3 DEF AwaitTurn, TypeOK
    <2>4. /\ saga' \in [Turn -> {"none", "running", "completed", "failed", "settled"}]
          /\ cur' \in Turn \cup {NoTurn}
      BY <1>3 DEF AwaitTurn, TypeOK
    <2> QED BY <1>3, <2>2, <2>3, <2>4 DEF AwaitTurn, TypeOK, micVars, browserVars
  <1> QED BY <1>1, <1>2, <1>3

LEMMA FrameType ==
  ASSUME TypeOK, OnWorkerFrame
  PROVE  /\ Head(fromWorker) \in Frame
         /\ TypeOK'
  <1>1. Head(fromWorker) \in Frame /\ fromWorker' \in Seq(Frame)
    BY DEF TypeOK, OnWorkerFrame
  <1> DEFINE n == Head(fromWorker).turn
  <1>2. n \in Turn
    BY <1>1 DEF Frame
  <1> HIDE DEF n
  <1>3. \/ UNCHANGED <<turn, aired, down>>
        \/ turn' = [turn EXCEPT ![n].heard = TRUE] /\ UNCHANGED <<aired, down>>
        \/ /\ aired' = [aired EXCEPT ![n] = @ + 1]
           /\ down' = Sent(<<ToBrowser("audio", n)>>)
           /\ UNCHANGED turn
    BY DEF OnWorkerFrame, n
  <1>4. turn' \in [Turn -> ActiveTurn]
    <2>1. turn \in [Turn -> ActiveTurn] /\ [turn EXCEPT ![n].heard = TRUE] \in [Turn -> ActiveTurn]
      BY <1>2, TurnMarked DEF TypeOK
    <2> QED BY <1>3, <2>1
  <1>5. aired' \in [Turn -> Nat]
    <2>1. aired[n] + 1 \in Nat
      BY <1>2 DEF TypeOK
    <2> QED BY <1>2, <1>3, <2>1 DEF TypeOK
  <1>6. down' \in Seq(Message)
    BY <1>2, <1>3, AudioMessage, SentType DEF TypeOK
  <1>7. UNCHANGED <<call, cur, begun, history, vad, run, saga, spoken, playing,
                    toWorker, events>>
    BY DEF OnWorkerFrame, micVars
  <1>8. TypeOK'
    BY <1>1, <1>4, <1>5, <1>6, <1>7 DEF TypeOK
  <1> QED BY <1>1, <1>8

LEMMA BrowserType ==
  ASSUME TypeOK, BrowserReceives \/ Played
  PROVE  TypeOK'
  <1>1. CASE BrowserReceives
    <2>1. Head(down) \in Message /\ down' \in Seq(Message)
      BY <1>1 DEF BrowserReceives, TypeOK
    <2>2. Head(down).turn \in Turn /\ playing \in Seq(Turn)
      BY <2>1 DEF Message, TypeOK
    <2>3. playing' \in Seq(Turn)
      <3> DEFINE k == Head(down).turn
      <3>1. k \in Turn /\ (playing' = Append(playing, k) \/ playing' = << >>)
        BY <1>1, <2>2 DEF BrowserReceives
      <3> HIDE DEF k
      <3>2. << >> \in Seq(Turn) /\ Append(playing, k) \in Seq(Turn)
        BY <2>2, <3>1
      <3> QED BY <3>1, <3>2
    <2>4. down' \in Seq(Message)
      BY <1>1, <2>1 DEF BrowserReceives, TypeOK
    <2>5. UNCHANGED <<call, sessionVars, micVars, workerVars, toWorker, aired, events>>
      BY <1>1 DEF BrowserReceives
    <2> QED BY <2>3, <2>4, <2>5 DEF TypeOK, sessionVars, micVars, workerVars
  <1>2. CASE Played
    <2>1. playing # << >> /\ playing' = Tail(playing) /\ playing \in Seq(Turn)
      BY <1>2 DEF Played, TypeOK
    <2>2. playing' \in Seq(Turn)
      BY <2>1
    <2>3. UNCHANGED <<call, sessionVars, micVars, workerVars, down, toWorker, aired, events>>
      BY <1>2 DEF Played
    <2> QED BY <2>2, <2>3 DEF TypeOK, sessionVars, micVars, workerVars
  <1> QED BY <1>1, <1>2

LEMMA TypeStep == TypeOK /\ [Next]_vars => TypeOK'
  <1>1. ASSUME TypeOK, Next PROVE TypeOK'
    BY <1>1, StartType, AudioType, SpeechStartType, SpeechEndType, CloseType, WorkerType,
       FrameType, BrowserType DEF Next
  <1>2. ASSUME TypeOK, UNCHANGED vars PROVE TypeOK'
    BY <1>2 DEF TypeOK, vars, sessionVars, micVars, workerVars, browserVars
  <1> QED BY <1>1, <1>2

-----------------------------------------------------------------------------
(* The invariant, conjunct by conjunct. *)

\* Only hanging up and seeing the socket close make a browser gone, and both empty it.
LEMMA GoneStep ==
  ASSUME CallInv, Next
  PROVE  GoneIsQuiet'
  <1> USE DEF CallInv, GoneIsQuiet
  <1>2. CASE Start
    BY <1>2 DEF Start, browserVars
  <1>3. ASSUME NEW loud \in BOOLEAN, Audio(loud) PROVE GoneIsQuiet'
    BY <1>3 DEF Audio, browserVars
  <1>4. CASE SpeechStart
    BY <1>4 DEF SpeechStart, Sent
  <1>5. CASE SpeechEnd
    BY <1>5 DEF SpeechEnd, browserVars
  <1>6. CASE HangUp \/ Close \/ BrowserCloses
    BY <1>6 DEF HangUp, Close, BrowserCloses, browserVars
  <1>7. ASSUME NEW n \in Turn, WorkerSends(n) \/ SagaEnds(n) \/ AwaitTurn(n)
        PROVE  GoneIsQuiet'
    BY <1>7 DEF WorkerSends, SagaEnds, AwaitTurn, browserVars
  <1>8. CASE OnWorkerFrame
    BY <1>8 DEF OnWorkerFrame, Sent
  <1>9. CASE BrowserReceives \/ Played
    BY <1>9 DEF BrowserReceives, Played
  <1> QED BY <1>2, <1>3, <1>4, <1>5, <1>6, <1>7, <1>8, <1>9 DEF Next

\* How a step changes the turn in flight and the marks on turns.
TurnStep ==
  \/ cur' = cur /\ turn' = turn
  \/ cur' = NoTurn /\ turn' = turn
  \/ cur' = NoTurn /\ cur # NoTurn /\ turn' = CutOff(cur)
  \/ cur' = cur /\ cur # NoTurn /\ turn' = CloseMic(cur)
  \/ cur' = cur /\ \E n \in Turn : turn' = [turn EXCEPT ![n].heard = TRUE]
  \/ SpeechStart

LEMMA TurnSteps ==
  ASSUME TypeOK, Next
  PROVE  TurnStep
  <1>1. CASE Start
    BY <1>1 DEF Start, sessionVars, TurnStep
  <1>2. ASSUME NEW loud \in BOOLEAN, Audio(loud) PROVE TurnStep
    BY <1>2 DEF Audio, sessionVars, TurnStep
  <1>3. CASE SpeechEnd
    BY <1>3 DEF SpeechEnd, TurnStep
  <1>4. CASE HangUp \/ Close \/ BrowserCloses
    BY <1>4 DEF HangUp, Close, BrowserCloses, sessionVars, TurnStep
  <1>5. ASSUME NEW n \in Turn, WorkerSends(n) \/ SagaEnds(n) \/ AwaitTurn(n)
        PROVE  TurnStep
    BY <1>5 DEF WorkerSends, SagaEnds, AwaitTurn, sessionVars, TurnStep
  <1>6. CASE OnWorkerFrame
    <2>1. Head(fromWorker).turn \in Turn
      BY <1>6, FrameType DEF Frame
    <2>2. cur' = cur /\ (turn' = turn \/ turn' = [turn EXCEPT ![Head(fromWorker).turn].heard = TRUE])
      BY <1>6 DEF OnWorkerFrame
    <2> QED BY <2>1, <2>2 DEF TurnStep
  <1>7. CASE BrowserReceives \/ Played
    BY <1>7 DEF BrowserReceives, Played, sessionVars, TurnStep
  <1>8. SpeechStart => TurnStep
    BY DEF TurnStep
  <1> QED BY <1>1, <1>2, <1>3, <1>4, <1>5, <1>6, <1>7, <1>8 DEF Next

\* The marks of a turn after the pieces of a step.
LEMMA TurnMarks ==
  ASSUME TypeOK, NEW n \in Turn, NEW m \in Turn
  PROVE  /\ CutOff(n)[m].cancelled = IF m = n THEN TRUE ELSE turn[m].cancelled
         /\ CutOff(n)[m].closed = turn[m].closed
         /\ CloseMic(n)[m].cancelled = turn[m].cancelled
         /\ CloseMic(n)[m].closed = IF m = n THEN TRUE ELSE turn[m].closed
         /\ [turn EXCEPT ![n].heard = TRUE][m].cancelled = turn[m].cancelled
         /\ [turn EXCEPT ![n].heard = TRUE][m].closed = turn[m].closed
  <1>1. turn \in [Turn -> ActiveTurn]
    BY DEF TypeOK
  <1>2. turn[m] \in ActiveTurn /\ turn[n] \in ActiveTurn
    BY <1>1
  <1>3. /\ CutOff(n)[m].cancelled = IF m = n THEN TRUE ELSE turn[m].cancelled
        /\ CutOff(n)[m].closed = turn[m].closed
    BY <1>1, <1>2 DEF CutOff, ActiveTurn
  <1>4. /\ CloseMic(n)[m].cancelled = turn[m].cancelled
        /\ CloseMic(n)[m].closed = IF m = n THEN TRUE ELSE turn[m].closed
    BY <1>1, <1>2 DEF CloseMic, ActiveTurn
  <1>5. /\ [turn EXCEPT ![n].heard = TRUE][m].cancelled = turn[m].cancelled
        /\ [turn EXCEPT ![n].heard = TRUE][m].closed = turn[m].closed
    BY <1>1, <1>2 DEF ActiveTurn
  <1> QED BY <1>3, <1>4, <1>5

LEMMA StartMarks ==
  ASSUME TypeOK, SpeechStart, NEW m \in Turn
  PROVE  /\ begun + 1 \in Turn /\ cur' = begun + 1
         /\ turn'[m].cancelled => m # begun + 1 /\ (m = cur \/ turn[m].cancelled)
  <1>1. begun + 1 \in Turn /\ cur' = begun + 1
    BY CallConstants DEF SpeechStart, TypeOK, Turn, NoTurn
  <1> DEFINE before == IF cur = NoTurn THEN turn ELSE CutOff(cur)
  <1>2. before \in [Turn -> ActiveTurn]
    BY TurnMarked DEF TypeOK
  <1>3. before[m].cancelled => m = cur \/ turn[m].cancelled
    <2>1. cur # NoTurn => cur \in Turn
      BY DEF TypeOK
    <2>2. cur \in Turn => (CutOff(cur)[m].cancelled => m = cur \/ turn[m].cancelled)
      <3>1. ASSUME cur \in Turn
            PROVE  CutOff(cur)[m].cancelled = IF m = cur THEN TRUE ELSE turn[m].cancelled
        BY <3>1, TurnMarks
      <3> QED BY <3>1
    <2> QED BY <2>1, <2>2
  <1>4. turn' = [before EXCEPT ![begun + 1] = NewTurn]
    BY DEF SpeechStart
  <1> HIDE DEF before
  <1>5. turn'[m] = IF m = begun + 1 THEN NewTurn ELSE before[m]
    BY <1>1, <1>2, <1>4
  <1>6. NewTurn.cancelled = FALSE
    BY DEF NewTurn
  <1>7. m = begun + 1 => turn'[m].cancelled = FALSE
    BY <1>5, <1>6
  <1>8. m # begun + 1 => turn'[m].cancelled = before[m].cancelled
    BY <1>5
  <1> QED BY <1>1, <1>3, <1>7, <1>8

\* The turn in flight is never one that was cut off.
LEMMA FloorStep ==
  ASSUME CallInv, Next
  PROVE  CutOffHasNoFloor'
  <1> SUFFICES ASSUME NEW m \in Turn, turn'[m].cancelled PROVE cur' # m
    BY DEF CutOffHasNoFloor
  <1>1. TypeOK /\ (turn[m].cancelled => cur # m) /\ m # NoTurn
    BY DEF CallInv, CutOffHasNoFloor, Turn, NoTurn
  <1>2. CASE cur' = cur /\ turn' = turn
    BY <1>1, <1>2
  <1>3. CASE cur' = NoTurn
    BY <1>1, <1>3
  <1>4. CASE cur' = cur /\ cur # NoTurn /\ turn' = CloseMic(cur)
    <2>1. cur \in Turn
      BY <1>1, <1>4 DEF TypeOK
    <2>2. CloseMic(cur)[m].cancelled = turn[m].cancelled
      BY <1>1, <2>1, TurnMarks
    <2> QED BY <1>1, <1>4, <2>2
  <1>5. CASE cur' = cur /\ \E n \in Turn : turn' = [turn EXCEPT ![n].heard = TRUE]
    <2>1. PICK n \in Turn : turn' = [turn EXCEPT ![n].heard = TRUE]
      BY <1>5
    <2>2. [turn EXCEPT ![n].heard = TRUE][m].cancelled = turn[m].cancelled
      BY <1>1, TurnMarks
    <2> QED BY <1>1, <1>5, <2>1, <2>2
  <1>6. CASE SpeechStart
    BY <1>1, <1>6, StartMarks
  <1> QED BY <1>1, <1>2, <1>3, <1>4, <1>5, <1>6, TurnSteps DEF TurnStep

\* The detector moves only on frames, and the turn in flight with it.
LEMMA MicStep ==
  ASSUME CallInv, Next
  PROVE  OpenMicIsSpeaking'
  <1> SUFFICES ASSUME cur' # NoTurn, ~turn'[cur'].closed PROVE vad'.speaking
    BY DEF OpenMicIsSpeaking
  <1>1. TypeOK /\ (cur # NoTurn /\ ~turn[cur].closed => vad.speaking)
    BY DEF CallInv, OpenMicIsSpeaking
  <1>2. CASE SpeechStart
    BY <1>1, <1>2, VadSteps DEF SpeechStart, MicFrame, TypeOK
  <1>3. CASE SpeechEnd
    <2>1. cur \in Turn /\ cur' = cur /\ turn' = CloseMic(cur)
      BY <1>1, <1>3 DEF SpeechEnd, TypeOK
    <2>2. CloseMic(cur)[cur].closed = TRUE
      BY <1>1, <2>1, TurnMarks
    <2> QED BY <2>1, <2>2
  <1>4. CASE ~SpeechStart /\ ~SpeechEnd
    <2>1. vad'.speaking = vad.speaking
      <3>1. ASSUME NEW loud \in BOOLEAN, Audio(loud) PROVE vad'.speaking = vad.speaking
        BY <1>1, <3>1, VadSteps DEF Audio, MicFrame, TypeOK
      <3>2. ASSUME \/ Start \/ HangUp \/ Close \/ BrowserCloses \/ OnWorkerFrame
                   \/ BrowserReceives \/ Played
            PROVE  vad' = vad
        BY <3>2 DEF Start, HangUp, Close, BrowserCloses, OnWorkerFrame,
           BrowserReceives, Played, micVars
      <3>3. ASSUME NEW n \in Turn, WorkerSends(n) \/ SagaEnds(n) \/ AwaitTurn(n)
            PROVE  vad' = vad
        BY <3>3 DEF WorkerSends, SagaEnds, AwaitTurn, micVars
      <3> QED BY <1>4, <3>1, <3>2, <3>3 DEF Next
    <2>2. cur' = cur /\ cur \in Turn
      BY <1>1, <1>4, TurnSteps DEF TurnStep, TypeOK
    <2>3. ~turn[cur].closed
      <3>1. CASE turn' = turn
        BY <2>2, <3>1
      <3>2. CASE turn' = CloseMic(cur)
        <4>1. CloseMic(cur)[cur].closed = TRUE
          BY <1>1, <2>2, TurnMarks
        <4> QED BY <2>2, <3>2, <4>1
      <3>3. CASE \E n \in Turn : turn' = [turn EXCEPT ![n].heard = TRUE]
        <4>1. PICK n \in Turn : turn' = [turn EXCEPT ![n].heard = TRUE]
          BY <3>3
        <4>2. [turn EXCEPT ![n].heard = TRUE][cur].closed = turn[cur].closed
          BY <1>1, <2>2, TurnMarks
        <4> QED BY <2>2, <4>1, <4>2
      <3> QED BY <1>1, <1>4, <2>2, <3>1, <3>2, <3>3, TurnSteps DEF TurnStep
    <2> QED BY <1>1, <2>1, <2>2, <2>3 DEF NoTurn, Turn
  <1> QED BY <1>2, <1>3, <1>4

\* A step that leaves the queue and the playback alone cuts nobody off, or closes
\* the call and empties both.
LEMMA SilentStep ==
  ASSUME CallInv, Next
  PROVE  CutOffTurnIsSilent'
  <1> SUFFICES ASSUME NEW m \in Turn, turn'[m].cancelled, call' # "dropped"
               PROVE  (Silenced(m) \/ StopOnItsWay(m))'
    BY DEF CutOffTurnIsSilent
  <1>0. CASE call = "dropped"
    <2>1. BrowserCloses
      BY <1>0 DEF Next, Start, Audio, SpeechStart, SpeechEnd, MicFrame, HangUp, Close, WorkerSends,
         SagaEnds, AwaitTurn, OnWorkerFrame, BrowserReceives, Played
    <2> QED BY <2>1 DEF BrowserCloses, Silenced, ToBrowser
  <1> SUFFICES ASSUME call # "dropped"
               PROVE  (Silenced(m) \/ StopOnItsWay(m))'
    BY <1>0
  <1>1. /\ TypeOK /\ GoneIsQuiet
        /\ turn[m].cancelled => cur # m /\ (Silenced(m) \/ StopOnItsWay(m))
    BY DEF CallInv, CutOffHasNoFloor, CutOffTurnIsSilent
  <1>2. CASE SpeechStart
    <2>1. m = cur \/ turn[m].cancelled
      BY <1>1, <1>2, StartMarks
    <2>2. UNCHANGED playing /\ call \in {"live", "closing"}
      BY <1>2 DEF SpeechStart, MicFrame
    <2>3. CASE m = cur
      <3>1. down' = Sent(<<ToBrowser("stop_audio", m)>>)
        BY <1>2, <2>3 DEF SpeechStart, Turn, NoTurn
      <3> QED BY <1>1, <2>2, <3>1, StopAppended
    <2>4. CASE turn[m].cancelled /\ cur = NoTurn
      <3>1. UNCHANGED <<down, playing>>
        BY <1>2, <2>2, <2>4 DEF SpeechStart
      <3> QED BY <1>1, <2>4, <3>1 DEF Silenced, StopOnItsWay, ToBrowser
    <2>5. CASE turn[m].cancelled /\ cur # NoTurn
      <3>1. down' = Sent(<<ToBrowser("stop_audio", cur)>>)
        BY <1>2, <2>5 DEF SpeechStart
      <3>2. ToBrowser("stop_audio", cur) # ToBrowser("audio", m)
        BY DEF ToBrowser
      <3> QED BY <1>1, <2>2, <2>5, <3>1, <3>2, SilentAppend
    <2> QED BY <2>1, <2>3, <2>4, <2>5
  <1>3. CASE Close
    BY <1>1, <1>3 DEF Close, browserVars, GoneIsQuiet, Silenced, ToBrowser
  <1>4. CASE ~SpeechStart /\ ~Close
    <2>1. turn[m].cancelled
      <3>1. CASE turn' = turn
        BY <3>1
      <3>2. CASE cur # NoTurn /\ turn' = CloseMic(cur)
        <4>1. cur \in Turn
          BY <1>1, <3>2 DEF TypeOK
        <4>2. CloseMic(cur)[m].cancelled = turn[m].cancelled
          BY <1>1, <4>1, TurnMarks
        <4> QED BY <3>2, <4>2
      <3>3. CASE \E n \in Turn : turn' = [turn EXCEPT ![n].heard = TRUE]
        <4>1. PICK n \in Turn : turn' = [turn EXCEPT ![n].heard = TRUE]
          BY <3>3
        <4>2. [turn EXCEPT ![n].heard = TRUE][m].cancelled = turn[m].cancelled
          BY <1>1, TurnMarks
        <4> QED BY <4>1, <4>2
      <3>4. cur' = NoTurn /\ turn' # turn => Close
        <4>1. ASSUME Start \/ HangUp \/ BrowserCloses \/ BrowserReceives \/ Played
              PROVE  turn' = turn
          BY <4>1 DEF Start, HangUp, BrowserCloses, BrowserReceives, Played, sessionVars
        <4>2. ASSUME NEW loud \in BOOLEAN, Audio(loud) PROVE turn' = turn
          BY <4>2 DEF Audio, sessionVars
        <4>3. ASSUME NEW n \in Turn, WorkerSends(n) \/ SagaEnds(n) \/ AwaitTurn(n)
              PROVE  turn' = turn
          BY <4>3 DEF WorkerSends, SagaEnds, AwaitTurn, sessionVars
        <4>4. SpeechEnd => turn' = turn \/ cur' # NoTurn
          BY DEF SpeechEnd
        <4>5. OnWorkerFrame => turn' = turn \/ cur' # NoTurn
          <5>1. OnWorkerFrame => Head(fromWorker).turn # NoTurn
            BY <1>1, FrameType DEF Frame, Turn, NoTurn
          <5> QED BY <5>1 DEF OnWorkerFrame, HasTheFloor
        <4> QED BY <1>4, <4>1, <4>2, <4>3, <4>4, <4>5 DEF Next
      <3> QED BY <1>1, <1>4, <3>1, <3>2, <3>3, <3>4, TurnSteps DEF TurnStep
    <2>2. cur # m /\ (Silenced(m) \/ StopOnItsWay(m))
      BY <1>1, <2>1
    <2>3. CASE UNCHANGED <<down, playing>>
      BY <2>2, <2>3 DEF Silenced, StopOnItsWay, ToBrowser
    <2>4. CASE Start
      BY <2>3, <2>4 DEF Start, browserVars
    <2>5. CASE HangUp \/ BrowserCloses
      BY <2>5 DEF HangUp, BrowserCloses, Silenced, ToBrowser
    <2>6. CASE OnWorkerFrame
      <3>1. UNCHANGED playing
        BY <2>6 DEF OnWorkerFrame
      <3>2. down' = down \/ down' = Sent(<<ToBrowser("audio", cur)>>)
        BY <2>6 DEF OnWorkerFrame, HasTheFloor
      <3>3. ToBrowser("audio", cur) # ToBrowser("audio", m)
        BY <2>2 DEF ToBrowser
      <3>4. CASE down' = down
        BY <2>3, <3>1, <3>4
      <3>5. CASE down' = Sent(<<ToBrowser("audio", cur)>>)
        BY <1>1, <2>2, <3>1, <3>3, <3>5, SilentAppend
      <3> QED BY <3>2, <3>4, <3>5
    <2>7. CASE BrowserReceives
      BY <1>1, <2>2, <2>7, SilentReceived
    <2>8. CASE Played
      BY <1>1, <2>2, <2>8, SilentPlayed DEF Played
    <2>9. ASSUME NEW n \in Turn, WorkerSends(n) \/ SagaEnds(n) \/ AwaitTurn(n)
          PROVE  UNCHANGED <<down, playing>>
      BY <2>9 DEF WorkerSends, SagaEnds, AwaitTurn, browserVars
    <2>10. ASSUME NEW loud \in BOOLEAN, Audio(loud) PROVE UNCHANGED <<down, playing>>
      BY <2>10 DEF Audio, browserVars
    <2>11. SpeechEnd => UNCHANGED <<down, playing>>
      BY DEF SpeechEnd, browserVars
    <2> QED BY <1>4, <2>3, <2>4, <2>5, <2>6, <2>7, <2>8, <2>9, <2>10, <2>11 DEF Next
  <1> QED BY <1>2, <1>3, <1>4

LEMMA CallInvStep == CallInv /\ [Next]_vars => CallInv'
  <1>1. ASSUME CallInv, Next PROVE CallInv'
    <2>1. TypeOK'
      BY <1>1, TypeStep DEF CallInv
    <2> QED BY <1>1, <2>1, GoneStep, FloorStep, MicStep, SilentStep DEF CallInv
  <1>2. ASSUME CallInv, UNCHANGED vars PROVE CallInv'
    <2>1. TypeOK'
      BY <1>2, TypeStep DEF CallInv
    <2>2. UNCHANGED <<call, down, playing, turn, cur, vad>>
      BY <1>2 DEF vars, sessionVars, micVars, browserVars
    <2> QED BY <1>2, <2>1, <2>2 DEF CallInv, GoneIsQuiet, CutOffHasNoFloor, OpenMicIsSpeaking,
            CutOffTurnIsSilent, Silenced, StopOnItsWay, ToBrowser
  <1> QED BY <1>1, <1>2

LEMMA CallSafe == Spec => []CallInv
  BY InitCallInv, CallInvStep, PTL DEF Spec

-----------------------------------------------------------------------------
(* The theorems. *)

\* Every reachable state of a call has its type.
THEOREM CallTypeCorrect == Spec => []TypeOK
  BY CallSafe, PTL DEF CallInv

\* The microphone of the turn in flight is open only while the caller speaks, so
\* an audio_end that unblocks its hops is always still to come (onAudio).
THEOREM MicClosesInTime == Spec => []OpenMicIsSpeaking
  BY CallSafe, PTL DEF CallInv

\* Whatever the worker still sends, a turn that the caller talked over has no
\* speech in the browser or on its way there without a stop_audio behind it, unless the
\* connection was lost and the browser has yet to see it.
THEOREM BargeInIsSilent == Spec => []CutOffTurnIsSilent
  BY CallSafe, PTL DEF CallInv

-----------------------------------------------------------------------------
(* The gateway implements Floor: the turn in flight holds the floor. *)

LEMMA FloorInit == Init => TheFloor!Init
  BY DEF Init, TheFloor!Init, NoTurn, Turn, TheFloor!Turn

LEMMA FloorSteps ==
  ASSUME TypeOK, [Next]_vars
  PROVE  [TheFloor!Take \/ TheFloor!Yield \/ TheFloor!Speak]_(TheFloor!vars)
  <1> USE DEF TheFloor!vars
  <1>1. CASE SpeechStart
    BY <1>1 DEF SpeechStart, TheFloor!Take
  <1>2. CASE Close
    BY <1>2 DEF Close, TheFloor!Yield, NoTurn
  <1>3. ASSUME NEW n \in Turn, AwaitTurn(n)
        PROVE  TheFloor!Yield \/ UNCHANGED TheFloor!vars
    BY <1>3 DEF AwaitTurn, TheFloor!Yield, NoTurn, Turn
  <1>4. CASE OnWorkerFrame
    <2>1. Head(fromWorker).turn # 0
      BY <1>4, FrameType DEF Frame, Turn
    <2>2. UNCHANGED <<begun, cur>>
      BY <1>4 DEF OnWorkerFrame
    <2>3. \/ aired' = aired
          \/ /\ cur = Head(fromWorker).turn
             /\ aired' = [aired EXCEPT ![cur] = @ + 1]
      BY <1>4 DEF OnWorkerFrame, HasTheFloor
    <2> QED BY <2>1, <2>2, <2>3 DEF TheFloor!Speak
  <1>5. ASSUME Start \/ HangUp \/ BrowserCloses \/ SpeechEnd \/ BrowserReceives \/ Played
        PROVE  UNCHANGED TheFloor!vars
    BY <1>5 DEF Start, HangUp, BrowserCloses, SpeechEnd, BrowserReceives, Played,
       sessionVars
  <1>6. ASSUME NEW loud \in BOOLEAN, Audio(loud) PROVE UNCHANGED TheFloor!vars
    BY <1>6 DEF Audio, sessionVars
  <1>7. ASSUME NEW n \in Turn, WorkerSends(n) \/ SagaEnds(n) PROVE UNCHANGED TheFloor!vars
    BY <1>7 DEF WorkerSends, SagaEnds, sessionVars
  <1>8. CASE UNCHANGED vars
    BY <1>8 DEF vars, sessionVars
  <1> QED BY <1>1, <1>2, <1>3, <1>4, <1>5, <1>6, <1>7, <1>8 DEF Next

\* Turns take the floor one after another, and the caller is sent speech only
\* from the turn that holds it, in every behaviour of the gateway.
THEOREM GatewayKeepsTheFloor == Spec => KeepsTheFloor
  <1>1. Spec => []TypeOK
    BY CallTypeCorrect
  <1>2. TypeOK /\ [Next]_vars =>
          [TheFloor!Take \/ TheFloor!Yield \/ TheFloor!Speak]_(TheFloor!vars)
    BY FloorSteps
  <1> QED BY <1>1, <1>2, FloorInit, PTL DEF Spec, KeepsTheFloor, TheFloor!Spec

-----------------------------------------------------------------------------
(* Down the internal socket: what was sent last for a turn is known from     *)
(* what the session keeps of it, and nothing was sent for turns to come.     *)

Downlink ==
  /\ \A n \in Turn : n > begun => toWorker[n] = "none"
  /\ cur # NoTurn =>
       /\ cur <= begun
       /\ toWorker[cur] \in {"audio", "audio_end"}
       /\ ~turn[cur].closed => toWorker[cur] = "audio"

FramesGoOn == \A n \in Turn : FrameRank[toWorker[n]] <= FrameRank[toWorker'[n]]

LEMMA InitDownlink == Init => Downlink
  BY DEF Init, Downlink

\* Every kind of frame has its rank.
LEMMA Ranks ==
  /\ FrameRank["none"] = 0 /\ FrameRank["audio"] = 1
  /\ FrameRank["audio_end"] = 2 /\ FrameRank["cancel"] = 3
  /\ \A k \in DOMAIN FrameRank : FrameRank[k] \in 0..3
  BY DEF FrameRank

\* What is sent for turn n goes on from k to l, and no other turn is sent anything.
LEMMA SentFor ==
  ASSUME TypeOK, NEW n \in Turn, NEW k \in DOMAIN FrameRank,
         FrameRank[toWorker[n]] <= FrameRank[k], toWorker' = [toWorker EXCEPT ![n] = k]
  PROVE  /\ toWorker'[n] = k /\ \A m \in Turn : m # n => toWorker'[m] = toWorker[m]
         /\ FramesGoOn
  <1>1. toWorker \in [Turn -> DOMAIN FrameRank]
    BY DEF TypeOK
  <1>2. toWorker'[n] = k /\ \A m \in Turn : m # n => toWorker'[m] = toWorker[m]
    BY <1>1
  <1>3. \A m \in Turn : FrameRank[toWorker[m]] \in 0..3
    BY <1>1, Ranks
  <1>4. \A m \in Turn : FrameRank[toWorker[m]] <= FrameRank[toWorker'[m]]
    BY <1>2, <1>3
  <1> QED BY <1>2, <1>4 DEF FramesGoOn

LEMMA NothingSent ==
  ASSUME TypeOK, toWorker' = toWorker
  PROVE  FramesGoOn
  <1>1. \A m \in Turn : FrameRank[toWorker[m]] \in 0..3
    BY Ranks DEF TypeOK
  <1> QED BY <1>1 DEF FramesGoOn

LEMMA SpeechStartSends ==
  ASSUME TypeOK, Downlink, SpeechStart
  PROVE  Downlink' /\ FramesGoOn
  <1>1. /\ begun + 1 \in Turn /\ begun \in Nat /\ begun' = begun + 1 /\ cur' = begun + 1
        /\ cur \in Turn \cup {NoTurn}
    BY CallConstants DEF SpeechStart, TypeOK, Turn, NoTurn
  <1>2. \A n \in Turn : toWorker'[n] = IF n = begun + 1 THEN "audio"
                                       ELSE IF n = cur THEN "cancel" ELSE toWorker[n]
    BY DEF SpeechStart
  <1>3. toWorker[begun + 1] = "none" /\ (cur # NoTurn => cur <= begun)
    BY <1>1 DEF Downlink
  <1>4. FramesGoOn
    <2>1. \A n \in Turn : FrameRank[toWorker[n]] \in 0..3
      BY Ranks DEF TypeOK
    <2> QED BY <1>2, <1>3, <2>1, Ranks DEF FramesGoOn
  <1>5. ASSUME NEW n \in Turn, n > begun + 1
        PROVE  toWorker'[n] = "none"
    <2>1. n \in Nat /\ n > begun /\ n # begun + 1
      BY <1>1, <1>5 DEF Turn
    <2>2. n # cur
      BY <1>1, <1>3, <2>1 DEF NoTurn
    <2> QED BY <1>2, <2>1, <2>2 DEF Downlink
  <1>6. toWorker'[begun + 1] = "audio"
    BY <1>1, <1>2
  <1> QED BY <1>1, <1>4, <1>5, <1>6 DEF Downlink

LEMMA DownlinkStep ==
  ASSUME TypeOK, Downlink, [Next]_vars
  PROVE  Downlink' /\ FramesGoOn
  <1>1. /\ cur \in Turn \cup {NoTurn} /\ begun \in {NoTurn} \cup Turn
        /\ toWorker \in [Turn -> DOMAIN FrameRank]
    BY DEF TypeOK
  <1>2. ASSUME UNCHANGED <<begun, toWorker>>, cur' = cur \/ cur' = NoTurn,
               cur \in Turn => turn'[cur].closed = turn[cur].closed
        PROVE  Downlink' /\ FramesGoOn
    BY <1>1, <1>2, NothingSent DEF Downlink
  <1>3. CASE Start \/ HangUp \/ BrowserCloses \/ BrowserReceives \/ Played \/ UNCHANGED vars
    BY <1>2, <1>3 DEF Start, HangUp, BrowserCloses, BrowserReceives, Played, vars, sessionVars
  <1>4. CASE \E n \in Turn : WorkerSends(n) \/ SagaEnds(n) \/ AwaitTurn(n)
    BY <1>2, <1>4 DEF WorkerSends, SagaEnds, AwaitTurn, sessionVars
  <1>5. CASE OnWorkerFrame
    <2>1. Head(fromWorker).turn \in Turn
      BY <1>5, FrameType DEF Frame
    <2>2. cur \in Turn =>
            [turn EXCEPT ![Head(fromWorker).turn].heard = TRUE][cur].closed = turn[cur].closed
      BY <2>1, TurnMarks
    <2> QED BY <1>2, <1>5, <2>2 DEF OnWorkerFrame
  <1>6. CASE SpeechStart
    BY <1>6, SpeechStartSends
  <1>7. CASE \E loud \in BOOLEAN : Audio(loud)
    <2>1. UNCHANGED <<begun, cur, turn>>
      BY <1>7 DEF Audio, sessionVars
    <2>2. CASE ~Forwards(cur)
      BY <1>2, <1>7, <2>1, <2>2 DEF Audio
    <2>3. CASE Forwards(cur)
      <3>1. toWorker' = [toWorker EXCEPT ![cur] = "audio"]
        BY <1>7, <2>3 DEF Audio
      <3>2. cur \in Turn /\ toWorker[cur] = "audio"
        BY <1>1, <2>3 DEF Forwards, Downlink
      <3>3. toWorker' = toWorker
        BY <1>1, <3>1, <3>2
      <3> QED BY <1>2, <2>1, <3>3
    <2> QED BY <2>2, <2>3
  <1>8. CASE SpeechEnd
    <2>1. UNCHANGED <<begun, cur>>
      BY <1>8 DEF SpeechEnd
    <2>2. CASE cur = NoTurn
      BY <1>2, <1>8, <2>1, <2>2 DEF SpeechEnd, Turn, NoTurn
    <2>3. CASE cur # NoTurn
      <3>1. cur \in Turn /\ toWorker[cur] \in {"audio", "audio_end"} /\ cur <= begun
        BY <1>1, <2>3 DEF Downlink
      <3>2. turn' = CloseMic(cur) /\ toWorker' = [toWorker EXCEPT ![cur] = "audio_end"]
        BY <1>8, <2>3 DEF SpeechEnd
      <3>3. "audio_end" \in DOMAIN FrameRank /\ FrameRank[toWorker[cur]] <= FrameRank["audio_end"]
        BY <3>1, Ranks DEF FrameRank
      <3>4. /\ toWorker'[cur] = "audio_end" /\ FramesGoOn
            /\ \A m \in Turn : m # cur => toWorker'[m] = toWorker[m]
        BY <3>1, <3>2, <3>3, SentFor
      <3>5. turn'[cur].closed
        BY <3>1, <3>2, TurnMarks
      <3>6. \A n \in Turn : n > begun => n # cur
        BY <1>1, <3>1 DEF Turn, NoTurn
      <3> QED BY <2>1, <3>1, <3>4, <3>5, <3>6 DEF Downlink
    <2> QED BY <2>2, <2>3
  <1>9. CASE Close
    <2>1. begun' = begun /\ cur' = NoTurn
      BY <1>9 DEF Close
    <2>2. CASE cur = NoTurn
      BY <1>2, <1>9, <2>1, <2>2 DEF Close, Turn, NoTurn
    <2>3. CASE cur # NoTurn
      <3>1. cur \in Turn /\ cur <= begun
        BY <1>1, <2>3 DEF Downlink
      <3>2. toWorker' = [toWorker EXCEPT ![cur] = "cancel"]
        BY <1>9, <2>3 DEF Close
      <3>3. "cancel" \in DOMAIN FrameRank /\ FrameRank[toWorker[cur]] <= FrameRank["cancel"]
        <4>1. toWorker[cur] \in DOMAIN FrameRank
          BY <1>1, <3>1
        <4>2. FrameRank[toWorker[cur]] \in 0..3
          BY <4>1, Ranks
        <4> QED BY <4>2, Ranks DEF FrameRank
      <3>4. FramesGoOn /\ \A m \in Turn : m # cur => toWorker'[m] = toWorker[m]
        BY <3>1, <3>2, <3>3, SentFor
      <3>5. \A n \in Turn : n > begun => n # cur
        BY <1>1, <3>1 DEF Turn, NoTurn
      <3> QED BY <2>1, <3>4, <3>5 DEF Downlink
    <2> QED BY <2>2, <2>3
  <1> QED BY <1>3, <1>4, <1>5, <1>6, <1>7, <1>8, <1>9 DEF Next

\* For every number of turns, what the gateway sends down for a turn is audio, then its
\* audio_end, then its cancel, and never goes back (session.ts: onAudio, #bargeIn, close).
THEOREM DownlinkInOrder == Spec => WorkerFramesInOrder
  <1>1. TypeOK /\ Downlink /\ [Next]_vars
          => Downlink' /\ \A n \in Turn : FrameRank[toWorker[n]] <= FrameRank[toWorker'[n]]
    BY DownlinkStep DEF FramesGoOn
  <1> QED BY <1>1, InitDownlink, CallTypeCorrect, PTL DEF Spec, WorkerFramesInOrder

-----------------------------------------------------------------------------
(* The detector counts no frame that was not there: while it listens for     *)
(* speech it has no more loud frames than came in a row, and while it        *)
(* listens for the end no more quiet ones.                                   *)

RunsCount ==
  /\ ~vad.speaking => vad.loud <= run.loud
  /\ vad.speaking => vad.quiet <= run.quiet

LEMMA RunsStep ==
  ASSUME TypeOK, RunsCount, NEW loud \in BOOLEAN, MicFrame(loud)
  PROVE  /\ RunsCount'
         /\ VadEvent(vad, loud) = "speech-start" => run'.loud = SpeechFrames
         /\ VadEvent(vad, loud) = "speech-end" => run'.quiet = HangoverFrames
  <1>1. /\ vad \in VadState
        /\ vad.speaking \in BOOLEAN /\ vad.loud \in 0..SpeechFrames
        /\ vad.quiet \in 0..HangoverFrames - 1
        /\ run.loud \in 0..SpeechFrames /\ run.quiet \in 0..HangoverFrames
        /\ SpeechFrames \in Nat /\ HangoverFrames \in Nat
    BY VadConstants DEF TypeOK, VadState
  <1>2. /\ run'.loud = IF loud THEN Capped(run.loud + 1, SpeechFrames) ELSE 0
        /\ run'.quiet = IF loud THEN 0 ELSE Capped(run.quiet + 1, HangoverFrames)
    BY DEF MicFrame, RunNext
  <1>3. vad' = VadNext(vad, loud)
    BY DEF MicFrame
  <1>4. CASE VadEvent(vad, loud) = "speech-end"
    <2>1. vad' = VadSilent
      BY <1>3, <1>4 DEF VadNext, VadReset
    <2>2. vad.speaking /\ ~loud /\ vad.quiet + 1 >= HangoverFrames
      BY <1>4 DEF VadEvent
    <2>3. run'.quiet = HangoverFrames
      BY <1>1, <1>2, <2>2 DEF RunsCount, Capped
    <2>4. ~vad'.speaking /\ vad'.loud = 0
      BY <2>1 DEF VadSilent
    <2>5. run'.loud = 0
      BY <1>2, <2>2
    <2> QED BY <1>4, <2>3, <2>4, <2>5 DEF RunsCount
  <1>5. CASE VadEvent(vad, loud) = "speech-start"
    <2>1. vad'.speaking /\ vad'.quiet = 0
      BY <1>1, <1>3, <1>5 DEF VadNext, VadState
    <2>2. ~vad.speaking /\ loud /\ vad.loud + 1 >= SpeechFrames
      BY <1>5 DEF VadEvent
    <2>3. run'.loud = SpeechFrames
      BY <1>1, <1>2, <2>2 DEF RunsCount, Capped
    <2>4. run'.quiet = 0
      BY <1>2, <2>2
    <2> QED BY <1>5, <2>1, <2>3, <2>4 DEF RunsCount
  <1>6. CASE VadEvent(vad, loud) = "none"
    <2>1. CASE vad.speaking
      <3>1. vad'.speaking = vad.speaking /\ vad'.quiet = IF loud THEN 0 ELSE vad.quiet + 1
        BY <1>1, <1>3, <1>6, <2>1 DEF VadNext, VadState
      <3>2. ~loud => vad.quiet + 1 < HangoverFrames
        BY <1>1, <1>6, <2>1 DEF VadEvent
      <3>3. ~loud => vad.quiet + 1 <= run'.quiet
        BY <1>1, <1>2, <2>1, <3>2 DEF RunsCount, Capped
      <3>4. loud => run'.quiet = 0
        BY <1>2
      <3> QED BY <1>6, <2>1, <3>1, <3>3, <3>4 DEF RunsCount
    <2>2. CASE ~vad.speaking
      <3>1. vad'.speaking = vad.speaking /\ vad'.loud = IF loud THEN vad.loud + 1 ELSE 0
        BY <1>1, <1>3, <1>6, <2>2 DEF VadNext, VadState
      <3>2. loud => vad.loud + 1 < SpeechFrames
        BY <1>1, <1>6, <2>2 DEF VadEvent
      <3>3. loud => vad.loud + 1 <= run'.loud
        BY <1>1, <1>2, <2>2, <3>2 DEF RunsCount, Capped
      <3>4. ~loud => run'.loud = 0
        BY <1>2
      <3> QED BY <1>6, <2>2, <3>1, <3>3, <3>4 DEF RunsCount
    <2> QED BY <2>1, <2>2
  <1> QED BY <1>1, <1>4, <1>5, <1>6, VadSteps

\* What a step adds to a turn and to what was sent for it comes of the detector's event.
HeardOut ==
  /\ begun' # begun => run'.loud = SpeechFrames
  /\ \A n \in Turn : toWorker'[n] = "audio_end" /\ toWorker[n] # "audio_end"
                       => run'.quiet = HangoverFrames

LEMMA HeardOutStep ==
  ASSUME TypeOK, RunsCount, [Next]_vars
  PROVE  RunsCount' /\ HeardOut
  <1>1. toWorker \in [Turn -> DOMAIN FrameRank] /\ cur \in Turn \cup {NoTurn}
    BY DEF TypeOK
  <1>2. CASE SpeechStart
    <2>1. RunsCount' /\ run'.loud = SpeechFrames
      BY <1>2, RunsStep DEF SpeechStart
    <2>2. \A n \in Turn : toWorker'[n] = "audio_end" => toWorker[n] = "audio_end"
      BY <1>2 DEF SpeechStart
    <2> QED BY <2>1, <2>2 DEF HeardOut
  <1>3. CASE SpeechEnd
    <2>1. RunsCount' /\ run'.quiet = HangoverFrames
      BY <1>3, RunsStep DEF SpeechEnd
    <2> QED BY <1>3, <2>1 DEF SpeechEnd, HeardOut
  <1>4. ASSUME NEW loud \in BOOLEAN, Audio(loud)
        PROVE  RunsCount' /\ HeardOut
    <2>1. RunsCount' /\ begun' = begun
      BY <1>4, RunsStep DEF Audio, sessionVars
    <2>2. \A n \in Turn : toWorker'[n] = "audio_end" => toWorker[n] = "audio_end"
      BY <1>1, <1>4 DEF Audio
    <2> QED BY <2>1, <2>2 DEF HeardOut
  <1>5. ASSUME UNCHANGED <<vad, run, begun>>,
               \A n \in Turn : toWorker'[n] = "audio_end" => toWorker[n] = "audio_end"
        PROVE  RunsCount' /\ HeardOut
    BY <1>5 DEF RunsCount, HeardOut
  <1>6. CASE \/ Start \/ HangUp \/ BrowserCloses \/ OnWorkerFrame \/ BrowserReceives
             \/ Played \/ UNCHANGED vars
    BY <1>5, <1>6 DEF Start, HangUp, BrowserCloses, OnWorkerFrame, BrowserReceives, Played, vars,
       sessionVars, micVars
  <1>7. CASE \E n \in Turn : WorkerSends(n) \/ SagaEnds(n) \/ AwaitTurn(n)
    BY <1>5, <1>7 DEF WorkerSends, SagaEnds, AwaitTurn, sessionVars, micVars
  <1>8. CASE Close
    BY <1>1, <1>5, <1>8 DEF Close, micVars
  <1> QED BY <1>2, <1>3, <1>4, <1>6, <1>7, <1>8 DEF Next

\* For every setting of the detector, a turn begins only on SpeechFrames loud frames in
\* a row, and its audio ends only after HangoverFrames quiet ones (vad.ts, push).
THEOREM NoTurnFromNoise == Spec => UtterancesAreHeardOut
  <1>1. Init => RunsCount
    BY VadConstants DEF Init, RunsCount, VadSilent
  <1>2. TypeOK /\ RunsCount /\ [Next]_vars
          => /\ RunsCount'
             /\ /\ begun' # begun => run'.loud = SpeechFrames
                /\ \A n \in Turn : toWorker'[n] = "audio_end" /\ toWorker[n] # "audio_end"
                                     => run'.quiet = HangoverFrames
    BY HeardOutStep DEF HeardOut
  <1> QED BY <1>1, <1>2, CallTypeCorrect, PTL DEF Spec, UtterancesAreHeardOut
=============================================================================
