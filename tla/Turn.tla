-------------------------------- MODULE Turn --------------------------------
(***************************************************************************)
(* One turn of a call, in one worker process: the three hops of            *)
(* packages/orchestrator/src/activities.ts (transcribe, respond,           *)
(* synthesize), each a Temporal activity with attempts of its own, the bus *)
(* they hand their output over on (bus.ts), the workflow that runs them    *)
(* concurrently and tears the turn down (workflows.ts), and the gateway's  *)
(* audio_end and cancel frames (gateway-channel.ts).                       *)
(*                                                                         *)
(* Hops are named as their trace events name them: stt, llm, tts.          *)
(*                                                                         *)
(* A turn's bus is looked up by trace id and created on demand, so the     *)
(* same turn can have more than one bus object over its life: a bus is a   *)
(* number, `busMap` is the one the map holds (NoBus when it holds none)    *)
(* and every attempt keeps the one it was handed when it started.          *)
(*                                                                         *)
(* An attempt that Temporal has given up on (a timeout, a closed workflow) *)
(* keeps running in the worker until its own code ends it.                 *)
(***************************************************************************)
EXTENDS TurnBus, FiniteSets

CONSTANTS
  RespondAttempts,     \* maximumAttempts of respond (3 in workflows.ts)
  SynthesizeAttempts,  \* maximumAttempts of synthesize (2 in workflows.ts)
  MaxText,             \* bound: transcript messages of the utterance
  MaxSentences,        \* bound: sentences one LLM reply is cut into
  Hazards              \* what may go wrong in this instance

AllHazards == {"sttFault", "llmFault", "ttsFault",  \* a Sarvam call fails
               "bargeIn",    \* the caller interrupts or hangs up
               "lossy",      \* a frame to the worker is lost: the channel is down
               "sttTimeout", "llmTimeout", "ttsTimeout", "endTimeout",
                             \* the activity's clock runs out in Temporal
               "crash"}      \* the worker process dies and is restarted

ASSUME TurnConstants ==
  /\ RespondAttempts \in Nat \ {0}
  /\ SynthesizeAttempts \in Nat \ {0}
  /\ MaxText \in Nat
  /\ MaxSentences \in Nat
  /\ Hazards \subseteq AllHazards

VARIABLES
  busMap,       \* the bus the worker's map holds for this turn, or NoBus
  born,         \* buses created for this turn by this worker process
  transcripts,  \* [Bus -> channel of transcripts], stt to llm
  sentences,    \* [Bus -> channel of sentences], llm to tts
  lang,         \* [Bus -> has the spoken language been resolved?]
  aborted,      \* [Bus -> has the barge-in signal fired?]
  mic,          \* the caller's audio as the gateway sends it
  queue,        \* the audio queue transcribe reads, or would be handed
  audio,        \* does that queue hold, or will it be given, caller audio?
  stt,          \* the one attempt of transcribe
  llm,          \* [attempt -> attempt of respond]
  tts,          \* [attempt -> attempt of synthesize]
  act,          \* [Hop -> what Temporal holds of the activity]
  attempt,      \* [Hop -> number of the last attempt started]
  wf,           \* the turn workflow
  torn,         \* has endTurn run?
  cancelRequested,  \* has handle.cancel() reached Temporal?
  crashed           \* has the worker restarted? (bound: once)

busVars  == <<busMap, born, transcripts, sentences, lang, aborted>>
hopVars  == <<stt, llm, tts>>
flowVars == <<wf, torn, cancelRequested>>
ingress  == <<mic, queue, audio>>
vars == <<busVars, ingress, hopVars, act, attempt, flowVars, crashed>>

-----------------------------------------------------------------------------
Hop == {"stt", "llm", "tts"}

\* The map loses a bus only in endTurn, which runs once: two buses at most.
NoBus == 0
Bus   == 1..2

RespondAttempt    == 1..RespondAttempts
SynthesizeAttempt == 1..SynthesizeAttempts

MaxAttempts(h) == CASE h = "stt" -> 1
                    [] h = "llm" -> RespondAttempts
                    [] h = "tts" -> SynthesizeAttempts

\* A transcript is how much of the utterance it covers; 0 is the empty text.
Transcript == [text : Nat, final : BOOLEAN]
\* A sentence is the attempt of respond that wrote it and its place in the reply.
Sentence == [by : RespondAttempt, nth : Nat]

\* "connecting" and "listening"/"speaking" hold a Sarvam socket; the drain
\* states wait in the adapter's `finally` for the pump that feeds the socket;
\* the store states wait for the captured audio to reach the disk.  `late` is history:
\* the attempt was picked up after endTurn had run.
SttPC == {"off", "connecting", "listening", "drainOk", "drainErr",
          "storeOk", "storeErr", "doneOk", "doneErr", "dead"}
LlmPC == {"off", "waiting", "awaitLang", "generating", "doneOk", "doneErr", "dead"}
TtsPC == {"off", "awaitLang", "connecting", "speaking", "tail", "drainOk", "drainErr",
          "storeOk", "storeErr", "doneOk", "doneErr", "dead"}

Finished == {"off", "doneOk", "doneErr", "dead"}

SttOff == [pc |-> "off", bus |-> NoBus, deaf |-> FALSE, ctx |-> FALSE,
           flushed |-> FALSE, text |-> 0]
LlmOff == [pc |-> "off", bus |-> NoBus, sig |-> NoBus, ctx |-> FALSE,
           cur |-> 0, prompt |-> 0, final |-> FALSE, wrote |-> 0, late |-> FALSE]
TtsOff == [pc |-> "off", bus |-> NoBus, sig |-> NoBus, deaf |-> FALSE, ctx |-> FALSE,
           cur |-> 0, voiced |-> 0, late |-> FALSE]

SttAttempt == [pc : SttPC, bus : {NoBus} \cup Bus, deaf : BOOLEAN, ctx : BOOLEAN,
               flushed : BOOLEAN, text : Nat]
LlmAttempt == [pc : LlmPC, bus : {NoBus} \cup Bus, sig : {NoBus} \cup Bus, ctx : BOOLEAN,
               cur : Nat, prompt : Nat, final : BOOLEAN, wrote : Nat, late : BOOLEAN]
TtsAttempt == [pc : TtsPC, bus : {NoBus} \cup Bus, sig : {NoBus} \cup Bus, deaf : BOOLEAN,
               ctx : BOOLEAN, cur : Nat, voiced : Nat, late : BOOLEAN]

ActState == {"scheduled", "started", "completed", "failed", "cancelled"}

TypeOK ==
  /\ busMap \in {NoBus} \cup Bus
  /\ born \in {0} \cup Bus
  /\ transcripts \in [Bus -> Channel(Transcript)]
  /\ sentences \in [Bus -> Channel(Sentence)]
  /\ lang \in [Bus -> BOOLEAN]
  /\ aborted \in [Bus -> BOOLEAN]
  /\ mic \in {"open", "ended", "dropped"}
  /\ queue \in {"open", "closed"}
  /\ audio \in BOOLEAN
  /\ stt \in SttAttempt
  /\ llm \in [RespondAttempt -> LlmAttempt]
  /\ tts \in [SynthesizeAttempt -> TtsAttempt]
  /\ act \in [Hop -> ActState]
  /\ attempt \in [Hop -> Nat]
  /\ wf \in {"running", "ending", "closed"}
  /\ torn \in BOOLEAN
  /\ cancelRequested \in BOOLEAN
  /\ crashed \in BOOLEAN

Init ==
  /\ busMap = NoBus
  /\ born = 0
  /\ transcripts = [b \in Bus |-> EmptyChannel]
  /\ sentences = [b \in Bus |-> EmptyChannel]
  /\ lang = [b \in Bus |-> FALSE]
  /\ aborted = [b \in Bus |-> FALSE]
  /\ mic = "open"
  /\ queue = "open"
  /\ audio = TRUE
  /\ stt = SttOff
  /\ llm = [n \in RespondAttempt |-> LlmOff]
  /\ tts = [n \in SynthesizeAttempt |-> TtsOff]
  /\ act = [h \in Hop |-> "scheduled"]
  /\ attempt = [h \in Hop |-> 0]
  /\ wf = "running"
  /\ torn = FALSE
  /\ cancelRequested = FALSE
  /\ crashed = FALSE

-----------------------------------------------------------------------------
(* The bus map. *)

\* What turnBus(traceId) returns, and what the call leaves in the map.
TurnBusOf == IF busMap = NoBus THEN born + 1 ELSE busMap
TouchBus ==
  /\ busMap' = TurnBusOf
  /\ born' = IF busMap = NoBus THEN born + 1 ELSE born

-----------------------------------------------------------------------------
(* Temporal's half of an activity attempt. *)

\* A worker slot picks the activity's task up.
Pickup(h) ==
  /\ wf # "closed"
  /\ act[h] = "scheduled"
  /\ attempt[h] < MaxAttempts(h)
  /\ act' = [act EXCEPT ![h] = "started"]
  /\ attempt' = [attempt EXCEPT ![h] = attempt[h] + 1]

\* The last attempt of h ended with a failure that may be retried.
Retry(h) ==
  IF attempt[h] < MaxAttempts(h) /\ ~cancelRequested THEN "scheduled" ELSE "failed"

\* Attempt n of h returns to Temporal, which ignores all but the live attempt.
Report(h, n, outcome) ==
  /\ act' = IF act[h] = "started" /\ attempt[h] = n
              THEN [act EXCEPT ![h] = outcome] ELSE act
  /\ UNCHANGED attempt

\* (mutant) the abort is not looked at
RethrowBlindly(h, n) ==
  /\ TouchBus
  /\ Report(h, n, Retry(h))

\* rethrow(): a hop of an aborted turn is not retried.  The turn's bus is
\* looked up again, which creates one if endTurn has already disposed of it.
Rethrow(h, n) ==
  /\ TouchBus
  /\ Report(h, n, IF aborted[TurnBusOf] THEN "failed" ELSE Retry(h))

\* (mutant) the hop listens to Temporal only
FiredByTemporal(ctx, sig) == ctx

\* hopSignal(): Temporal's cancellation or the barge-in abort, whichever first.
Fired(ctx, sig) == ctx \/ (sig # NoBus /\ aborted[sig])

\* The abort listener of the STT and TTS sockets closed the socket.
SttCut    == Fired(stt.ctx, stt.bus) /\ ~stt.deaf
TtsCut(n) == Fired(tts[n].ctx, tts[n].sig) /\ ~tts[n].deaf

-----------------------------------------------------------------------------
(* transcribe: caller audio to transcripts. *)

sttFrame == <<ingress, llm, tts, flowVars, crashed>>

\* An abort listener added to a signal that has already fired is never called.
StartTranscribe ==
  /\ Pickup("stt")
  /\ TouchBus
  /\ stt' = [SttOff EXCEPT !.pc = "connecting", !.bus = TurnBusOf,
                           !.deaf = aborted[TurnBusOf]]
  /\ UNCHANGED <<transcripts, sentences, lang, aborted, sttFrame>>

TranscribeOpens ==
  /\ stt.pc = "connecting"
  /\ ~SttCut
  /\ stt' = [stt EXCEPT !.pc = "listening"]
  /\ UNCHANGED <<busVars, sttFrame, act, attempt>>

\* A transcript message before the flush.  Its language may still be unknown.
TranscribePartial ==
  /\ stt.pc = "listening"
  /\ ~stt.flushed
  /\ audio
  /\ stt.text < MaxText
  /\ stt' = [stt EXCEPT !.text = stt.text + 1]
  /\ transcripts' = [transcripts EXCEPT ![stt.bus] =
                       Push(@, [text |-> stt.text + 1, final |-> FALSE])]
  /\ \E known \in BOOLEAN : lang' = [lang EXCEPT ![stt.bus] = @ \/ known]
  /\ UNCHANGED <<busMap, born, sentences, aborted, sttFrame, act, attempt>>

\* The audio queue ended, so the pump flushes.
TranscribeFlush ==
  /\ stt.pc = "listening"
  /\ ~stt.flushed
  /\ queue = "closed"
  /\ ~SttCut
  /\ stt' = [stt EXCEPT !.flushed = TRUE]
  /\ UNCHANGED <<busVars, sttFrame, act, attempt>>

\* The first message after the flush, or the socket's close, is the final one.
TranscribeFinal ==
  /\ stt.pc = "listening"
  /\ \E text \in {stt.text} \cup {m \in {stt.text + 1} : audio /\ stt.flushed /\ m <= MaxText} :
       /\ text = stt.text => /\ stt.flushed \/ "sttFault" \in Hazards
                             /\ ~SttCut
       /\ stt' = [stt EXCEPT !.pc = "drainOk", !.text = text]
       /\ transcripts' = [transcripts EXCEPT ![stt.bus] =
                            Push(@, [text |-> text, final |-> TRUE])]
       /\ \E known \in {FALSE, text > stt.text} :
            lang' = [lang EXCEPT ![stt.bus] = @ \/ known]
  /\ UNCHANGED <<busMap, born, sentences, aborted, sttFrame, act, attempt>>

\* The stream throws.  A socket that never opened leaves no pump to wait for.
TranscribeError ==
  /\ stt.pc \in {"connecting", "listening"}
  /\ "sttFault" \in Hazards \/ SttCut
  /\ IF stt.pc = "connecting"
       THEN /\ stt' = [stt EXCEPT !.pc = "storeErr"]
            /\ transcripts' = [transcripts EXCEPT ![stt.bus] = Fail(@)]
       ELSE /\ stt' = [stt EXCEPT !.pc = "drainErr"]
            /\ UNCHANGED transcripts
  /\ UNCHANGED <<busMap, born, sentences, lang, aborted, sttFrame, act, attempt>>

\* The pump ends on its next frame, or at the end of the queue.
SttPumpDone == queue = "closed" \/ mic = "open"

TranscribeDrained ==
  /\ SttPumpDone
  /\ \/ /\ stt.pc = "drainOk"
        /\ stt' = [stt EXCEPT !.pc = "storeOk"]
        /\ lang' = [lang EXCEPT ![stt.bus] = TRUE]
        /\ transcripts' = [transcripts EXCEPT ![stt.bus] = Close(@)]
     \/ /\ stt.pc = "drainErr"
        /\ stt' = [stt EXCEPT !.pc = "storeErr"]
        /\ transcripts' = [transcripts EXCEPT ![stt.bus] = Fail(@)]
        /\ UNCHANGED lang
  /\ UNCHANGED <<busMap, born, sentences, aborted, sttFrame, act, attempt>>

\* The audio is stored, the trace emitted, and the activity returns or throws.
TranscribeStored ==
  /\ \/ /\ stt.pc = "storeOk"
        /\ stt' = [stt EXCEPT !.pc = "doneOk"]
        /\ Report("stt", 1, "completed")
        /\ UNCHANGED <<busMap, born>>
     \/ /\ stt.pc = "storeErr"
        /\ stt' = [stt EXCEPT !.pc = "doneErr"]
        /\ Rethrow("stt", 1)
  /\ UNCHANGED <<transcripts, sentences, lang, aborted, sttFrame>>

-----------------------------------------------------------------------------
(* respond: transcripts to sentences. *)

llmFrame == <<ingress, stt, tts, flowVars, crashed>>

StartRespond ==
  /\ Pickup("llm")
  /\ TouchBus
  /\ llm' = [llm EXCEPT ![attempt["llm"] + 1] =
              [LlmOff EXCEPT !.pc = "waiting", !.bus = TurnBusOf, !.late = torn]]
  /\ UNCHANGED <<transcripts, sentences, lang, aborted, llmFrame>>

\* (mutant) any transcript ends the wait
LeavesAtOnce(item) == TRUE

\* Which transcript ends respond's wait.
LeavesLoop(item) == item.final

\* The next transcript off the bus; the loop leaves at the final one.
RespondReads(n) ==
  /\ llm[n].pc = "waiting"
  /\ HasNext(transcripts[llm[n].bus], llm[n].cur)
  /\ LET item == transcripts[llm[n].bus].items[llm[n].cur + 1]
     IN llm' = [llm EXCEPT ![n] =
                 [@ EXCEPT !.cur = llm[n].cur + 1, !.prompt = item.text, !.final = item.final,
                           !.pc = IF LeavesLoop(item) THEN "awaitLang" ELSE "waiting"]]
  /\ UNCHANGED <<busVars, llmFrame, act, attempt>>

\* The channel closed with no final transcript: the loop just ends.
RespondInputEnds(n) ==
  /\ llm[n].pc = "waiting"
  /\ Ended(transcripts[llm[n].bus], llm[n].cur)
  /\ llm' = [llm EXCEPT ![n].pc = "awaitLang"]
  /\ UNCHANGED <<busVars, llmFrame, act, attempt>>

\* Both catch blocks of respond.
RespondThrows(n) ==
  /\ llm' = [llm EXCEPT ![n].pc = "doneErr"]
  /\ sentences' = [sentences EXCEPT ![llm[n].bus] = Fail(@)]
  /\ Rethrow("llm", n)
  /\ UNCHANGED <<transcripts, lang, aborted, llmFrame>>

RespondInputFails(n) ==
  /\ llm[n].pc = "waiting"
  /\ Failed(transcripts[llm[n].bus], llm[n].cur)
  /\ RespondThrows(n)

\* Nothing intelligible was said: no generation, and the hop succeeds.
RespondToNothing(n) ==
  /\ llm[n].pc = "awaitLang"
  /\ lang[llm[n].bus]
  /\ llm[n].prompt = 0
  /\ llm' = [llm EXCEPT ![n].pc = "doneOk"]
  /\ sentences' = [sentences EXCEPT ![llm[n].bus] = Close(@)]
  /\ Report("llm", n, "completed")
  /\ UNCHANGED <<busMap, born, transcripts, lang, aborted, llmFrame>>

RespondAsks(n) ==
  /\ llm[n].pc = "awaitLang"
  /\ lang[llm[n].bus]
  /\ llm[n].prompt > 0
  /\ ~Fired(llm[n].ctx, TurnBusOf)
  /\ TouchBus
  /\ llm' = [llm EXCEPT ![n] = [@ EXCEPT !.pc = "generating", !.sig = TurnBusOf]]
  /\ UNCHANGED <<transcripts, sentences, lang, aborted, llmFrame, act, attempt>>

\* The request is refused at once: its signal has already fired.
RespondRefused(n) ==
  /\ llm[n].pc = "awaitLang"
  /\ lang[llm[n].bus]
  /\ llm[n].prompt > 0
  /\ Fired(llm[n].ctx, TurnBusOf)
  /\ RespondThrows(n)

RespondSentence(n) ==
  /\ llm[n].pc = "generating"
  /\ llm[n].wrote < MaxSentences
  /\ llm' = [llm EXCEPT ![n].wrote = llm[n].wrote + 1]
  /\ sentences' = [sentences EXCEPT ![llm[n].bus] =
                    Push(@, [by |-> n, nth |-> llm[n].wrote + 1])]
  /\ UNCHANGED <<busMap, born, transcripts, lang, aborted, llmFrame, act, attempt>>

\* [DONE], the end of the body, or an abort that the body's reader notices.
RespondCompletes(n) ==
  /\ llm[n].pc = "generating"
  /\ llm' = [llm EXCEPT ![n].pc = "doneOk"]
  /\ sentences' = [sentences EXCEPT ![llm[n].bus] = Close(@)]
  /\ Report("llm", n, "completed")
  /\ UNCHANGED <<busMap, born, transcripts, lang, aborted, llmFrame>>

RespondFails(n) ==
  /\ llm[n].pc = "generating"
  /\ "llmFault" \in Hazards \/ Fired(llm[n].ctx, llm[n].sig)
  /\ RespondThrows(n)

-----------------------------------------------------------------------------
(* synthesize: sentences to caller audio. *)

ttsFrame == <<ingress, stt, llm, flowVars, crashed>>

StartSynthesize ==
  /\ Pickup("tts")
  /\ TouchBus
  /\ tts' = [tts EXCEPT ![attempt["tts"] + 1] =
              [TtsOff EXCEPT !.pc = "awaitLang", !.bus = TurnBusOf, !.late = torn]]
  /\ UNCHANGED <<transcripts, sentences, lang, aborted, ttsFrame>>

\* The language resolves; the socket is created and wired to the hop signal.
SynthesizeConnects(n) ==
  /\ tts[n].pc = "awaitLang"
  /\ lang[tts[n].bus]
  /\ TouchBus
  /\ tts' = [tts EXCEPT ![n] = [@ EXCEPT !.pc = "connecting", !.sig = TurnBusOf,
                                           !.deaf = Fired(tts[n].ctx, TurnBusOf)]]
  /\ UNCHANGED <<transcripts, sentences, lang, aborted, ttsFrame, act, attempt>>

SynthesizeOpens(n) ==
  /\ tts[n].pc = "connecting"
  /\ ~TtsCut(n)
  /\ tts' = [tts EXCEPT ![n].pc = "speaking"]
  /\ UNCHANGED <<busVars, ttsFrame, act, attempt>>

\* The pump hands the next sentence to Bulbul.
SynthesizeSends(n) ==
  /\ tts[n].pc = "speaking"
  /\ HasNext(sentences[tts[n].bus], tts[n].cur)
  /\ ~TtsCut(n)
  /\ tts' = [tts EXCEPT ![n].cur = tts[n].cur + 1]
  /\ UNCHANGED <<busVars, ttsFrame, act, attempt>>

\* The reply is complete: flush, and start waiting for quiet.
SynthesizeFlush(n) ==
  /\ tts[n].pc = "speaking"
  /\ Ended(sentences[tts[n].bus], tts[n].cur)
  /\ ~TtsCut(n)
  /\ tts' = [tts EXCEPT ![n].pc = "tail"]
  /\ UNCHANGED <<busVars, ttsFrame, act, attempt>>

SynthesizeInputFails(n) ==
  /\ tts[n].pc = "speaking"
  /\ Failed(sentences[tts[n].bus], tts[n].cur)
  /\ tts' = [tts EXCEPT ![n].pc = "storeErr"]
  /\ UNCHANGED <<busVars, ttsFrame, act, attempt>>

\* Audio of the next sentence arrives and goes straight to the caller.
SynthesizeChunk(n) ==
  /\ tts[n].pc \in {"speaking", "tail"}
  /\ tts[n].voiced < tts[n].cur
  /\ tts' = [tts EXCEPT ![n].voiced = tts[n].voiced + 1]
  /\ UNCHANGED <<busVars, ttsFrame, act, attempt>>

\* TAIL_QUIET_MS without a message ends the stream, spoken or not.
SynthesizeQuiet(n) ==
  /\ tts[n].pc = "tail"
  /\ ~TtsCut(n)
  /\ tts' = [tts EXCEPT ![n].pc = "storeOk"]
  /\ UNCHANGED <<busVars, ttsFrame, act, attempt>>

\* Bulbul closes the socket early: a clean end of the stream, to the adapter.
SynthesizeSocketCloses(n) ==
  /\ tts[n].pc = "speaking"
  /\ "ttsFault" \in Hazards
  /\ ~TtsCut(n)
  /\ tts' = [tts EXCEPT ![n].pc = "drainOk"]
  /\ UNCHANGED <<busVars, ttsFrame, act, attempt>>

SynthesizeError(n) ==
  /\ tts[n].pc \in {"connecting", "speaking", "tail"}
  /\ "ttsFault" \in Hazards \/ TtsCut(n)
  /\ tts' = [tts EXCEPT ![n].pc = IF tts[n].pc = "speaking" THEN "drainErr" ELSE "storeErr"]
  /\ UNCHANGED <<busVars, ttsFrame, act, attempt>>

\* The pump wakes on the next sentence, or on the end or failure of the reply.
SynthesizeDrained(n) ==
  /\ tts[n].pc \in {"drainOk", "drainErr"}
  /\ \/ HasNext(sentences[tts[n].bus], tts[n].cur)
     \/ sentences[tts[n].bus].state # "open"
  /\ tts' = [tts EXCEPT ![n].pc = IF tts[n].pc = "drainOk" THEN "storeOk" ELSE "storeErr"]
  /\ UNCHANGED <<busVars, ttsFrame, act, attempt>>

\* (mutant) a failed hop is always offered for a retry
NeverRefuses(n) == FALSE

\* synthesize's own refusal: the caller has heard part of the reply.
RefusesRetry(n) == tts[n].voiced > 0 /\ ~aborted[TurnBusOf]

\* The audio is stored, the trace emitted, and the activity returns or throws;
\* a hop the caller has heard refuses its own retry.
SynthesizeStored(n) ==
  /\ \/ /\ tts[n].pc = "storeOk"
        /\ tts' = [tts EXCEPT ![n].pc = "doneOk"]
        /\ Report("tts", n, "completed")
        /\ UNCHANGED <<busMap, born>>
     \/ /\ tts[n].pc = "storeErr"
        /\ tts' = [tts EXCEPT ![n].pc = "doneErr"]
        /\ IF RefusesRetry(n)
             THEN TouchBus /\ Report("tts", n, "failed")
             ELSE Rethrow("tts", n)
  /\ UNCHANGED <<transcripts, sentences, lang, aborted, ttsFrame>>

-----------------------------------------------------------------------------
(* The gateway's frames, as the worker's onFrame handles them. *)

gatewayFrame == <<hopVars, wf, torn, crashed>>

\* discard(): the queue transcribe already holds is closed; if it holds none,
\* whoever asks next is handed a new one, with none of the audio so far.
Discard ==
  /\ queue' = IF stt.pc = "off" THEN "open" ELSE "closed"
  /\ audio' = ((audio /\ stt.pc # "off") \/ mic' = "open")

\* The VAD endpoint: audio_end closes the queue and drops it from the map, so
\* a transcribe that has yet to start is handed an empty, closed one.
AudioEnd ==
  /\ mic = "open"
  /\ mic' = "ended"
  /\ \/ /\ queue' = "closed"
        /\ audio' = (audio /\ stt.pc # "off")
     \/ /\ "lossy" \in Hazards
        /\ UNCHANGED <<queue, audio>>
  /\ UNCHANGED <<busVars, gatewayFrame, cancelRequested, act, attempt>>

\* Barge-in or hang-up: the gateway drops the turn and sends one cancel frame.
\* cancelTurn() does nothing when no activity has created the bus yet.
BargeIn ==
  /\ "bargeIn" \in Hazards
  /\ mic # "dropped"
  /\ mic' = "dropped"
  /\ \/ /\ aborted' = [b \in Bus |-> aborted[b] \/ b = busMap]
        /\ Discard
     \/ /\ "lossy" \in Hazards
        /\ UNCHANGED <<aborted, queue, audio>>
  /\ UNCHANGED <<busMap, born, transcripts, sentences, lang, gatewayFrame,
                 cancelRequested, act, attempt>>

\* handle.cancel(), behind the frame: activities not yet picked up are
\* cancelled, the running ones have to be reached (TemporalCancels).
CancelWorkflow ==
  /\ mic = "dropped"
  /\ wf # "closed"
  /\ ~cancelRequested
  /\ cancelRequested' = TRUE
  /\ act' = [h \in Hop |-> IF act[h] = "scheduled" THEN "cancelled" ELSE act[h]]
  /\ UNCHANGED <<busVars, ingress, gatewayFrame, attempt>>

-----------------------------------------------------------------------------
(* Temporal and the workflow. *)

\* Temporal has no more use for attempt n of h: cancelled, timed out, or its
\* workflow is over.
Unwanted(h, n) ==
  cancelRequested \/ wf = "closed" \/ act[h] # "started" \/ attempt[h] # n

\* The attempt's own cancellationSignal fires.  Left out where no listener is,
\* or ever will be, there to hear it.
TemporalCancels ==
  /\ \/ /\ stt.pc \in {"connecting", "listening"} /\ ~stt.deaf
        /\ ~stt.ctx /\ Unwanted("stt", 1)
        /\ stt' = [stt EXCEPT !.ctx = TRUE]
        /\ UNCHANGED <<llm, tts>>
     \/ \E n \in RespondAttempt :
        /\ llm[n].pc \in {"waiting", "awaitLang", "generating"}
        /\ ~llm[n].ctx /\ Unwanted("llm", n)
        /\ llm' = [llm EXCEPT ![n].ctx = TRUE]
        /\ UNCHANGED <<stt, tts>>
     \/ \E n \in SynthesizeAttempt :
        /\ tts[n].pc \in {"awaitLang", "connecting", "speaking", "tail"} /\ ~tts[n].deaf
        /\ ~tts[n].ctx /\ Unwanted("tts", n)
        /\ tts' = [tts EXCEPT ![n].ctx = TRUE]
        /\ UNCHANGED <<stt, llm>>
  /\ UNCHANGED <<busVars, ingress, flowVars, act, attempt, crashed>>

ClockHazard(h) == CASE h = "stt" -> "sttTimeout"
                    [] h = "llm" -> "llmTimeout"
                    [] h = "tts" -> "ttsTimeout"

\* (mutant) only transcribe has a clock
TimeOutSttOnly(h) ==
  /\ ClockHazard(h) \in Hazards
  /\ wf # "closed"
  /\ h = "stt"
  /\ act[h] = "started"
  /\ act' = [act EXCEPT ![h] = Retry(h)]
  /\ UNCHANGED <<busVars, ingress, hopVars, flowVars, attempt, crashed>>

\* startToCloseTimeout or heartbeatTimeout.  The attempt's code runs on.
TimeOut(h) ==
  /\ ClockHazard(h) \in Hazards
  /\ wf # "closed"
  /\ act[h] = "started"
  /\ act' = [act EXCEPT ![h] = Retry(h)]
  /\ UNCHANGED <<busVars, ingress, hopVars, flowVars, attempt, crashed>>

\* Promise.all settles: all three hops, or the first that did not succeed.
Settle ==
  /\ wf = "running"
  /\ \/ \A h \in Hop : act[h] = "completed"
     \/ \E h \in Hop : act[h] \in {"failed", "cancelled"}
  /\ wf' = "ending"
  /\ UNCHANGED <<busVars, ingress, hopVars, act, attempt, torn, cancelRequested, crashed>>

\* Both channels of the bus in the map end, which wakes whoever waits on them.
CloseTurnBus ==
  /\ transcripts' = [b \in Bus |-> IF b = busMap THEN Close(transcripts[b]) ELSE transcripts[b]]
  /\ sentences' = [b \in Bus |-> IF b = busMap THEN Close(sentences[b]) ELSE sentences[b]]

\* (mutant) the map keeps the bus
LeavesTurnBus == CloseTurnBus /\ UNCHANGED busMap

DisposeTurnBus == CloseTurnBus /\ busMap' = NoBus

\* endTurn, the activity: disposeTurnBus and discard.
EndTurn ==
  /\ wf = "ending"
  /\ ~torn
  /\ torn' = TRUE
  /\ DisposeTurnBus
  /\ UNCHANGED mic
  /\ Discard
  /\ UNCHANGED <<born, lang, aborted, hopVars, act, attempt, wf, cancelRequested, crashed>>

\* The workflow returns or throws, once endTurn has run or has timed out.
CloseWorkflow ==
  /\ wf = "ending"
  /\ torn \/ "endTimeout" \in Hazards
  /\ wf' = "closed"
  /\ UNCHANGED <<busVars, ingress, hopVars, act, attempt, torn, cancelRequested, crashed>>

\* The worker process dies: every attempt and everything in memory is gone.
Dead(a) == IF a.pc \in Finished THEN a ELSE [a EXCEPT !.pc = "dead"]

Crash ==
  /\ "crash" \in Hazards
  /\ ~crashed
  /\ crashed' = TRUE
  /\ busMap' = NoBus
  /\ born' = 0
  /\ transcripts' = [b \in Bus |-> EmptyChannel]
  /\ sentences' = [b \in Bus |-> EmptyChannel]
  /\ lang' = [b \in Bus |-> FALSE]
  /\ aborted' = [b \in Bus |-> FALSE]
  /\ queue' = "open"
  /\ audio' = (mic = "open")
  /\ stt' = Dead(stt)
  /\ llm' = [n \in RespondAttempt |-> Dead(llm[n])]
  /\ tts' = [n \in SynthesizeAttempt |-> Dead(tts[n])]
  /\ UNCHANGED <<mic, flowVars, act, attempt>>

-----------------------------------------------------------------------------
Transcribe ==
  \/ StartTranscribe \/ TranscribeOpens \/ TranscribePartial \/ TranscribeFlush
  \/ TranscribeFinal \/ TranscribeError \/ TranscribeDrained \/ TranscribeStored

Respond(n) ==
  \/ RespondReads(n) \/ RespondInputEnds(n) \/ RespondInputFails(n)
  \/ RespondToNothing(n) \/ RespondAsks(n) \/ RespondRefused(n) \/ RespondSentence(n)
  \/ RespondCompletes(n) \/ RespondFails(n)

Synthesize(n) ==
  \/ SynthesizeConnects(n) \/ SynthesizeOpens(n) \/ SynthesizeSends(n)
  \/ SynthesizeFlush(n) \/ SynthesizeInputFails(n) \/ SynthesizeChunk(n)
  \/ SynthesizeQuiet(n) \/ SynthesizeSocketCloses(n) \/ SynthesizeError(n)
  \/ SynthesizeDrained(n) \/ SynthesizeStored(n)

Next ==
  \/ Transcribe
  \/ StartRespond \/ \E n \in RespondAttempt : Respond(n)
  \/ StartSynthesize \/ \E n \in SynthesizeAttempt : Synthesize(n)
  \/ AudioEnd \/ BargeIn \/ CancelWorkflow
  \/ TemporalCancels \/ \E h \in Hop : TimeOut(h)
  \/ Settle \/ EndTurn \/ CloseWorkflow \/ Crash

Spec == Init /\ [][Next]_vars

\* The worker's code, Temporal's server, and the workflow keep going; Sarvam
\* answers or fails; the caller's utterance ends.  Barge-in, faults, a crash and
\* the delivery of Temporal's cancellation are never owed.
Fairness ==
  /\ WF_vars(Transcribe)
  /\ WF_vars(StartRespond) /\ \A n \in RespondAttempt : WF_vars(Respond(n))
  /\ WF_vars(StartSynthesize) /\ \A n \in SynthesizeAttempt : WF_vars(Synthesize(n))
  /\ WF_vars(AudioEnd) /\ WF_vars(CancelWorkflow)
  /\ \A h \in Hop : WF_vars(TimeOut(h))
  /\ WF_vars(Settle) /\ WF_vars(EndTurn) /\ WF_vars(CloseWorkflow)

FairSpec == Spec /\ Fairness

-----------------------------------------------------------------------------
(* Safety. *)

\* The bus never mixes replies: what any bus holds for synthesize to speak is
\* the beginning, in order, of one reply by one attempt of respond, however many
\* attempts there were (bus.ts, a failed channel takes no more items).
OneReply ==
  \A b \in Bus : \E n \in RespondAttempt :
    \A i \in 1..Len(sentences[b].items) : sentences[b].items[i] = [by |-> n, nth |-> i]

\* The caller never hears two attempts at the same reply (the refusal at the end
\* of synthesize, and workflows.ts on its retry policy).
SpokenOnce ==
  \A m, n \in SynthesizeAttempt : tts[m].voiced > 0 /\ tts[n].voiced > 0 => m = n

\* When all three hops succeeded, the model was asked about everything
\* transcribe returned, not about an earlier partial of it, whatever was
\* retried, timed out or replayed on the way.
AnswersWhatWasSaid ==
  (\A h \in Hop : act[h] = "completed") =>
    attempt["llm"] > 0 /\ llm[attempt["llm"]].prompt = stt.text

\* When all three hops succeeded and Bulbul did not cut its stream, everything
\* the model wrote was handed to it, in the attempt that succeeded.
SpeaksWholeReply ==
  (\A h \in Hop : act[h] = "completed") =>
    tts[attempt["tts"]].cur = llm[attempt["llm"]].wrote

\* Nobody answers, or is talked over, once the caller has moved on.  A hop of a turn
\* that barge-in has reached is granted a retry only when endTurn is done with the
\* turn: rethrow() then finds a new bus, which no barge-in has aborted.  And no attempt
\* of respond or synthesize that is picked up behind endTurn, such a retry or any other,
\* ever has a transcript to answer or a language to speak: it opens no socket and waits
\* until its clock ends it (rethrow, disposeTurnBus, and the two channels' waits).
LateHopsStaySilent ==
  /\ [][\A h \in Hop : act[h] = "started" /\ act'[h] = "scheduled"
                      => torn \/ \A b \in Bus : ~aborted[b]]_vars
  /\ [](\A n \in RespondAttempt : llm[n].late => llm[n].pc \in {"waiting", "dead"})
  /\ [](\A n \in SynthesizeAttempt : tts[n].late => tts[n].pc \in {"awaitLang", "dead"})

-----------------------------------------------------------------------------
(* Liveness. *)

\* Every turn's workflow closes: no hop can hold it open for ever.
TurnEnds == <>(wf = "closed")

\* The hops wait for one another on the bus, and none waits for ever: once
\* transcribe's audio has ended, every attempt that shares the turn's bus comes to
\* its end whatever the model does, unless the caller cuts the turn off
\* (the channels' close and fail in activities.ts, and endTurn).  An attempt that
\* is picked up after endTurn has a bus of its own, and nobody to end its wait.
HopsEndWithTheAudio ==
  LET Waiting(a) == a.bus = 1 /\ mic = "ended" /\ queue = "closed"
      Ends(a)    == a.pc \in Finished \/ mic = "dropped"
  IN /\ Waiting(stt) ~> Ends(stt)
     /\ \A n \in RespondAttempt : Waiting(llm[n]) ~> Ends(llm[n])
     /\ \A n \in SynthesizeAttempt : Waiting(tts[n]) ~> Ends(tts[n])

\* A cancel frame alone, with no help from Temporal, silences a synthesize whose
\* socket was wired to the signal before it fired, also when respond never comes
\* to end the reply it is reading (hopSignal, and the abort listener of tts.ts).
\* It may then wait for that reply in its `finally`, with no socket.
BargeInStopsSpeech ==
  \A n \in SynthesizeAttempt :
    (tts[n].sig # NoBus /\ ~tts[n].deaf /\ aborted[tts[n].sig])
      ~> (tts[n].pc \notin {"connecting", "speaking", "tail"})
=============================================================================
