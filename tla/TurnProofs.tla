----------------------------- MODULE TurnProofs -----------------------------
(***************************************************************************)
(* Proofs about one turn, for every number of attempts, transcripts and    *)
(* sentences: type correctness, and then what a turn promises the caller.  *)
(* The caller hears one attempt at the reply, the bus never mixes two      *)
(* replies, late hops stay silent, the model is asked about all that was   *)
(* said, and all that it wrote is spoken.  A promise that a hazard can     *)
(* break names that hazard in its assumption; the runs show it breaking.   *)
(* At the end, what the splitter makes of any reply, in any tokens.        *)
(***************************************************************************)
EXTENDS MCTurn, FiniteSetTheorems, WellFoundedInduction, TLAPS

-----------------------------------------------------------------------------
(* The operations of a channel keep it a channel. *)

LEMMA ChannelOps ==
  ASSUME NEW Item, NEW c \in Channel(Item), NEW item \in Item
  PROVE  /\ Push(c, item) \in Channel(Item)
         /\ Close(c) \in Channel(Item)
         /\ Fail(c) \in Channel(Item)
  BY DEF Channel, ChannelState, Push, Close, Fail

LEMMA ChannelEnds ==
  ASSUME NEW Item, NEW c \in Channel(Item)
  PROVE  /\ Close(c) \in Channel(Item)
         /\ Fail(c) \in Channel(Item)
  BY DEF Channel, ChannelState, Close, Fail

LEMMA EmptyIsChannel ==
  ASSUME NEW Item
  PROVE  EmptyChannel \in Channel(Item)
  BY DEF Channel, ChannelState, EmptyChannel

-----------------------------------------------------------------------------
(* Type correctness.  TypeOK is not inductive alone: that the map creates no *)
(* third bus rests on when the map can be empty, and reading a channel rests *)
(* on a started attempt holding a bus.                                       *)

BusInv ==
  IF torn THEN busMap = NoBus => born <= 1
          ELSE busMap = born /\ born <= 1

RefInv ==
  /\ stt.pc # "off" => stt.bus \in Bus
  /\ \A n \in RespondAttempt : llm[n].pc # "off" => llm[n].bus \in Bus
  /\ \A n \in SynthesizeAttempt : tts[n].pc # "off" => tts[n].bus \in Bus

TypeInv == TypeOK /\ BusInv /\ RefInv

LEMMA InitTypeInv == Init => TypeInv
  <1> SUFFICES ASSUME Init PROVE TypeInv
    OBVIOUS
  <1>1. EmptyChannel \in Channel(Transcript) /\ EmptyChannel \in Channel(Sentence)
    BY EmptyIsChannel
  <1>2. TypeOK
    BY <1>1 DEF Init, TypeOK, Bus, NoBus, Hop, ActState, SttOff, LlmOff, TtsOff,
       SttPC, LlmPC, TtsPC, SttAttempt, LlmAttempt, TtsAttempt
  <1>3. BusInv /\ RefInv
    BY DEF Init, BusInv, RefInv, NoBus, SttOff, LlmOff, TtsOff
  <1> QED BY <1>2, <1>3 DEF TypeInv

\* A lookup of the bus finds or makes one of the two.
LEMMA BusLookup ==
  ASSUME TypeInv
  PROVE  /\ TurnBusOf \in Bus
         /\ TouchBus => /\ busMap' \in {NoBus} \cup Bus
                        /\ born' \in {0} \cup Bus
                        /\ torn' = torn => BusInv'
  BY DEF TypeInv, TypeOK, BusInv, TurnBusOf, TouchBus, Bus, NoBus

LEMMA ReportType ==
  ASSUME TypeInv, NEW h \in Hop, NEW n, NEW outcome \in ActState, Report(h, n, outcome)
  PROVE  act' \in [Hop -> ActState] /\ attempt' \in [Hop -> Nat]
  BY DEF TypeInv, TypeOK, Report

LEMMA RetryType ==
  ASSUME NEW h
  PROVE  Retry(h) \in ActState
  BY DEF Retry, ActState

LEMMA RethrowType ==
  ASSUME TypeInv, NEW h \in Hop, NEW n, Rethrow(h, n)
  PROVE  /\ busMap' \in {NoBus} \cup Bus
         /\ born' \in {0} \cup Bus
         /\ torn' = torn => BusInv'
         /\ act' \in [Hop -> ActState] /\ attempt' \in [Hop -> Nat]
  <1>1. (IF aborted[TurnBusOf] THEN "failed" ELSE Retry(h)) \in ActState
    BY RetryType DEF ActState
  <1> QED BY <1>1, BusLookup, ReportType DEF Rethrow

LEMMA PickupType ==
  ASSUME TypeInv, NEW h \in Hop, Pickup(h)
  PROVE  /\ act' \in [Hop -> ActState] /\ attempt' \in [Hop -> Nat]
         /\ attempt[h] + 1 \in Nat /\ attempt[h] + 1 <= MaxAttempts(h)
  <1>1. attempt[h] < MaxAttempts(h) /\ attempt[h] \in Nat
    BY DEF TypeInv, TypeOK, Pickup
  <1>2. MaxAttempts(h) \in Nat
    BY TurnConstants DEF MaxAttempts, Hop
  <1>3. act' \in [Hop -> ActState] /\ attempt' \in [Hop -> Nat]
    BY <1>1 DEF TypeInv, TypeOK, Pickup, ActState
  <1> QED BY <1>1, <1>2, <1>3

-----------------------------------------------------------------------------
(* Each attempt keeps its shape, and the bus it was handed, through its steps. *)

SttKept == stt' \in SttAttempt /\ (stt'.pc # "off" => stt'.bus \in Bus)
LlmKept == /\ llm' \in [RespondAttempt -> LlmAttempt]
           /\ \A n \in RespondAttempt : llm'[n].pc # "off" => llm'[n].bus \in Bus
TtsKept == /\ tts' \in [SynthesizeAttempt -> TtsAttempt]
           /\ \A n \in SynthesizeAttempt : tts'[n].pc # "off" => tts'[n].bus \in Bus
MapKept == busMap' \in {NoBus} \cup Bus /\ born' \in {0} \cup Bus /\ BusInv'
ActKept == act' \in [Hop -> ActState] /\ attempt' \in [Hop -> Nat]

\* What is left alone keeps its type.
LEMMA Unmoved ==
  ASSUME TypeInv
  PROVE  /\ UNCHANGED stt => SttKept
         /\ UNCHANGED llm => LlmKept
         /\ UNCHANGED tts => TtsKept
         /\ UNCHANGED <<busMap, born, torn>> => MapKept
         /\ UNCHANGED <<act, attempt>> => ActKept
         /\ UNCHANGED transcripts => transcripts' \in [Bus -> Channel(Transcript)]
         /\ UNCHANGED sentences => sentences' \in [Bus -> Channel(Sentence)]
         /\ UNCHANGED lang => lang' \in [Bus -> BOOLEAN]
         /\ UNCHANGED aborted => aborted' \in [Bus -> BOOLEAN]
  BY DEF TypeInv, TypeOK, RefInv, BusInv, SttKept, LlmKept, TtsKept, MapKept, ActKept

\* An attempt that moves to another program counter, and nothing else.
LEMMA SttMoves ==
  ASSUME TypeInv, stt.pc # "off", NEW pc \in SttPC, stt' = [stt EXCEPT !.pc = pc]
  PROVE  SttKept
  BY DEF TypeInv, TypeOK, RefInv, SttKept, SttAttempt

LEMMA LlmMoves ==
  ASSUME TypeInv, NEW n \in RespondAttempt, llm[n].pc # "off", NEW pc \in LlmPC,
         llm' = [llm EXCEPT ![n].pc = pc]
  PROVE  LlmKept
  <1>1. llm[n] \in LlmAttempt /\ llm[n].bus \in Bus
    BY DEF TypeInv, TypeOK, RefInv
  <1>2. PICK a : a = [llm[n] EXCEPT !.pc = pc]
    OBVIOUS
  <1>3. a \in LlmAttempt /\ a.bus \in Bus
    BY <1>1, <1>2 DEF LlmAttempt
  <1>4. llm' = [llm EXCEPT ![n] = a]
    BY <1>2 DEF TypeInv, TypeOK
  <1> QED BY <1>3, <1>4 DEF TypeInv, TypeOK, RefInv, LlmKept

LEMMA TtsMoves ==
  ASSUME TypeInv, NEW n \in SynthesizeAttempt, tts[n].pc # "off", NEW pc \in TtsPC,
         tts' = [tts EXCEPT ![n].pc = pc]
  PROVE  TtsKept
  BY DEF TypeInv, TypeOK, RefInv, TtsKept, TtsAttempt

\* An attempt that is replaced by another on a bus.
LEMMA LlmReplaced ==
  ASSUME TypeInv, NEW n \in RespondAttempt, NEW a \in LlmAttempt, a.bus \in Bus,
         llm' = [llm EXCEPT ![n] = a]
  PROVE  LlmKept
  BY DEF TypeInv, TypeOK, RefInv, LlmKept

LEMMA TtsReplaced ==
  ASSUME TypeInv, NEW n \in SynthesizeAttempt, NEW a \in TtsAttempt, a.bus \in Bus,
         tts' = [tts EXCEPT ![n] = a]
  PROVE  TtsKept
  BY DEF TypeInv, TypeOK, RefInv, TtsKept

LEMMA AttemptBounds ==
  /\ MaxAttempts("llm") = RespondAttempts
  /\ MaxAttempts("tts") = SynthesizeAttempts
  BY DEF MaxAttempts

\* A crash leaves an attempt its fields.
LEMMA DeadAttempt ==
  /\ \A a \in SttAttempt : Dead(a) \in SttAttempt /\ Dead(a).bus = a.bus
                            /\ (Dead(a).pc = "off" <=> a.pc = "off")
  /\ \A a \in LlmAttempt : Dead(a) \in LlmAttempt /\ Dead(a).bus = a.bus
                            /\ (Dead(a).pc = "off" <=> a.pc = "off")
  /\ \A a \in TtsAttempt : Dead(a) \in TtsAttempt /\ Dead(a).bus = a.bus
                            /\ (Dead(a).pc = "off" <=> a.pc = "off")
  <1>1. \A a \in SttAttempt : Dead(a) \in SttAttempt /\ Dead(a).bus = a.bus
                            /\ (Dead(a).pc = "off" <=> a.pc = "off")
    BY DEF Dead, Finished, SttAttempt, SttPC
  <1>2. \A a \in LlmAttempt : Dead(a) \in LlmAttempt /\ Dead(a).bus = a.bus
                            /\ (Dead(a).pc = "off" <=> a.pc = "off")
    BY DEF Dead, Finished, LlmAttempt, LlmPC
  <1>3. \A a \in TtsAttempt : Dead(a) \in TtsAttempt /\ Dead(a).bus = a.bus
                            /\ (Dead(a).pc = "off" <=> a.pc = "off")
    BY DEF Dead, Finished, TtsAttempt, TtsPC
  <1> QED BY <1>1, <1>2, <1>3

-----------------------------------------------------------------------------
LEMMA TranscribeTypeInv ==
  ASSUME TypeInv, Transcribe
  PROVE  TypeInv'
  <1> USE DEF sttFrame, ingress, flowVars, busVars
  <1>1. CASE StartTranscribe
    <2>1. SttKept
      BY <1>1, BusLookup DEF StartTranscribe, SttKept, SttOff, SttAttempt, SttPC, TypeInv, TypeOK
    <2>2. ActKept
      BY <1>1, PickupType DEF StartTranscribe, Hop, ActKept
    <2>3. MapKept
      BY <1>1, BusLookup DEF StartTranscribe, MapKept
    <2> QED BY <1>1, <2>1, <2>2, <2>3
        DEF StartTranscribe, TypeInv, TypeOK, RefInv, SttKept, ActKept, MapKept
  <1>2. CASE TranscribeOpens
    <2>1. SttKept
      BY <1>2, SttMoves DEF TranscribeOpens, SttPC
    <2> QED BY <1>2, <2>1 DEF TranscribeOpens, TypeInv, TypeOK, RefInv, BusInv, SttKept
  <1>3. CASE TranscribePartial
    <2> DEFINE item == [text |-> stt.text + 1, final |-> FALSE]
    <2>1. item \in Transcript /\ stt.bus \in Bus /\ transcripts[stt.bus] \in Channel(Transcript)
      BY <1>3 DEF TranscribePartial, TypeInv, TypeOK, RefInv, Transcript, SttAttempt
    <2>2. Push(transcripts[stt.bus], item) \in Channel(Transcript)
      BY <2>1, ChannelOps
    <2>3. transcripts' \in [Bus -> Channel(Transcript)]
      BY <1>3, <2>1, <2>2 DEF TranscribePartial, TypeInv, TypeOK
    <2>4. lang' \in [Bus -> BOOLEAN]
      BY <1>3 DEF TranscribePartial, TypeInv, TypeOK
    <2>5. SttKept
      BY <1>3 DEF TranscribePartial, TypeInv, TypeOK, RefInv, SttKept, SttAttempt
    <2> QED BY <1>3, <2>3, <2>4, <2>5 
        DEF TranscribePartial, TypeInv, TypeOK, RefInv, BusInv, SttKept
  <1>4. CASE TranscribeFlush
    <2>1. SttKept
      BY <1>4 DEF TranscribeFlush, TypeInv, TypeOK, RefInv, SttKept, SttAttempt
    <2> QED BY <1>4, <2>1 DEF TranscribeFlush, TypeInv, TypeOK, RefInv, BusInv, SttKept
  <1>5. CASE TranscribeFinal
    <2>1. PICK text \in {stt.text} \cup {m \in {stt.text + 1} : audio /\ stt.flushed /\ m <= MaxText} :
             /\ stt' = [stt EXCEPT !.pc = "drainOk", !.text = text]
             /\ transcripts' = [transcripts EXCEPT ![stt.bus] =
                                  Push(@, [text |-> text, final |-> TRUE])]
             /\ \E known \in {FALSE, text > stt.text} :
                  lang' = [lang EXCEPT ![stt.bus] = @ \/ known]
      BY <1>5 DEF TranscribeFinal
    <2>2. stt.text \in Nat /\ stt.pc = "listening"
      BY <1>5 DEF TranscribeFinal, TypeInv, TypeOK, SttAttempt
    <2>3. text \in Nat
      BY <2>1, <2>2
    <2> DEFINE item == [text |-> text, final |-> TRUE]
    <2>4. item \in Transcript /\ stt.bus \in Bus /\ transcripts[stt.bus] \in Channel(Transcript)
      BY <2>2, <2>3 DEF TypeInv, TypeOK, RefInv, Transcript
    <2>5. Push(transcripts[stt.bus], item) \in Channel(Transcript)
      BY <2>4, ChannelOps
    <2>6. transcripts' \in [Bus -> Channel(Transcript)]
      BY <2>1, <2>4, <2>5 DEF TypeInv, TypeOK
    <2>7. (text > stt.text) \in BOOLEAN
      BY <2>2, <2>3
    <2>8. lang' \in [Bus -> BOOLEAN]
      BY <2>1, <2>7 DEF TypeInv, TypeOK
    <2>9. SttKept
      BY <2>1, <2>3, <2>4 DEF TypeInv, TypeOK, SttKept, SttAttempt, SttPC
    <2> QED BY <1>5, <2>6, <2>8, <2>9
        DEF TranscribeFinal, TypeInv, TypeOK, RefInv, BusInv, SttKept
  <1>6. CASE TranscribeError
    <2>1. stt.bus \in Bus /\ transcripts[stt.bus] \in Channel(Transcript)
      BY <1>6 DEF TranscribeError, TypeInv, TypeOK, RefInv
    <2>2. Fail(transcripts[stt.bus]) \in Channel(Transcript)
      BY <2>1, ChannelEnds
    <2>3. transcripts' \in [Bus -> Channel(Transcript)]
      BY <1>6, <2>1, <2>2 DEF TranscribeError, TypeInv, TypeOK
    <2>4. SttKept
      BY <1>6, SttMoves DEF TranscribeError, SttPC
    <2> QED BY <1>6, <2>3, <2>4 DEF TranscribeError, TypeInv, TypeOK, RefInv, BusInv, SttKept
  <1>7. CASE TranscribeDrained
    <2>1. stt.bus \in Bus /\ transcripts[stt.bus] \in Channel(Transcript)
      BY <1>7 DEF TranscribeDrained, TypeInv, TypeOK, RefInv
    <2>2. /\ Fail(transcripts[stt.bus]) \in Channel(Transcript)
          /\ Close(transcripts[stt.bus]) \in Channel(Transcript)
      BY <2>1, ChannelEnds
    <2>3. transcripts' \in [Bus -> Channel(Transcript)]
      BY <1>7, <2>1, <2>2 DEF TranscribeDrained, TypeInv, TypeOK
    <2>4. SttKept
      BY <1>7, SttMoves DEF TranscribeDrained, SttPC
    <2>5. lang' \in [Bus -> BOOLEAN]
      BY <1>7 DEF TranscribeDrained, TypeInv, TypeOK
    <2> QED BY <1>7, <2>3, <2>4, <2>5
        DEF TranscribeDrained, TypeInv, TypeOK, RefInv, BusInv, SttKept
  <1>8. CASE TranscribeStored
    <2>1. ActKept /\ MapKept
      <3>1. CASE stt.pc = "storeOk"
        BY <1>8, <3>1, ReportType, Unmoved DEF TranscribeStored, Hop, ActState, ActKept
      <3>2. CASE stt.pc = "storeErr"
        BY <1>8, <3>2, RethrowType DEF TranscribeStored, Hop, ActKept, MapKept
      <3> QED BY <1>8, <3>1, <3>2 DEF TranscribeStored
    <2>2. SttKept
      BY <1>8, SttMoves DEF TranscribeStored, SttPC
    <2> QED BY <1>8, <2>1, <2>2
        DEF TranscribeStored, TypeInv, TypeOK, RefInv, SttKept, ActKept, MapKept
  <1> QED BY <1>1, <1>2, <1>3, <1>4, <1>5, <1>6, <1>7, <1>8 DEF Transcribe

\* Respond's channel of sentences stays one, whatever it does to it.
LEMMA SentencesKept ==
  ASSUME TypeInv, NEW b \in Bus,
         NEW c, c \in {Fail(sentences[b]), Close(sentences[b])},
         sentences' = [sentences EXCEPT ![b] = c]
  PROVE  sentences' \in [Bus -> Channel(Sentence)]
  <1>1. sentences[b] \in Channel(Sentence)
    BY DEF TypeInv, TypeOK
  <1>2. c \in Channel(Sentence)
    BY <1>1, ChannelEnds
  <1> QED BY <1>2 DEF TypeInv, TypeOK

LEMMA StartRespondTypeInv ==
  ASSUME TypeInv, StartRespond
  PROVE  TypeInv'
  <1> USE DEF llmFrame, ingress, flowVars
  <1>0. Pickup("llm") /\ "llm" \in Hop
    BY DEF StartRespond, Hop
  <1>1. ActKept /\ attempt["llm"] + 1 \in RespondAttempt
    BY <1>0, PickupType, AttemptBounds, TurnConstants DEF ActKept, TypeInv, TypeOK, RespondAttempt
  <1>2. MapKept
    BY BusLookup DEF StartRespond, MapKept
  <1>3. [LlmOff EXCEPT !.pc = "waiting", !.bus = TurnBusOf, !.late = torn] \in LlmAttempt
    BY BusLookup DEF LlmOff, LlmAttempt, LlmPC, NoBus, TypeInv, TypeOK
  <1>4. LlmKept
    BY <1>1, <1>3, BusLookup DEF StartRespond, TypeInv, TypeOK, RefInv, LlmKept, LlmOff
  <1> QED BY <1>1, <1>2, <1>4
      DEF StartRespond, TypeInv, TypeOK, RefInv, LlmKept, ActKept, MapKept

LEMMA RespondThrowsTypeInv ==
  ASSUME TypeInv, NEW n \in RespondAttempt, llm[n].pc # "off", RespondThrows(n)
  PROVE  TypeInv'
  <1> USE DEF llmFrame, ingress, flowVars
  <1>1. LlmKept
    BY LlmMoves DEF RespondThrows, LlmPC
  <1>2. llm[n].bus \in Bus
    BY DEF TypeInv, RefInv
  <1>3. sentences' \in [Bus -> Channel(Sentence)]
    BY <1>2, SentencesKept DEF RespondThrows
  <1>4. ActKept /\ MapKept
    BY RethrowType DEF RespondThrows, Hop, ActKept, MapKept
  <1> QED BY <1>1, <1>3, <1>4
      DEF RespondThrows, TypeInv, TypeOK, RefInv, LlmKept, ActKept, MapKept

LEMMA RespondTypeInv ==
  ASSUME TypeInv, NEW n \in RespondAttempt, Respond(n)
  PROVE  TypeInv'
  <1> USE DEF llmFrame, ingress, flowVars, busVars
  <1>1. CASE RespondReads(n)
    <2> DEFINE item == transcripts[llm[n].bus].items[llm[n].cur + 1]
    <2>1. llm[n].bus \in Bus /\ llm[n] \in LlmAttempt /\ llm[n].cur \in Nat
      BY <1>1 DEF RespondReads, TypeInv, TypeOK, RefInv, LlmAttempt
    <2>2. transcripts[llm[n].bus] \in Channel(Transcript)
      BY <2>1 DEF TypeInv, TypeOK
    <2>3. item \in Transcript
      BY <1>1, <2>1, <2>2 DEF RespondReads, HasNext, Channel
    <2> DEFINE pc == IF LeavesLoop(item) THEN "awaitLang" ELSE "waiting"
    <2> DEFINE a == [llm[n] EXCEPT !.cur = llm[n].cur + 1, !.prompt = item.text,
                                   !.final = item.final, !.pc = pc]
    <2>4. item.text \in Nat /\ item.final \in BOOLEAN /\ pc \in LlmPC
      BY <2>3 DEF Transcript, LlmPC
    <2>5. llm' = [llm EXCEPT ![n] = a] /\ UNCHANGED <<busVars, llmFrame, act, attempt>>
      BY <1>1 DEF RespondReads
    <2>6. a \in LlmAttempt /\ a.bus = llm[n].bus
      <3> DEFINE cur == llm[n].cur + 1
                 text == item.text
                 final == item.final
      <3>1. a = [llm[n] EXCEPT !.cur = cur, !.prompt = text, !.final = final, !.pc = pc]
        OBVIOUS
      <3>2. cur \in Nat /\ text \in Nat /\ final \in BOOLEAN
        BY <2>1, <2>4
      <3> HIDE DEF item, pc, a, cur, text, final
      <3> QED BY <3>1, <3>2, <2>1, <2>4 DEF LlmAttempt
    <2>7. LlmKept
      <3> HIDE DEF a
      <3> QED BY <2>1, <2>5, <2>6, LlmReplaced
    <2> QED
      <3> HIDE DEF a
      <3> QED BY <2>5, <2>7 DEF TypeInv, TypeOK, RefInv, BusInv, LlmKept
  <1>2. CASE RespondInputEnds(n)
    <2>1. LlmKept
      BY <1>2, LlmMoves DEF RespondInputEnds, LlmPC
    <2> QED BY <1>2, <2>1 DEF RespondInputEnds, TypeInv, TypeOK, RefInv, BusInv, LlmKept
  <1>3. CASE RespondInputFails(n)
    BY <1>3, RespondThrowsTypeInv DEF RespondInputFails
  <1>4. CASE RespondToNothing(n)
    <2>1. LlmKept
      BY <1>4, LlmMoves DEF RespondToNothing, LlmPC
    <2>2. llm[n].bus \in Bus
      BY <1>4 DEF RespondToNothing, TypeInv, RefInv
    <2>3. sentences' \in [Bus -> Channel(Sentence)]
      BY <1>4, <2>2, SentencesKept DEF RespondToNothing
    <2>4. ActKept
      BY <1>4, ReportType DEF RespondToNothing, Hop, ActKept, ActState
    <2>5. UNCHANGED <<busMap, born, transcripts, lang, aborted, llmFrame>>
      BY <1>4 DEF RespondToNothing
    <2> QED BY <2>1, <2>3, <2>4, <2>5 DEF TypeInv, TypeOK, RefInv, BusInv, LlmKept, ActKept
  <1>5. CASE RespondAsks(n)
    <2> DEFINE sig == TurnBusOf
               a   == [llm[n] EXCEPT !.pc = "generating", !.sig = sig]
    <2>3. a \in LlmAttempt /\ a.bus \in Bus
      <3>1. llm[n] \in LlmAttempt /\ llm[n].bus \in Bus /\ sig \in Bus
        BY <1>5, BusLookup DEF RespondAsks, TypeInv, TypeOK, RefInv
      <3> HIDE DEF sig
      <3> QED BY <3>1 DEF LlmAttempt, LlmPC
    <2>1. LlmKept
      BY <1>5, <2>3, LlmReplaced DEF RespondAsks
    <2>2. MapKept
      BY <1>5, BusLookup DEF RespondAsks, MapKept
    <2> QED BY <1>5, <2>1, <2>2 DEF RespondAsks, TypeInv, TypeOK, RefInv, LlmKept, MapKept
  <1>6. CASE RespondRefused(n)
    BY <1>6, RespondThrowsTypeInv DEF RespondRefused
  <1>7. CASE RespondSentence(n)
    <2> DEFINE item == [by |-> n, nth |-> llm[n].wrote + 1]
    <2>1. llm[n].bus \in Bus /\ llm[n].wrote + 1 \in Nat
      BY <1>7 DEF RespondSentence, TypeInv, TypeOK, RefInv, LlmAttempt
    <2>6. item \in Sentence
      BY <2>1 DEF Sentence
    <2>2. sentences[llm[n].bus] \in Channel(Sentence)
      BY <2>1 DEF TypeInv, TypeOK
    <2>3. Push(sentences[llm[n].bus], item) \in Channel(Sentence)
      BY <2>2, <2>6, ChannelOps
    <2>4. sentences' \in [Bus -> Channel(Sentence)]
      BY <1>7, <2>1, <2>3 DEF RespondSentence, TypeInv, TypeOK
    <2>5. LlmKept
      BY <1>7, <2>1 DEF RespondSentence, TypeInv, TypeOK, RefInv, LlmKept, LlmAttempt
    <2>7. TypeOK'
      BY <1>7, <2>4, <2>5 DEF RespondSentence, TypeInv, TypeOK, LlmKept
    <2>8. RefInv' /\ BusInv'
      BY <1>7, <2>5 DEF RespondSentence, TypeInv, RefInv, BusInv, LlmKept
    <2> QED BY <2>7, <2>8 DEF TypeInv
  <1>8. CASE RespondCompletes(n)
    <2>1. LlmKept
      BY <1>8, LlmMoves DEF RespondCompletes, LlmPC
    <2>2. llm[n].bus \in Bus
      BY <1>8 DEF RespondCompletes, TypeInv, RefInv
    <2>3. sentences' \in [Bus -> Channel(Sentence)]
      BY <1>8, <2>2, SentencesKept DEF RespondCompletes
    <2>4. ActKept
      BY <1>8, ReportType DEF RespondCompletes, Hop, ActKept, ActState
    <2> QED BY <1>8, <2>1, <2>3, <2>4
        DEF RespondCompletes, TypeInv, TypeOK, RefInv, BusInv, LlmKept, ActKept
  <1>9. CASE RespondFails(n)
    BY <1>9, RespondThrowsTypeInv DEF RespondFails
  <1> QED BY <1>1, <1>2, <1>3, <1>4, <1>5, <1>6, <1>7, <1>8, <1>9 DEF Respond

-----------------------------------------------------------------------------
LEMMA StartSynthesizeTypeInv ==
  ASSUME TypeInv, StartSynthesize
  PROVE  TypeInv'
  <1> USE DEF ttsFrame, ingress, flowVars
  <1>0. Pickup("tts") /\ "tts" \in Hop
    BY DEF StartSynthesize, Hop
  <1>1. ActKept /\ attempt["tts"] + 1 \in SynthesizeAttempt
    BY <1>0, PickupType, AttemptBounds, TurnConstants DEF ActKept, TypeInv, TypeOK, SynthesizeAttempt
  <1>2. MapKept
    BY BusLookup DEF StartSynthesize, MapKept
  <1>3. [TtsOff EXCEPT !.pc = "awaitLang", !.bus = TurnBusOf, !.late = torn] \in TtsAttempt
    BY BusLookup DEF TtsOff, TtsAttempt, TtsPC, NoBus, TypeInv, TypeOK
  <1>4. TtsKept
    BY <1>1, <1>3, BusLookup DEF StartSynthesize, TypeInv, TypeOK, RefInv, TtsKept, TtsOff
  <1> QED BY <1>1, <1>2, <1>4
      DEF StartSynthesize, TypeInv, TypeOK, RefInv, TtsKept, ActKept, MapKept

LEMMA SynthesizeTypeInv ==
  ASSUME TypeInv, NEW n \in SynthesizeAttempt, Synthesize(n)
  PROVE  TypeInv'
  <1> USE DEF ttsFrame, ingress, flowVars, busVars
  <1>1. CASE SynthesizeConnects(n)
    <2> DEFINE sig  == TurnBusOf
               deaf == Fired(tts[n].ctx, TurnBusOf)
               a    == [tts[n] EXCEPT !.pc = "connecting", !.sig = sig, !.deaf = deaf]
    <2>1. deaf \in BOOLEAN /\ sig \in Bus
      BY BusLookup DEF Fired, TypeInv, TypeOK, TtsAttempt
    <2>4. a \in TtsAttempt /\ a.bus \in Bus
      <3>1. tts[n] \in TtsAttempt /\ tts[n].bus \in Bus
        BY <1>1 DEF SynthesizeConnects, TypeInv, TypeOK, RefInv
      <3> HIDE DEF sig, deaf
      <3> QED BY <2>1, <3>1 DEF TtsAttempt, TtsPC
    <2>2. TtsKept
      BY <1>1, <2>4, TtsReplaced DEF SynthesizeConnects
    <2>3. MapKept
      BY <1>1, BusLookup DEF SynthesizeConnects, MapKept
    <2> QED BY <1>1, <2>2, <2>3
        DEF SynthesizeConnects, TypeInv, TypeOK, RefInv, TtsKept, MapKept
  <1>2. CASE \/ SynthesizeOpens(n) \/ SynthesizeFlush(n) \/ SynthesizeInputFails(n)
             \/ SynthesizeQuiet(n) \/ SynthesizeSocketCloses(n) \/ SynthesizeError(n)
             \/ SynthesizeDrained(n)
    <2>1. tts[n].pc # "off" /\ \E pc \in TtsPC : tts' = [tts EXCEPT ![n].pc = pc]
      BY <1>2 DEF SynthesizeOpens, SynthesizeFlush, SynthesizeInputFails, SynthesizeQuiet,
         SynthesizeSocketCloses, SynthesizeError, SynthesizeDrained, TtsPC
    <2>2. TtsKept
      BY <2>1, TtsMoves
    <2>3. UNCHANGED <<busVars, ttsFrame, act, attempt>>
      BY <1>2 DEF SynthesizeOpens, SynthesizeFlush, SynthesizeInputFails, SynthesizeQuiet,
         SynthesizeSocketCloses, SynthesizeError, SynthesizeDrained
    <2> QED BY <2>2, <2>3 DEF TypeInv, TypeOK, RefInv, BusInv, TtsKept
  <1>3. CASE SynthesizeSends(n)
    <2> DEFINE a == [tts[n] EXCEPT !.cur = tts[n].cur + 1]
    <2>2. a \in TtsAttempt /\ a.bus \in Bus
      BY <1>3 DEF SynthesizeSends, TypeInv, TypeOK, RefInv, TtsAttempt
    <2>3. tts' = [tts EXCEPT ![n] = a]
      BY <1>3 DEF SynthesizeSends
    <2>1. TtsKept
      BY <2>2, <2>3, TtsReplaced
    <2> QED BY <1>3, <2>1 DEF SynthesizeSends, TypeInv, TypeOK, RefInv, BusInv, TtsKept
  <1>4. CASE SynthesizeChunk(n)
    <2> DEFINE a == [tts[n] EXCEPT !.voiced = tts[n].voiced + 1]
    <2>2. a \in TtsAttempt /\ a.bus \in Bus
      BY <1>4 DEF SynthesizeChunk, TypeInv, TypeOK, RefInv, TtsAttempt
    <2>3. tts' = [tts EXCEPT ![n] = a]
      BY <1>4 DEF SynthesizeChunk
    <2>1. TtsKept
      BY <2>2, <2>3, TtsReplaced
    <2> QED BY <1>4, <2>1 DEF SynthesizeChunk, TypeInv, TypeOK, RefInv, BusInv, TtsKept
  <1>5. CASE SynthesizeStored(n)
    <2>1. TtsKept
      BY <1>5, TtsMoves DEF SynthesizeStored, TtsPC
    <2>2. ActKept /\ MapKept
      <3>1. CASE tts[n].pc = "storeOk"
        BY <1>5, <3>1, ReportType, Unmoved DEF SynthesizeStored, Hop, ActState, ActKept
      <3>2. CASE tts[n].pc = "storeErr" /\ RefusesRetry(n)
        BY <1>5, <3>2, ReportType, BusLookup
        DEF SynthesizeStored, Hop, ActState, ActKept, MapKept
      <3>3. CASE tts[n].pc = "storeErr" /\ ~RefusesRetry(n)
        BY <1>5, <3>3, RethrowType DEF SynthesizeStored, Hop, ActKept, MapKept
      <3> QED BY <1>5, <3>1, <3>2, <3>3 DEF SynthesizeStored
    <2> QED BY <1>5, <2>1, <2>2
        DEF SynthesizeStored, TypeInv, TypeOK, RefInv, TtsKept, ActKept, MapKept
  <1> QED BY <1>1, <1>2, <1>3, <1>4, <1>5 DEF Synthesize

-----------------------------------------------------------------------------
(* The gateway, Temporal, the workflow and a crash. *)

LEMMA OutsideTypeInv ==
  ASSUME TypeInv,
         \/ AudioEnd \/ BargeIn \/ CancelWorkflow \/ TemporalCancels
         \/ (\E h \in Hop : TimeOut(h)) \/ Settle \/ EndTurn \/ CloseWorkflow \/ Crash
  PROVE  TypeInv'
  <1> USE DEF gatewayFrame, hopVars, ingress, flowVars, busVars
  <1>1. CASE AudioEnd
    <2>1. mic' = "ended" /\ queue' \in {"open", "closed"} /\ audio' \in BOOLEAN
      BY <1>1 DEF AudioEnd, TypeInv, TypeOK
    <2>2. UNCHANGED <<busVars, gatewayFrame, cancelRequested, act, attempt>>
      BY <1>1 DEF AudioEnd
    <2> QED BY <2>1, <2>2 DEF TypeInv, TypeOK, RefInv, BusInv
  <1>2. CASE BargeIn
    <2>1. aborted' \in [Bus -> BOOLEAN]
      BY <1>2 DEF BargeIn, TypeInv, TypeOK
    <2>2. mic' \in {"open", "ended", "dropped"} /\ queue' \in {"open", "closed"}
          /\ audio' \in BOOLEAN
      BY <1>2 DEF BargeIn, Discard, TypeInv, TypeOK
    <2> QED BY <1>2, <2>1, <2>2 DEF BargeIn, TypeInv, TypeOK, RefInv, BusInv
  <1>3. CASE CancelWorkflow
    BY <1>3 DEF CancelWorkflow, TypeInv, TypeOK, RefInv, BusInv, ActState
  <1>4. CASE TemporalCancels
    <2>1. CASE stt' = [stt EXCEPT !.ctx = TRUE] /\ stt.pc # "off" /\ UNCHANGED <<llm, tts>>
      <3>1. SttKept
        BY <2>1 DEF TypeInv, TypeOK, RefInv, SttKept, SttAttempt
      <3> QED BY <1>4, <2>1, <3>1
          DEF TemporalCancels, TypeInv, TypeOK, RefInv, BusInv, SttKept
    <2>2. ASSUME NEW n \in RespondAttempt, llm[n].pc # "off",
                 llm' = [llm EXCEPT ![n].ctx = TRUE], UNCHANGED <<stt, tts>>
          PROVE  TypeInv'
      <3> DEFINE a == [llm[n] EXCEPT !.ctx = TRUE]
      <3>1. a \in LlmAttempt /\ a.bus \in Bus /\ llm' = [llm EXCEPT ![n] = a]
        BY <2>2 DEF TypeInv, TypeOK, RefInv, LlmAttempt
      <3>2. LlmKept
        BY <3>1, LlmReplaced
      <3> QED BY <1>4, <2>2, <3>2
          DEF TemporalCancels, TypeInv, TypeOK, RefInv, BusInv, LlmKept
    <2>3. ASSUME NEW n \in SynthesizeAttempt, tts[n].pc # "off",
                 tts' = [tts EXCEPT ![n].ctx = TRUE], UNCHANGED <<stt, llm>>
          PROVE  TypeInv'
      <3> DEFINE a == [tts[n] EXCEPT !.ctx = TRUE]
      <3>1. a \in TtsAttempt /\ a.bus \in Bus /\ tts' = [tts EXCEPT ![n] = a]
        BY <2>3 DEF TypeInv, TypeOK, RefInv, TtsAttempt
      <3>2. TtsKept
        BY <3>1, TtsReplaced
      <3> QED BY <1>4, <2>3, <3>2
          DEF TemporalCancels, TypeInv, TypeOK, RefInv, BusInv, TtsKept
    <2> QED BY <1>4, <2>1, <2>2, <2>3 DEF TemporalCancels
  <1>5. CASE \E h \in Hop : TimeOut(h)
    BY <1>5, RetryType DEF TimeOut, TypeInv, TypeOK, RefInv, BusInv
  <1>6. CASE Settle
    BY <1>6 DEF Settle, TypeInv, TypeOK, RefInv, BusInv
  <1>7. CASE EndTurn
    <2>1. /\ transcripts' \in [Bus -> Channel(Transcript)]
          /\ sentences' \in [Bus -> Channel(Sentence)]
      BY <1>7, ChannelEnds DEF EndTurn, DisposeTurnBus, CloseTurnBus, TypeInv, TypeOK
    <2>2. queue' \in {"open", "closed"} /\ audio' \in BOOLEAN /\ mic' = mic
      BY <1>7 DEF EndTurn, DisposeTurnBus, CloseTurnBus, Discard, TypeInv, TypeOK
    <2> QED BY <1>7, <2>1, <2>2 DEF EndTurn,
        DisposeTurnBus, CloseTurnBus, TypeInv, TypeOK, RefInv, BusInv, NoBus, Bus
  <1>8. CASE CloseWorkflow
    BY <1>8 DEF CloseWorkflow, TypeInv, TypeOK, RefInv, BusInv
  <1>9. CASE Crash
    <2>1. SttKept /\ LlmKept /\ TtsKept
      BY <1>9, DeadAttempt DEF Crash, TypeInv, TypeOK, RefInv, SttKept, LlmKept, TtsKept
    <2>2. /\ transcripts' \in [Bus -> Channel(Transcript)]
          /\ sentences' \in [Bus -> Channel(Sentence)]
      BY <1>9, EmptyIsChannel DEF Crash
    <2> QED BY <1>9, <2>1, <2>2
        DEF Crash, TypeInv, TypeOK, RefInv, BusInv, NoBus, SttKept, LlmKept, TtsKept
  <1> QED BY <1>1, <1>2, <1>3, <1>4, <1>5, <1>6, <1>7, <1>8, <1>9

LEMMA NextTypeInv == TypeInv /\ [Next]_vars => TypeInv'
  <1> SUFFICES ASSUME TypeInv, [Next]_vars PROVE TypeInv'
    OBVIOUS
  <1>1. CASE Next
    BY <1>1, TranscribeTypeInv, StartRespondTypeInv, RespondTypeInv, StartSynthesizeTypeInv,
       SynthesizeTypeInv, OutsideTypeInv DEF Next
  <1>2. CASE UNCHANGED vars
    BY <1>2 DEF vars, busVars, ingress, hopVars, flowVars, TypeInv, TypeOK, RefInv, BusInv
  <1> QED BY <1>1, <1>2

LEMMA TypeInvariant == Spec => []TypeInv
  BY InitTypeInv, NextTypeInv, PTL DEF Spec

\* Every variable keeps its type whatever fails, and however often: no third
\* bus is ever made for a turn, and no attempt reads a bus it was not handed.
THEOREM TypeCorrect == Spec => []TypeOK
  <1>1. TypeInv => TypeOK
    BY DEF TypeInv
  <1> QED BY <1>1, TypeInvariant, PTL

-----------------------------------------------------------------------------
(* What a step of one hop leaves of the others. *)

LEMMA ReportOther ==
  ASSUME TypeInv, NEW h \in Hop, NEW g \in Hop, g # h, NEW n, NEW outcome,
         Report(h, n, outcome)
  PROVE  act'[g] = act[g] /\ attempt'[g] = attempt[g]
  BY DEF Report, TypeInv, TypeOK

LEMMA RethrowOther ==
  ASSUME TypeInv, NEW h \in Hop, NEW g \in Hop, g # h, NEW n, Rethrow(h, n)
  PROVE  act'[g] = act[g] /\ attempt'[g] = attempt[g]
  BY ReportOther DEF Rethrow

LEMMA PickupOther ==
  ASSUME TypeInv, NEW h \in Hop, NEW g \in Hop, g # h, Pickup(h)
  PROVE  act'[g] = act[g] /\ attempt'[g] = attempt[g]
  BY DEF Pickup, TypeInv, TypeOK

\* Transcribe moves no other activity.
LEMMA TranscribeAlone ==
  ASSUME TypeInv, Transcribe, NEW g \in {"llm", "tts"}
  PROVE  /\ UNCHANGED <<llm, tts, sentences>>
         /\ act'[g] = act[g] /\ attempt'[g] = attempt[g]
  <1> "stt" \in Hop /\ g \in Hop /\ g # "stt"
    BY DEF Hop
  <1> USE DEF sttFrame, busVars
  <1>1. CASE StartTranscribe
    BY <1>1, PickupOther DEF StartTranscribe
  <1>2. CASE \/ TranscribeOpens \/ TranscribePartial \/ TranscribeFlush
             \/ TranscribeFinal \/ TranscribeError \/ TranscribeDrained
    BY <1>2 DEF TranscribeOpens, TranscribePartial, TranscribeFlush, TranscribeFinal,
       TranscribeError, TranscribeDrained
  <1>3. CASE TranscribeStored
    BY <1>3, ReportOther, RethrowOther DEF TranscribeStored
  <1> QED BY <1>1, <1>2, <1>3 DEF Transcribe

\* Nor does respond move synthesize's.
LEMMA RespondAlone ==
  ASSUME TypeInv, StartRespond \/ \E n \in RespondAttempt : Respond(n)
  PROVE  /\ UNCHANGED tts
         /\ act'["tts"] = act["tts"] /\ attempt'["tts"] = attempt["tts"]
  <1> "llm" \in Hop /\ "tts" \in Hop
    BY DEF Hop
  <1> USE DEF llmFrame, busVars
  <1>1. CASE StartRespond
    BY <1>1, PickupOther DEF StartRespond
  <1>2. ASSUME NEW n \in RespondAttempt, Respond(n)
        PROVE  /\ UNCHANGED tts
               /\ act'["tts"] = act["tts"] /\ attempt'["tts"] = attempt["tts"]
    <2>1. CASE \/ RespondReads(n) \/ RespondInputEnds(n) \/ RespondAsks(n)
               \/ RespondSentence(n)
      BY <2>1 DEF RespondReads, RespondInputEnds, RespondAsks, RespondSentence
    <2>2. CASE RespondToNothing(n) \/ RespondCompletes(n)
      BY <2>2, ReportOther DEF RespondToNothing, RespondCompletes
    <2>3. CASE RespondInputFails(n) \/ RespondRefused(n) \/ RespondFails(n)
      <3>1. RespondThrows(n)
        BY <2>3 DEF RespondInputFails, RespondRefused, RespondFails
      <3> QED BY <3>1, RethrowOther DEF RespondThrows
    <2> QED BY <1>2, <2>1, <2>2, <2>3 DEF Respond
  <1> QED BY <1>1, <1>2

\* Nor synthesize respond's.
LEMMA SynthesizeAlone ==
  ASSUME TypeInv, StartSynthesize \/ \E n \in SynthesizeAttempt : Synthesize(n)
  PROVE  /\ UNCHANGED <<llm, sentences>>
         /\ act'["llm"] = act["llm"] /\ attempt'["llm"] = attempt["llm"]
  <1> "llm" \in Hop /\ "tts" \in Hop
    BY DEF Hop
  <1> USE DEF ttsFrame, busVars
  <1>1. CASE StartSynthesize
    BY <1>1, PickupOther DEF StartSynthesize
  <1>2. ASSUME NEW n \in SynthesizeAttempt, Synthesize(n)
        PROVE  /\ UNCHANGED <<llm, sentences>>
               /\ act'["llm"] = act["llm"] /\ attempt'["llm"] = attempt["llm"]
    <2>1. CASE SynthesizeStored(n)
      BY <2>1, ReportOther, RethrowOther DEF SynthesizeStored
    <2>2. CASE ~SynthesizeStored(n)
      BY <1>2, <2>2 DEF Synthesize, SynthesizeConnects, SynthesizeOpens, SynthesizeSends,
         SynthesizeFlush, SynthesizeInputFails, SynthesizeChunk, SynthesizeQuiet,
         SynthesizeSocketCloses, SynthesizeError, SynthesizeDrained
    <2> QED BY <2>1, <2>2
  <1> QED BY <1>1, <1>2

-----------------------------------------------------------------------------
(* One voice.  Only the last attempt of synthesize can be running or have    *)
(* been heard, and an attempt that was heard is never followed by another.   *)

SpeechInv ==
  /\ \A n \in SynthesizeAttempt :
       n # attempt["tts"] => tts[n].pc \in Finished /\ tts[n].voiced = 0
  /\ act["tts"] # "started" => \A n \in SynthesizeAttempt : tts[n].pc \in Finished
  /\ act["tts"] = "scheduled" => \A n \in SynthesizeAttempt : tts[n].voiced = 0

LEMMA InitSpeechInv == Init => SpeechInv
  BY DEF Init, SpeechInv, TtsOff, Finished, Hop

\* An attempt that is running is the live one.
LEMMA SpeakerIsLive ==
  ASSUME SpeechInv, NEW n \in SynthesizeAttempt, tts[n].pc \notin Finished
  PROVE  n = attempt["tts"] /\ act["tts"] = "started"
  BY DEF SpeechInv

\* A running attempt may do anything but end without telling Temporal.
LEMMA SpeakerMoves ==
  ASSUME TypeInv, SpeechInv, NEW n \in SynthesizeAttempt, tts[n].pc \notin Finished,
         NEW a, tts' = [tts EXCEPT ![n] = a],
         act'["tts"] = act["tts"], attempt'["tts"] = attempt["tts"]
  PROVE  SpeechInv'
  BY SpeakerIsLive DEF SpeechInv, TypeInv, TypeOK

LEMMA NextSpeechInv ==
  ASSUME TypeInv, SpeechInv, [Next]_vars, "ttsTimeout" \notin Hazards
  PROVE  SpeechInv'
  <1> "tts" \in Hop
    BY DEF Hop
  <1>1. CASE UNCHANGED <<tts, act["tts"], attempt["tts"]>>
    BY <1>1 DEF SpeechInv
  <1>2. CASE Transcribe \/ StartRespond \/ \E n \in RespondAttempt : Respond(n)
    BY <1>2, <1>1, TranscribeAlone, RespondAlone
  <1>3. CASE StartSynthesize
    <2>1. /\ attempt["tts"] + 1 \in SynthesizeAttempt
          /\ act["tts"] = "scheduled"
          /\ act'["tts"] = "started" /\ attempt'["tts"] = attempt["tts"] + 1
      BY <1>3, PickupType, AttemptBounds, TurnConstants
      DEF StartSynthesize, Pickup, TypeInv, TypeOK, SynthesizeAttempt
    <2>2. \A n \in SynthesizeAttempt : n # attempt'["tts"] => tts'[n] = tts[n]
      BY <1>3, <2>1 DEF StartSynthesize, TypeInv, TypeOK
    <2> QED BY <2>1, <2>2 DEF SpeechInv
  <1>4. ASSUME NEW n \in SynthesizeAttempt, Synthesize(n)
        PROVE  SpeechInv'
    <2>1. tts[n].pc \notin Finished
      BY <1>4 DEF Synthesize, SynthesizeConnects, SynthesizeOpens, SynthesizeSends,
         SynthesizeFlush, SynthesizeInputFails, SynthesizeChunk, SynthesizeQuiet,
         SynthesizeSocketCloses, SynthesizeError, SynthesizeDrained, SynthesizeStored, Finished
    <2>2. CASE SynthesizeStored(n)
      <3>1. n = attempt["tts"] /\ act["tts"] = "started" /\ attempt'["tts"] = attempt["tts"]
        BY <2>1, <2>2, SpeakerIsLive DEF SynthesizeStored, Report, Rethrow
      <3>2. /\ \A m \in SynthesizeAttempt : m # n => tts'[m] = tts[m]
            /\ tts'[n].pc \in Finished
            /\ tts'[n].voiced = tts[n].voiced
        BY <2>2 DEF SynthesizeStored, TypeInv, TypeOK, TtsAttempt, Finished
      <3>3. act'["tts"] = "scheduled" => tts[n].voiced = 0
        <4>1. CASE tts[n].voiced = 0
          BY <4>1
        <4>2. CASE tts[n].voiced # 0 /\ aborted[TurnBusOf]
          <5>1. ~RefusesRetry(n)
            BY <4>2 DEF RefusesRetry
          <5> QED BY <4>2, <5>1, <2>2, <3>1
              DEF SynthesizeStored, Rethrow, Report, TypeInv, TypeOK
        <4>3. CASE tts[n].voiced # 0 /\ ~aborted[TurnBusOf]
          <5>1. tts[n].voiced > 0
            BY <4>3 DEF TypeInv, TypeOK, TtsAttempt
          <5>2. RefusesRetry(n)
            BY <4>3, <5>1 DEF RefusesRetry
          <5> QED BY <5>2, <2>2, <3>1 DEF SynthesizeStored, Report, TypeInv, TypeOK
        <4> QED BY <4>1, <4>2, <4>3
      <3> QED BY <3>1, <3>2, <3>3 DEF SpeechInv
    <2>3. CASE ~SynthesizeStored(n)
      <3>1. \E a : tts' = [tts EXCEPT ![n] = a]
        BY <1>4, <2>3 DEF Synthesize, SynthesizeConnects, SynthesizeOpens, SynthesizeSends,
           SynthesizeFlush, SynthesizeInputFails, SynthesizeChunk, SynthesizeQuiet,
           SynthesizeSocketCloses, SynthesizeError, SynthesizeDrained
      <3>2. UNCHANGED <<act, attempt>>
        BY <1>4, <2>3 DEF Synthesize, SynthesizeConnects, SynthesizeOpens, SynthesizeSends,
           SynthesizeFlush, SynthesizeInputFails, SynthesizeChunk, SynthesizeQuiet,
           SynthesizeSocketCloses, SynthesizeError, SynthesizeDrained
      <3> QED BY <2>1, <3>1, <3>2, SpeakerMoves
    <2> QED BY <2>2, <2>3
  <1>5. CASE CancelWorkflow
    BY <1>5 DEF CancelWorkflow, gatewayFrame, hopVars, SpeechInv, TypeInv, TypeOK
  <1>6. CASE TemporalCancels
    <2>1. CASE UNCHANGED tts
      BY <1>6, <2>1, <1>1 DEF TemporalCancels
    <2>2. ASSUME NEW n \in SynthesizeAttempt,
                 tts[n].pc \in {"awaitLang", "connecting", "speaking", "tail"},
                 tts' = [tts EXCEPT ![n].ctx = TRUE]
          PROVE  SpeechInv'
      BY <1>6, <2>2, SpeakerMoves DEF TemporalCancels, Finished
    <2> QED BY <1>6, <2>1, <2>2 DEF TemporalCancels
  <1>7. ASSUME NEW h \in Hop, TimeOut(h)
        PROVE  SpeechInv'
    <2>1. h # "tts"
      BY <1>7 DEF TimeOut, ClockHazard
    <2> QED BY <1>7, <2>1, <1>1 DEF TimeOut, hopVars, TypeInv, TypeOK
  <1>8. CASE AudioEnd \/ BargeIn \/ Settle \/ EndTurn \/ CloseWorkflow
    BY <1>8, <1>1 DEF AudioEnd, BargeIn, Settle, EndTurn,
        DisposeTurnBus, CloseTurnBus, CloseWorkflow, gatewayFrame, hopVars
  <1>9. CASE Crash
    <2>1. \A n \in SynthesizeAttempt : tts'[n].pc \in Finished /\ tts'[n].voiced = tts[n].voiced
      BY <1>9 DEF Crash, Dead, Finished, TypeInv, TypeOK, TtsAttempt
    <2> QED BY <1>9, <2>1 DEF Crash, SpeechInv
  <1>10. CASE UNCHANGED vars
    BY <1>10, <1>1 DEF vars, hopVars
  <1> QED BY <1>2, <1>3, <1>4, <1>5, <1>6, <1>7, <1>8, <1>9, <1>10 DEF Next

\* Unless synthesize's clock runs out, the caller never hears two attempts at
\* the same reply, whatever else fails and however many retries are allowed.
THEOREM HeardOnce ==
  ASSUME "ttsTimeout" \notin Hazards
  PROVE  Spec => []SpokenOnce
  <1>1. Init => TypeInv /\ SpeechInv
    BY InitTypeInv, InitSpeechInv
  <1>2. TypeInv /\ SpeechInv /\ [Next]_vars => (TypeInv /\ SpeechInv)'
    BY NextTypeInv, NextSpeechInv
  <1>3. TypeInv /\ SpeechInv => SpokenOnce
    BY DEF TypeInv, TypeOK, TtsAttempt, SpeechInv, SpokenOnce
  <1> QED BY <1>1, <1>2, <1>3, PTL DEF Spec

-----------------------------------------------------------------------------
(* One reply.  Only the last attempt of respond can be running; a channel    *)
(* that is open and not empty belongs to the attempt that is generating, and *)
(* what it holds is what that attempt wrote.                                 *)

OnlyLiveResponds ==
  /\ \A n \in RespondAttempt : n # attempt["llm"] => llm[n].pc \in Finished
  /\ act["llm"] # "started" => \A n \in RespondAttempt : llm[n].pc \in Finished

OpenHasWriter ==
  \A b \in Bus : sentences[b].state = "open" /\ Len(sentences[b].items) # 0 =>
    \E n \in RespondAttempt : llm[n].pc = "generating" /\ llm[n].bus = b

\* Channel c holds the first k sentences of attempt n's reply.
Holds(c, n, k) ==
  Len(c.items) = k /\ \A i \in 1..k : c.items[i] = [by |-> n, nth |-> i]

WriterKeepsCount ==
  \A n \in RespondAttempt :
    /\ llm[n].pc \in {"waiting", "awaitLang"} => llm[n].wrote = 0
    /\ llm[n].pc = "generating" /\ sentences[llm[n].bus].state = "open" =>
         Holds(sentences[llm[n].bus], n, llm[n].wrote)

ReplyInv == OnlyLiveResponds /\ OpenHasWriter /\ WriterKeepsCount /\ OneReply

LEMMA InitReplyInv == Init => ReplyInv
  <1> SUFFICES ASSUME Init PROVE ReplyInv
    OBVIOUS
  <1>1. \A b \in Bus : Len(sentences[b].items) = 0
    BY DEF Init, EmptyChannel
  <1>2. 1 \in RespondAttempt
    BY TurnConstants DEF RespondAttempt
  <1>3. OneReply
    BY <1>1, <1>2 DEF OneReply
  <1>4. OnlyLiveResponds /\ OpenHasWriter /\ WriterKeepsCount
    BY <1>1 DEF Init, OnlyLiveResponds, OpenHasWriter, WriterKeepsCount, LlmOff, Finished
  <1> QED BY <1>3, <1>4 DEF ReplyInv

LEMMA ResponderIsLive ==
  ASSUME ReplyInv, NEW n \in RespondAttempt, llm[n].pc \notin Finished
  PROVE  n = attempt["llm"] /\ act["llm"] = "started"
  BY DEF ReplyInv, OnlyLiveResponds

\* Nothing that leaves respond and its channel alone touches the reply.
LEMMA ReplyUntouched ==
  ASSUME ReplyInv, UNCHANGED <<llm, sentences>>,
         act'["llm"] = act["llm"], attempt'["llm"] = attempt["llm"]
  PROVE  ReplyInv'
  BY DEF ReplyInv, OnlyLiveResponds, OpenHasWriter, WriterKeepsCount, OneReply, Holds

\* A channel that was closed or failed holds what it held.
LEMMA ChannelEndKeepsItems ==
  ASSUME NEW Item, NEW c \in Channel(Item), NEW d, d \in {Close(c), Fail(c)}
  PROVE  d.items = c.items /\ d.state # "open"
  BY DEF Channel, ChannelState, Close, Fail

\* The live attempt ends, and with it the channel of the bus it was handed.
LEMMA ReplyEnds ==
  ASSUME TypeInv, ReplyInv, NEW n \in RespondAttempt, llm[n].pc \notin Finished,
         NEW pc \in Finished, llm' = [llm EXCEPT ![n].pc = pc],
         NEW c, c \in {Close(sentences[llm[n].bus]), Fail(sentences[llm[n].bus])},
         sentences' = [sentences EXCEPT ![llm[n].bus] = c],
         attempt'["llm"] = attempt["llm"]
  PROVE  ReplyInv'
  <1>1. llm[n].bus \in Bus
    BY DEF TypeInv, RefInv, Finished
  <1>2. sentences[llm[n].bus] \in Channel(Sentence)
    BY <1>1 DEF TypeInv, TypeOK
  <1>3. c.items = sentences[llm[n].bus].items /\ c.state # "open"
    BY <1>2, ChannelEndKeepsItems
  <1>4. \A b \in Bus : /\ sentences'[b].items = sentences[b].items
                       /\ b = llm[n].bus => sentences'[b].state # "open"
                       /\ b # llm[n].bus => sentences'[b] = sentences[b]
    BY <1>1, <1>3 DEF TypeInv, TypeOK
  <1>5. \A m \in RespondAttempt : m # n => llm'[m] = llm[m] /\ llm[m].pc \in Finished
    BY ResponderIsLive DEF TypeInv, TypeOK
  <1>6. llm'[n].pc = pc /\ llm'[n].bus = llm[n].bus
    BY DEF TypeInv, TypeOK, LlmAttempt
  <1>7. OnlyLiveResponds'
    BY <1>5, <1>6 DEF OnlyLiveResponds
  <1>8. OpenHasWriter'
    <2> SUFFICES ASSUME NEW b \in Bus, sentences'[b].state = "open",
                        Len(sentences'[b].items) # 0
                 PROVE  FALSE
      BY DEF OpenHasWriter
    <2>1. b # llm[n].bus /\ sentences'[b] = sentences[b]
      BY <1>4
    <2>2. PICK m \in RespondAttempt : llm[m].pc = "generating" /\ llm[m].bus = b
      BY <2>1 DEF ReplyInv, OpenHasWriter
    <2> QED BY <2>1, <2>2, <1>5 DEF Finished
  <1>9. WriterKeepsCount'
    BY <1>5, <1>6 DEF WriterKeepsCount, Finished
  <1>10. OneReply'
    BY <1>4 DEF ReplyInv, OneReply
  <1> QED BY <1>7, <1>8, <1>9, <1>10 DEF ReplyInv

\* The live attempt moves on with its count and its channel as they were.
LEMMA ReplyMoves ==
  ASSUME TypeInv, ReplyInv, NEW n \in RespondAttempt, llm[n].pc \notin Finished,
         NEW a \in LlmAttempt, llm' = [llm EXCEPT ![n] = a],
         a.bus = llm[n].bus, a.wrote = llm[n].wrote,
         a.pc = llm[n].pc \/ (llm[n].pc = "waiting" /\ a.pc = "awaitLang"),
         UNCHANGED sentences, act'["llm"] = act["llm"], attempt'["llm"] = attempt["llm"]
  PROVE  ReplyInv'
  <1>1. n = attempt["llm"] /\ act["llm"] = "started"
    BY ResponderIsLive
  <1>2. llm'[n] = a /\ \A m \in RespondAttempt : m # n => llm'[m] = llm[m]
    BY DEF TypeInv, TypeOK
  <1>3. OnlyLiveResponds'
    BY <1>1, <1>2 DEF ReplyInv, OnlyLiveResponds
  <1>4. OpenHasWriter'
    BY <1>2 DEF ReplyInv, OpenHasWriter
  <1>5. WriterKeepsCount'
    BY <1>2 DEF ReplyInv, WriterKeepsCount
  <1>6. OneReply'
    BY DEF ReplyInv, OneReply
  <1> QED BY <1>3, <1>4, <1>5, <1>6 DEF ReplyInv

\* Generating begins on a channel nothing was written to.
LEMMA ReplyBegins ==
  ASSUME TypeInv, ReplyInv, NEW n \in RespondAttempt, RespondAsks(n)
  PROVE  ReplyInv'
  <1> DEFINE a == [llm[n] EXCEPT !.pc = "generating", !.sig = TurnBusOf]
  <1>1. llm[n].pc = "awaitLang" /\ n = attempt["llm"] /\ act["llm"] = "started"
    BY ResponderIsLive DEF RespondAsks, Finished
  <1>2. llm[n].bus \in Bus /\ llm[n].wrote = 0
    BY <1>1 DEF TypeInv, RefInv, ReplyInv, WriterKeepsCount
  <1>3. llm' = [llm EXCEPT ![n] = a] /\ UNCHANGED <<sentences, act, attempt>>
    BY DEF RespondAsks, llmFrame
  <1>4. a.pc = "generating" /\ a.bus = llm[n].bus /\ a.wrote = llm[n].wrote
    BY DEF TypeInv, TypeOK, LlmAttempt
  <1>5. llm'[n] = a /\ \A m \in RespondAttempt : m # n => llm'[m] = llm[m]
    BY <1>3 DEF TypeInv, TypeOK
  <1>6. sentences[llm[n].bus].state = "open" => Len(sentences[llm[n].bus].items) = 0
    <2>1. \A m \in RespondAttempt : llm[m].pc # "generating"
      BY <1>1, ResponderIsLive DEF Finished
    <2> QED BY <1>2, <2>1 DEF ReplyInv, OpenHasWriter
  <1> HIDE DEF a
  <1>7. OnlyLiveResponds'
    BY <1>1, <1>3, <1>5 DEF ReplyInv, OnlyLiveResponds
  <1>8. OpenHasWriter'
    BY <1>1, <1>3, <1>4, <1>5 DEF ReplyInv, OpenHasWriter
  <1>9. WriterKeepsCount'
    BY <1>2, <1>3, <1>4, <1>5, <1>6 DEF ReplyInv, WriterKeepsCount, Holds
  <1>10. OneReply'
    BY <1>3 DEF ReplyInv, OneReply
  <1> QED BY <1>7, <1>8, <1>9, <1>10 DEF ReplyInv

LEMMA PushGrows ==
  ASSUME NEW c \in Channel(Sentence), c.state = "open", NEW n \in RespondAttempt,
         NEW k \in Nat, Holds(c, n, k)
  PROVE  Holds(Push(c, [by |-> n, nth |-> k + 1]), n, k + 1)
  <1> DEFINE item == [by |-> n, nth |-> k + 1]
  <1>1. item \in Sentence
    BY DEF Sentence
  <1>2. c.items \in Seq(Sentence) /\ Push(c, item).items = Append(c.items, item)
    BY DEF Channel, Push
  <1>3. Len(c.items) = k /\ \A i \in 1..k : c.items[i] = [by |-> n, nth |-> i]
    BY DEF Holds
  <1>4. Append(c.items, item)[k + 1] = item /\ Len(Append(c.items, item)) = k + 1
    <2> HIDE DEF item
    <2> QED BY <1>1, <1>2, <1>3
  <1>5. \A i \in 1..k : Append(c.items, item)[i] = c.items[i]
    <2> HIDE DEF item
    <2> QED BY <1>1, <1>2, <1>3
  <1>6. \A i \in 1..(k + 1) : Append(c.items, item)[i] = [by |-> n, nth |-> i]
    <2> SUFFICES ASSUME NEW i \in 1..(k + 1)
                 PROVE  Append(c.items, item)[i] = [by |-> n, nth |-> i]
      OBVIOUS
    <2>1. CASE i = k + 1
      BY <2>1, <1>4
    <2>2. CASE i \in 1..k
      BY <2>2, <1>3, <1>5
    <2>3. i = k + 1 \/ i \in 1..k
      OBVIOUS
    <2> QED BY <2>1, <2>2, <2>3
  <1> QED BY <1>2, <1>4, <1>6 DEF Holds

LEMMA ReplyGrows ==
  ASSUME TypeInv, ReplyInv, NEW n \in RespondAttempt, RespondSentence(n)
  PROVE  ReplyInv'
  <1> DEFINE b == llm[n].bus
             k == llm[n].wrote
             c == Push(sentences[b], [by |-> n, nth |-> k + 1])
             a == [llm[n] EXCEPT !.wrote = k + 1]
  <1>1. llm[n].pc = "generating" /\ n = attempt["llm"] /\ act["llm"] = "started"
    BY ResponderIsLive DEF RespondSentence, Finished
  <1>2. b \in Bus /\ sentences[b] \in Channel(Sentence) /\ k \in Nat
    BY <1>1 DEF TypeInv, TypeOK, RefInv, LlmAttempt
  <1>3. /\ llm' = [llm EXCEPT ![n] = a]
        /\ sentences' = [sentences EXCEPT ![b] = c]
        /\ UNCHANGED <<act, attempt>>
    BY DEF RespondSentence
  <1>4. a.pc = "generating" /\ a.bus = b /\ a.wrote = k + 1 /\ llm[n].bus = b
    BY <1>1 DEF TypeInv, TypeOK, LlmAttempt
  <1>5. /\ llm'[n] = a /\ \A m \in RespondAttempt : m # n => llm'[m] = llm[m]
        /\ sentences'[b] = c /\ \A d \in Bus : d # b => sentences'[d] = sentences[d]
    BY <1>2, <1>3 DEF TypeInv, TypeOK
  <1>6. \A m \in RespondAttempt : m # n => llm[m].pc \in Finished
    BY <1>1 DEF ReplyInv, OnlyLiveResponds
  <1>7. /\ c.state = sentences[b].state
        /\ sentences[b].state # "open" => c = sentences[b]
    BY <1>2 DEF Push, Channel
  <1>8. sentences[b].state = "open" => Holds(c, n, k + 1)
    <2>1. sentences[b].state = "open" => Holds(sentences[b], n, k)
      BY <1>1 DEF ReplyInv, WriterKeepsCount
    <2> QED BY <1>2, <2>1, PushGrows
  <1> HIDE DEF a, b, c, k
  <1>9. OnlyLiveResponds'
    BY <1>1, <1>3, <1>5 DEF ReplyInv, OnlyLiveResponds
  <1>10. OpenHasWriter'
    BY <1>1, <1>4, <1>5, <1>6 DEF ReplyInv, OpenHasWriter, Finished
  <1>11. WriterKeepsCount'
    BY <1>4, <1>5, <1>6, <1>7, <1>8 DEF WriterKeepsCount, Finished
  <1>12. OneReply'
    BY <1>5, <1>7, <1>8 DEF ReplyInv, OneReply, Holds
  <1> QED BY <1>9, <1>10, <1>11, <1>12 DEF ReplyInv

LEMMA RespondReplyInv ==
  ASSUME TypeInv, ReplyInv, NEW n \in RespondAttempt, Respond(n)
  PROVE  ReplyInv'
  <1> "llm" \in Hop
    BY DEF Hop
  <1>1. CASE RespondReads(n)
    <2> DEFINE item == transcripts[llm[n].bus].items[llm[n].cur + 1]
               a == [llm[n] EXCEPT !.cur = llm[n].cur + 1, !.prompt = item.text,
                                   !.final = item.final,
                                   !.pc = IF LeavesLoop(item) THEN "awaitLang" ELSE "waiting"]
    <2>1. /\ llm' = [llm EXCEPT ![n] = a] /\ llm[n].pc = "waiting"
          /\ UNCHANGED <<sentences, act, attempt>>
      BY <1>1 DEF RespondReads, busVars
    <2>2. llm'[n] = a
      BY <2>1 DEF TypeInv, TypeOK
    <2>3. llm' \in [RespondAttempt -> LlmAttempt]
      BY RespondTypeInv DEF TypeInv, TypeOK
    <2>4. a \in LlmAttempt
      <3> HIDE DEF a
      <3> QED BY <2>2, <2>3
    <2>5. a.bus = llm[n].bus /\ a.wrote = llm[n].wrote /\ a.pc \in {"waiting", "awaitLang"}
      BY DEF TypeInv, TypeOK, LlmAttempt
    <2> HIDE DEF a
    <2> QED BY <2>1, <2>4, <2>5, ReplyMoves DEF Finished
  <1>2. CASE RespondInputEnds(n)
    <2> DEFINE a == [llm[n] EXCEPT !.pc = "awaitLang"]
    <2>1. /\ llm' = [llm EXCEPT ![n] = a] /\ llm[n].pc = "waiting"
          /\ UNCHANGED <<sentences, act, attempt>>
      BY <1>2 DEF RespondInputEnds, busVars
    <2>2. /\ a \in LlmAttempt /\ a.bus = llm[n].bus /\ a.wrote = llm[n].wrote
          /\ a.pc = "awaitLang"
      BY DEF TypeInv, TypeOK, LlmAttempt, LlmPC
    <2> HIDE DEF a
    <2> QED BY <2>1, <2>2, ReplyMoves DEF Finished
  <1>3. CASE RespondInputFails(n) \/ RespondRefused(n) \/ RespondFails(n)
    <2>1. RespondThrows(n) /\ llm[n].pc \notin Finished
      BY <1>3 DEF RespondInputFails, RespondRefused, RespondFails, Finished
    <2>2. attempt' = attempt
      BY <2>1 DEF RespondThrows, Rethrow, Report
    <2> QED BY <2>1, <2>2, ReplyEnds DEF RespondThrows, Finished
  <1>4. CASE RespondToNothing(n) \/ RespondCompletes(n)
    BY <1>4, ReplyEnds DEF RespondToNothing, RespondCompletes, Report, Finished
  <1>5. CASE RespondAsks(n)
    BY <1>5, ReplyBegins
  <1>6. CASE RespondSentence(n)
    BY <1>6, ReplyGrows
  <1> QED BY <1>1, <1>2, <1>3, <1>4, <1>5, <1>6 DEF Respond

LEMMA NextReplyInv ==
  ASSUME TypeInv, ReplyInv, [Next]_vars, "llmTimeout" \notin Hazards
  PROVE  ReplyInv'
  <1> "llm" \in Hop
    BY DEF Hop
  <1>1. CASE Transcribe
    BY <1>1, TranscribeAlone, ReplyUntouched
  <1>2. CASE StartRespond
    <2>1. /\ attempt["llm"] + 1 \in RespondAttempt
          /\ act["llm"] = "scheduled"
          /\ act'["llm"] = "started" /\ attempt'["llm"] = attempt["llm"] + 1
      BY <1>2, PickupType, AttemptBounds, TurnConstants
      DEF StartRespond, Pickup, TypeInv, TypeOK, RespondAttempt
    <2> DEFINE k == attempt["llm"] + 1
               a == [LlmOff EXCEPT !.pc = "waiting", !.bus = TurnBusOf, !.late = torn]
    <2>2. /\ llm'[k] = a
          /\ \A n \in RespondAttempt : n # k => llm'[n] = llm[n]
          /\ UNCHANGED sentences
      BY <1>2, <2>1 DEF StartRespond, TypeInv, TypeOK
    <2>3. a.pc = "waiting" /\ a.wrote = 0
      BY DEF LlmOff
    <2>4. \A n \in RespondAttempt : llm[n].pc \in Finished
      BY <2>1 DEF ReplyInv, OnlyLiveResponds
    <2> HIDE DEF a
    <2>5. OnlyLiveResponds'
      BY <2>1, <2>2, <2>4 DEF OnlyLiveResponds
    <2>6. OpenHasWriter'
      BY <2>1, <2>2, <2>4 DEF ReplyInv, OpenHasWriter, Finished
    <2>7. WriterKeepsCount'
      BY <2>2, <2>3, <2>4 DEF WriterKeepsCount, Finished
    <2>8. OneReply'
      BY <2>2 DEF ReplyInv, OneReply
    <2> QED BY <2>5, <2>6, <2>7, <2>8 DEF ReplyInv
  <1>3. CASE \E n \in RespondAttempt : Respond(n)
    BY <1>3, RespondReplyInv
  <1>4. CASE StartSynthesize \/ \E n \in SynthesizeAttempt : Synthesize(n)
    BY <1>4, SynthesizeAlone, ReplyUntouched
  <1>5. CASE CancelWorkflow
    BY <1>5 DEF CancelWorkflow, gatewayFrame, hopVars, busVars, ReplyInv, OnlyLiveResponds,
       OpenHasWriter, WriterKeepsCount, OneReply, Holds, TypeInv, TypeOK
  <1>6. CASE TemporalCancels
    <2>1. CASE UNCHANGED llm
      BY <1>6, <2>1, ReplyUntouched DEF TemporalCancels, busVars
    <2>2. ASSUME NEW n \in RespondAttempt,
                 llm[n].pc \in {"waiting", "awaitLang", "generating"},
                 llm' = [llm EXCEPT ![n].ctx = TRUE]
          PROVE  ReplyInv'
      <3> DEFINE a == [llm[n] EXCEPT !.ctx = TRUE]
      <3>1. /\ a \in LlmAttempt /\ a.bus = llm[n].bus /\ a.wrote = llm[n].wrote
            /\ a.pc = llm[n].pc
        BY DEF TypeInv, TypeOK, LlmAttempt
      <3>2. llm' = [llm EXCEPT ![n] = a] /\ UNCHANGED <<sentences, act, attempt>>
        BY <1>6, <2>2 DEF TemporalCancels, busVars
      <3> HIDE DEF a
      <3> QED BY <2>2, <3>1, <3>2, ReplyMoves DEF Finished
    <2> QED BY <1>6, <2>1, <2>2 DEF TemporalCancels
  <1>7. ASSUME NEW h \in Hop, TimeOut(h)
        PROVE  ReplyInv'
    <2>1. h # "llm"
      BY <1>7 DEF TimeOut, ClockHazard
    <2> QED BY <1>7, <2>1, ReplyUntouched DEF TimeOut, hopVars, busVars, TypeInv, TypeOK
  <1>8. CASE AudioEnd \/ BargeIn \/ Settle \/ CloseWorkflow
    BY <1>8, ReplyUntouched DEF AudioEnd, BargeIn, Settle, CloseWorkflow,
       gatewayFrame, hopVars, busVars
  <1>9. CASE EndTurn
    <2>1. \A b \in Bus : /\ sentences'[b].items = sentences[b].items
                         /\ sentences'[b] = sentences[b] \/ sentences'[b].state # "open"
      BY <1>9, ChannelEndKeepsItems DEF EndTurn, DisposeTurnBus, CloseTurnBus, TypeInv, TypeOK
    <2>2. UNCHANGED <<llm, act, attempt>>
      BY <1>9 DEF EndTurn, DisposeTurnBus, CloseTurnBus, hopVars
    <2>3. OnlyLiveResponds'
      BY <2>2 DEF ReplyInv, OnlyLiveResponds
    <2>4. OpenHasWriter'
      BY <2>1, <2>2 DEF ReplyInv, OpenHasWriter
    <2>5. WriterKeepsCount'
      <3>1. \A n \in RespondAttempt : llm[n].pc = "generating" => llm[n].bus \in Bus
        BY DEF TypeInv, RefInv
      <3> QED BY <2>1, <2>2, <3>1 DEF ReplyInv, WriterKeepsCount
    <2>6. OneReply'
      BY <2>1 DEF ReplyInv, OneReply
    <2> QED BY <2>3, <2>4, <2>5, <2>6 DEF ReplyInv
  <1>10. CASE Crash
    <2>1. \A n \in RespondAttempt : llm'[n].pc \in Finished
      BY <1>10 DEF Crash, Dead, Finished, TypeInv, TypeOK, LlmAttempt
    <2>2. \A b \in Bus : Len(sentences'[b].items) = 0
      BY <1>10 DEF Crash, EmptyChannel
    <2>3. 1 \in RespondAttempt
      BY TurnConstants DEF RespondAttempt
    <2>4. OneReply'
      BY <2>2, <2>3 DEF OneReply
    <2> QED BY <2>1, <2>2, <2>4
        DEF ReplyInv, OnlyLiveResponds, OpenHasWriter, WriterKeepsCount, Finished
  <1>11. CASE UNCHANGED vars
    BY <1>11, ReplyUntouched DEF vars, hopVars, busVars
  <1> QED BY <1>1, <1>2, <1>3, <1>4, <1>5, <1>6, <1>7, <1>8, <1>9, <1>10, <1>11 DEF Next

-----------------------------------------------------------------------------
\* Unless respond's clock runs out, every bus holds the beginning, in order, of
\* one attempt's reply, for any number of attempts and sentences.
THEOREM BusHoldsOneReply ==
  ASSUME "llmTimeout" \notin Hazards
  PROVE  Spec => []OneReply
  <1>1. Init => TypeInv /\ ReplyInv
    BY InitTypeInv, InitReplyInv
  <1>2. TypeInv /\ ReplyInv /\ [Next]_vars => (TypeInv /\ ReplyInv)'
    BY NextTypeInv, NextReplyInv
  <1>3. TypeInv /\ ReplyInv => OneReply
    BY DEF ReplyInv
  <1> QED BY <1>1, <1>2, <1>3, PTL DEF Spec

-----------------------------------------------------------------------------
(* Barge-in and retries: only rethrow() can send a hop back to be scheduled. *)

Clocks == {"sttTimeout", "llmTimeout", "ttsTimeout"}

\* No hop goes from running to scheduled on an aborted bus in this step.
NoRetry ==
  \A h \in Hop : act[h] = "started" /\ act'[h] = "scheduled"
                   => ~(busMap # NoBus /\ aborted[busMap])

LEMMA NoRetryIfKept ==
  ASSUME \A h \in Hop : act'[h] = act[h] \/ act'[h] # "scheduled"
  PROVE  NoRetry
  BY DEF NoRetry

LEMMA ReportedIsNoRetry ==
  ASSUME TypeInv, NEW h \in Hop, NEW n, NEW outcome \in {"completed", "failed"},
         Report(h, n, outcome)
  PROVE  NoRetry
  BY NoRetryIfKept DEF Report, TypeInv, TypeOK

LEMMA RethrowNoRetry ==
  ASSUME TypeInv, NEW h \in Hop, NEW n, Rethrow(h, n)
  PROVE  NoRetry
  <1>1. CASE aborted[TurnBusOf]
    BY <1>1, ReportedIsNoRetry DEF Rethrow
  <1>2. CASE ~aborted[TurnBusOf]
    BY <1>2 DEF NoRetry, TurnBusOf
  <1> QED BY <1>1, <1>2

LEMMA NextNoRetry ==
  ASSUME TypeInv, [Next]_vars, Hazards \cap Clocks = {}
  PROVE  NoRetry
  <1> "stt" \in Hop /\ "llm" \in Hop /\ "tts" \in Hop
    BY DEF Hop
  <1>1. CASE UNCHANGED act
    BY <1>1, NoRetryIfKept
  <1>2. CASE Transcribe
    <2>1. CASE StartTranscribe
      BY <2>1, NoRetryIfKept DEF StartTranscribe, Pickup, TypeInv, TypeOK
    <2>2. CASE TranscribeStored
      BY <2>2, ReportedIsNoRetry, RethrowNoRetry DEF TranscribeStored
    <2> QED BY <1>1, <1>2, <2>1, <2>2 DEF Transcribe, TranscribeOpens, TranscribePartial,
        TranscribeFlush, TranscribeFinal, TranscribeError, TranscribeDrained
  <1>3. CASE StartRespond
    BY <1>3, NoRetryIfKept DEF StartRespond, Pickup, TypeInv, TypeOK
  <1>4. ASSUME NEW n \in RespondAttempt, Respond(n)
        PROVE  NoRetry
    <2>1. CASE RespondToNothing(n) \/ RespondCompletes(n)
      BY <2>1, ReportedIsNoRetry DEF RespondToNothing, RespondCompletes
    <2>2. CASE RespondInputFails(n) \/ RespondRefused(n) \/ RespondFails(n)
      BY <2>2, RethrowNoRetry DEF RespondInputFails, RespondRefused, RespondFails, RespondThrows
    <2> QED BY <1>1, <1>4, <2>1, <2>2 DEF Respond, RespondReads, RespondInputEnds, RespondAsks,
        RespondSentence
  <1>5. CASE StartSynthesize
    BY <1>5, NoRetryIfKept DEF StartSynthesize, Pickup, TypeInv, TypeOK
  <1>6. ASSUME NEW n \in SynthesizeAttempt, Synthesize(n)
        PROVE  NoRetry
    <2>1. CASE SynthesizeStored(n)
      BY <2>1, ReportedIsNoRetry, RethrowNoRetry DEF SynthesizeStored
    <2> QED BY <1>1, <1>6, <2>1 DEF Synthesize, SynthesizeConnects, SynthesizeOpens,
        SynthesizeSends, SynthesizeFlush, SynthesizeInputFails, SynthesizeChunk,
        SynthesizeQuiet, SynthesizeSocketCloses, SynthesizeError, SynthesizeDrained
  <1>7. CASE CancelWorkflow
    BY <1>7, NoRetryIfKept DEF CancelWorkflow, TypeInv, TypeOK
  <1>8. CASE \E h \in Hop : TimeOut(h)
    BY <1>8 DEF TimeOut, ClockHazard, Clocks, Hop
  <1>9. CASE \/ AudioEnd \/ BargeIn \/ TemporalCancels \/ Settle \/ EndTurn
             \/ CloseWorkflow \/ Crash
    BY <1>1, <1>9 DEF AudioEnd, BargeIn, TemporalCancels, Settle, EndTurn,
        DisposeTurnBus, CloseTurnBus, CloseWorkflow, Crash
  <1>10. CASE UNCHANGED vars
    BY <1>1, <1>10 DEF vars
  <1> QED BY <1>2, <1>3, <1>4, <1>5, <1>6, <1>7, <1>8, <1>9, <1>10 DEF Next

-----------------------------------------------------------------------------
(* What Temporal holds of a hop moves in few ways: a hop that succeeded,     *)
(* failed or was cancelled stays so, and the turn is torn down only when all *)
(* three succeeded or one of them never will.                                *)

ActStep(h) ==
  \/ act'[h] = act[h] /\ attempt'[h] = attempt[h]
  \/ /\ act[h] = "scheduled" /\ attempt[h] < MaxAttempts(h)
     /\ act'[h] = "started" /\ attempt'[h] = attempt[h] + 1
  \/ act[h] = "scheduled" /\ act'[h] = "cancelled" /\ attempt'[h] = attempt[h]
  \/ /\ act[h] = "started" /\ act'[h] \in {"completed", "failed", Retry(h)}
     /\ attempt'[h] = attempt[h]

Broken  == \E h \in Hop : act[h] \in {"failed", "cancelled"}
AllDone == \A h \in Hop : act[h] = "completed"

EndsForAReason == wf # "running" => Broken \/ AllDone

StartedIsAnAttempt ==
  /\ \A h \in Hop : act[h] \in {"started", "completed"} =>
       attempt[h] > 0 /\ attempt[h] <= MaxAttempts(h)
  /\ stt.pc # "off" => attempt["stt"] > 0

LEMMA ReportActStep ==
  ASSUME TypeInv, NEW h \in Hop, NEW n, NEW outcome \in {"completed", "failed", Retry(h)},
         Report(h, n, outcome), NEW g \in Hop
  PROVE  ActStep(g)
  BY DEF Report, ActStep, TypeInv, TypeOK

LEMMA RethrowActStep ==
  ASSUME TypeInv, NEW h \in Hop, NEW n, Rethrow(h, n), NEW g \in Hop
  PROVE  ActStep(g)
  <1>1. (IF aborted[TurnBusOf] THEN "failed" ELSE Retry(h)) \in {"completed", "failed", Retry(h)}
    OBVIOUS
  <1> QED BY <1>1, ReportActStep DEF Rethrow

LEMMA PickupActStep ==
  ASSUME TypeInv, NEW h \in Hop, Pickup(h), NEW g \in Hop
  PROVE  ActStep(g)
  BY DEF Pickup, ActStep, TypeInv, TypeOK

LEMMA NextActStep ==
  ASSUME TypeInv, [Next]_vars, NEW g \in Hop
  PROVE  ActStep(g)
  <1> "stt" \in Hop /\ "llm" \in Hop /\ "tts" \in Hop
    BY DEF Hop
  <1>1. CASE UNCHANGED <<act, attempt>>
    BY <1>1 DEF ActStep
  <1>2. CASE Transcribe
    <2>1. CASE StartTranscribe
      BY <2>1, PickupActStep DEF StartTranscribe
    <2>2. CASE TranscribeStored
      BY <2>2, ReportActStep, RethrowActStep DEF TranscribeStored
    <2>3. CASE ~StartTranscribe /\ ~TranscribeStored
      <3>1. UNCHANGED <<act, attempt>>
        BY <1>2, <2>3 DEF Transcribe, TranscribeOpens, TranscribePartial, TranscribeFlush,
           TranscribeFinal, TranscribeError, TranscribeDrained
      <3> QED BY <1>1, <3>1
    <2> QED BY <2>1, <2>2, <2>3
  <1>3. CASE StartRespond
    BY <1>3, PickupActStep DEF StartRespond
  <1>4. ASSUME NEW n \in RespondAttempt, Respond(n)
        PROVE  ActStep(g)
    <2>1. CASE RespondToNothing(n) \/ RespondCompletes(n)
      BY <2>1, ReportActStep DEF RespondToNothing, RespondCompletes
    <2>2. CASE RespondInputFails(n) \/ RespondRefused(n) \/ RespondFails(n)
      BY <2>2, RethrowActStep DEF RespondInputFails, RespondRefused, RespondFails, RespondThrows
    <2> QED BY <1>1, <1>4, <2>1, <2>2 DEF Respond, RespondReads, RespondInputEnds, RespondAsks,
        RespondSentence
  <1>5. CASE StartSynthesize
    BY <1>5, PickupActStep DEF StartSynthesize
  <1>6. ASSUME NEW n \in SynthesizeAttempt, Synthesize(n)
        PROVE  ActStep(g)
    <2>1. CASE SynthesizeStored(n)
      BY <2>1, ReportActStep, RethrowActStep DEF SynthesizeStored
    <2> QED BY <1>1, <1>6, <2>1 DEF Synthesize, SynthesizeConnects, SynthesizeOpens,
        SynthesizeSends, SynthesizeFlush, SynthesizeInputFails, SynthesizeChunk,
        SynthesizeQuiet, SynthesizeSocketCloses, SynthesizeError, SynthesizeDrained
  <1>7. CASE CancelWorkflow
    BY <1>7 DEF CancelWorkflow, ActStep, TypeInv, TypeOK
  <1>8. ASSUME NEW h \in Hop, TimeOut(h)
        PROVE  ActStep(g)
    BY <1>8 DEF TimeOut, ActStep, TypeInv, TypeOK
  <1>9. CASE \/ AudioEnd \/ BargeIn \/ TemporalCancels \/ Settle \/ EndTurn
             \/ CloseWorkflow \/ Crash
    BY <1>1, <1>9 DEF AudioEnd, BargeIn, TemporalCancels, Settle, EndTurn,
        DisposeTurnBus, CloseTurnBus, CloseWorkflow, Crash
  <1>10. CASE UNCHANGED vars
    BY <1>1, <1>10 DEF vars
  <1> QED BY <1>2, <1>3, <1>4, <1>5, <1>6, <1>7, <1>8, <1>9, <1>10 DEF Next

\* What Temporal has settled stays settled.
LEMMA Settled ==
  ASSUME TypeInv, [Next]_vars
  PROVE  (Broken => Broken') /\ (AllDone => AllDone')
  BY NextActStep DEF ActStep, Broken, AllDone

\* Who can move the workflow.
LEMMA NextWf ==
  ASSUME [Next]_vars
  PROVE  wf' = wf \/ Settle \/ CloseWorkflow
  BY DEF Next, vars, flowVars, Transcribe, StartTranscribe, TranscribeOpens, TranscribePartial,
     TranscribeFlush, TranscribeFinal, TranscribeError, TranscribeDrained, TranscribeStored,
     sttFrame, StartRespond, Respond, RespondReads, RespondInputEnds, RespondInputFails,
     RespondToNothing, RespondAsks, RespondRefused, RespondSentence, RespondCompletes,
     RespondFails, RespondThrows, llmFrame, StartSynthesize, Synthesize, SynthesizeConnects,
     SynthesizeOpens, SynthesizeSends, SynthesizeFlush, SynthesizeInputFails, SynthesizeChunk,
     SynthesizeQuiet, SynthesizeSocketCloses, SynthesizeError, SynthesizeDrained,
     SynthesizeStored, ttsFrame, AudioEnd, BargeIn, CancelWorkflow, gatewayFrame,
     TemporalCancels, TimeOut, EndTurn, Crash

\* Outside transcribe's own steps, a crash alone moves its program counter.
LEMMA OthersKeepStt ==
  ASSUME TypeInv, [Next]_vars, ~Transcribe
  PROVE  /\ stt'.text = stt.text /\ stt'.bus = stt.bus
         /\ stt'.pc = stt.pc \/ (stt'.pc = "dead" /\ stt.pc \notin Finished)
  <1>1. CASE UNCHANGED stt
    BY <1>1
  <1>2. CASE StartRespond \/ \E n \in RespondAttempt : Respond(n)
    <2>1. UNCHANGED stt
      BY <1>2 DEF StartRespond, Respond, RespondReads, RespondInputEnds, RespondInputFails,
         RespondToNothing, RespondAsks, RespondRefused, RespondSentence, RespondCompletes,
         RespondFails, RespondThrows, llmFrame
    <2> QED BY <1>1, <2>1
  <1>3. CASE StartSynthesize \/ \E n \in SynthesizeAttempt : Synthesize(n)
    <2>1. UNCHANGED stt
      BY <1>3 DEF StartSynthesize, Synthesize, SynthesizeConnects, SynthesizeOpens,
         SynthesizeSends, SynthesizeFlush, SynthesizeInputFails, SynthesizeChunk,
         SynthesizeQuiet, SynthesizeSocketCloses, SynthesizeError, SynthesizeDrained,
         SynthesizeStored, ttsFrame
    <2> QED BY <1>1, <2>1
  <1>4. CASE \/ AudioEnd \/ BargeIn \/ CancelWorkflow \/ Settle \/ EndTurn \/ CloseWorkflow
             \/ \E h \in Hop : TimeOut(h)
    BY <1>1, <1>4 DEF AudioEnd, BargeIn, CancelWorkflow, Settle, EndTurn,
        DisposeTurnBus, CloseTurnBus, CloseWorkflow, TimeOut,
       gatewayFrame, hopVars
  <1>5. CASE TemporalCancels
    <2>1. CASE stt' = [stt EXCEPT !.ctx = TRUE]
      BY <2>1 DEF TypeInv, TypeOK, SttAttempt
    <2> QED BY <1>1, <1>5, <2>1 DEF TemporalCancels
  <1>6. CASE Crash
    BY <1>6 DEF Crash, Dead, TypeInv, TypeOK, SttAttempt
  <1>7. CASE UNCHANGED vars
    BY <1>1, <1>7 DEF vars, hopVars
  <1> QED BY <1>2, <1>3, <1>4, <1>5, <1>6, <1>7 DEF Next

\* Whoever runs was started, and the workflow leaves "running" for a reason.
TurnInv == TypeInv /\ EndsForAReason /\ StartedIsAnAttempt

LEMMA InitTurnInv == Init => TurnInv
  <1> SUFFICES ASSUME Init PROVE TurnInv
    OBVIOUS
  <1>1. EndsForAReason /\ StartedIsAnAttempt
    BY DEF Init, EndsForAReason, StartedIsAnAttempt, SttOff
  <1> QED BY <1>1, InitTypeInv DEF TurnInv

LEMMA NextTurnInv ==
  ASSUME TurnInv, [Next]_vars
  PROVE  TurnInv'
  <1> "stt" \in Hop
    BY DEF Hop
  <1> TypeInv
    BY DEF TurnInv
  <1>1. TypeInv'
    BY NextTypeInv
  <1>2. EndsForAReason'
    <2>1. CASE wf' = wf
      BY <2>1, Settled DEF TurnInv, EndsForAReason
    <2>2. CASE Settle
      <3>1. Broken \/ AllDone
        BY <2>2 DEF Settle, Broken, AllDone
      <3> QED BY <3>1, Settled DEF EndsForAReason
    <2>3. CASE CloseWorkflow
      <3>1. Broken \/ AllDone
        BY <2>3 DEF CloseWorkflow, TurnInv, EndsForAReason
      <3> QED BY <3>1, Settled DEF EndsForAReason
    <2> QED BY <2>1, <2>2, <2>3, NextWf
  <1>3. ASSUME NEW h \in Hop, act'[h] \in {"started", "completed"}
        PROVE  attempt'[h] > 0 /\ attempt'[h] <= MaxAttempts(h)
    <2>1. ActStep(h)
      BY NextActStep
    <2>2. /\ attempt[h] \in Nat
          /\ act[h] \in {"started", "completed"} =>
               attempt[h] > 0 /\ attempt[h] <= MaxAttempts(h)
      BY DEF TurnInv, StartedIsAnAttempt, TypeInv, TypeOK
    <2>3. CASE act[h] = "scheduled"
      <3>1. /\ act'[h] = "started" /\ attempt'[h] = attempt[h] + 1
            /\ attempt[h] < MaxAttempts(h)
        BY <1>3, <2>1, <2>3 DEF ActStep
      <3>2. MaxAttempts(h) \in Nat
        BY TurnConstants DEF MaxAttempts, Hop
      <3> QED BY <2>2, <3>1, <3>2
    <2> QED BY <1>3, <2>1, <2>2, <2>3 DEF ActStep
  <1>4. stt'.pc # "off" => attempt'["stt"] > 0
    <2>1. ActStep("stt") /\ attempt["stt"] \in Nat
      BY NextActStep DEF TypeInv, TypeOK
    <2>2. attempt'["stt"] \in Nat /\ attempt'["stt"] >= attempt["stt"]
      BY <2>1 DEF ActStep
    <2>3. CASE stt.pc # "off"
      BY <2>1, <2>2, <2>3 DEF TurnInv, StartedIsAnAttempt
    <2>4. CASE stt.pc = "off" /\ ~Transcribe
      BY <2>4, OthersKeepStt DEF Finished
    <2>5. CASE stt.pc = "off" /\ Transcribe
      <3>1. StartTranscribe
        BY <2>5 DEF Transcribe, TranscribeOpens, TranscribePartial, TranscribeFlush,
           TranscribeFinal, TranscribeError, TranscribeDrained, TranscribeStored
      <3>2. attempt'["stt"] = attempt["stt"] + 1
        BY <3>1 DEF StartTranscribe, Pickup, TypeInv, TypeOK
      <3> QED BY <2>1, <3>2
    <2> QED BY <2>3, <2>4, <2>5
  <1>5. StartedIsAnAttempt'
    BY <1>3, <1>4 DEF StartedIsAnAttempt
  <1> QED BY <1>1, <1>2, <1>5 DEF TurnInv

-----------------------------------------------------------------------------
(* The model is asked about all of the utterance.  The one transcript that   *)
(* ends respond's wait is the final one, which says what transcribe ended    *)
(* with; and transcribe closes the channel behind it, so the wait can only   *)
(* end without it in a turn that is over or will never succeed.              *)

\* Transcribe has its final text, and will not change it.
Heard == {"drainOk", "storeOk", "doneOk", "dead"}

FinalIsTheText ==
  \A b \in Bus : \A i \in 1..Len(transcripts[b].items) :
    transcripts[b].items[i].final =>
      transcripts[b].items[i].text = stt.text /\ stt.pc \in Heard

EndsInFinal(c) == Len(c.items) > 0 /\ c.items[Len(c.items)].final

ClosedBehindFinal ==
  /\ stt.pc = "drainOk" /\ transcripts[stt.bus].state = "open" =>
       EndsInFinal(transcripts[stt.bus])
  /\ \A b \in Bus : transcripts[b].state = "closed" =>
       Broken \/ AllDone \/ EndsInFinal(transcripts[b])

WaitsForFinal ==
  \A n \in RespondAttempt : llm[n].pc = "waiting" =>
    /\ llm[n].cur <= Len(transcripts[llm[n].bus].items)
    /\ \A i \in 1..llm[n].cur : ~transcripts[llm[n].bus].items[i].final

\* The attempt that Temporal listens to has left its wait, or has succeeded.
Asked ==
  \/ act["llm"] = "completed"
  \/ act["llm"] = "started" /\ llm[attempt["llm"]].pc \in {"awaitLang", "generating"}

AskedEverything ==
  Asked => Broken \/ (llm[attempt["llm"]].prompt = stt.text /\ stt.pc \in Heard)

CompletedHasEnded == act["llm"] = "completed" => llm[attempt["llm"]].pc \in Finished

PromptInv ==
  FinalIsTheText /\ ClosedBehindFinal /\ WaitsForFinal /\ AskedEverything /\ CompletedHasEnded

LEMMA InitPromptInv == Init => PromptInv
  <1> SUFFICES ASSUME Init PROVE PromptInv
    OBVIOUS
  <1>1. \A b \in Bus : Len(transcripts[b].items) = 0 /\ transcripts[b].state = "open"
    BY DEF Init, EmptyChannel
  <1>2. FinalIsTheText /\ ClosedBehindFinal
    BY <1>1 DEF FinalIsTheText, ClosedBehindFinal, Init, SttOff
  <1>3. WaitsForFinal /\ AskedEverything /\ CompletedHasEnded
    BY DEF Init, WaitsForFinal, AskedEverything, Asked, CompletedHasEnded, LlmOff, Hop
  <1> QED BY <1>2, <1>3 DEF PromptInv

\* A push adds one item to an open channel, behind those it holds.
LEMMA PushItems ==
  ASSUME NEW Item, NEW c \in Channel(Item), NEW item \in Item
  PROVE  /\ Push(c, item).state = c.state
         /\ c.state # "open" => Push(c, item) = c
         /\ c.state = "open" => /\ Len(Push(c, item).items) = Len(c.items) + 1
                                /\ Push(c, item).items[Len(c.items) + 1] = item
         /\ Len(c.items) \in Nat /\ Len(c.items) <= Len(Push(c, item).items)
         /\ \A i \in 1..Len(c.items) : Push(c, item).items[i] = c.items[i]
  <1>1. c.items \in Seq(Item)
    BY DEF Channel
  <1>2. c.state = "open" =>
          Push(c, item).state = c.state /\ Push(c, item).items = Append(c.items, item)
    BY DEF Push, Channel
  <1>3. c.state # "open" => Push(c, item) = c
    BY DEF Push
  <1> QED BY <1>1, <1>2, <1>3

\* What a channel holds is never taken back while the worker lives.
Grows(c, d) ==
  /\ Len(c.items) <= Len(d.items)
  /\ \A i \in 1..Len(c.items) : d.items[i] = c.items[i]

LEMMA WaitGoesOn ==
  ASSUME TypeInv, WaitsForFinal, UNCHANGED llm, TypeInv',
         \A b \in Bus : Grows(transcripts[b], transcripts'[b])
  PROVE  WaitsForFinal'
  <1> SUFFICES ASSUME NEW n \in RespondAttempt, llm[n].pc = "waiting"
               PROVE  /\ llm[n].cur <= Len(transcripts'[llm[n].bus].items)
                      /\ \A i \in 1..llm[n].cur : ~transcripts'[llm[n].bus].items[i].final
    BY DEF WaitsForFinal
  <1> DEFINE b == llm[n].bus
             k == llm[n].cur
  <1>1. b \in Bus /\ k \in Nat
    BY DEF TypeInv, TypeOK, RefInv, LlmAttempt
  <1>2. Len(transcripts[b].items) \in Nat /\ Len(transcripts'[b].items) \in Nat
    BY <1>1 DEF TypeInv, TypeOK, Channel
  <1>3. /\ k <= Len(transcripts[b].items)
        /\ \A i \in 1..k : ~transcripts[b].items[i].final
    BY DEF WaitsForFinal
  <1>4. Grows(transcripts[b], transcripts'[b])
    BY <1>1
  <1> HIDE DEF b, k
  <1>5. k <= Len(transcripts'[b].items)
    BY <1>1, <1>2, <1>3, <1>4 DEF Grows
  <1>6. \A i \in 1..k : i \in 1..Len(transcripts[b].items)
    BY <1>1, <1>2, <1>3
  <1>7. \A i \in 1..k : ~transcripts'[b].items[i].final
    BY <1>3, <1>4, <1>6 DEF Grows
  <1> QED BY <1>5, <1>7 DEF b, k

\* Transcribe keeps a text it has found final; what was asked of it stays right.
SttSettles == stt.pc \in Heard => stt'.pc \in Heard /\ stt'.text = stt.text

LEMMA AskedStays ==
  ASSUME AskedEverything, SttSettles, Broken => Broken',
         Asked' => Asked /\ llm'[attempt'["llm"]].prompt = llm[attempt["llm"]].prompt
  PROVE  AskedEverything'
  BY DEF AskedEverything, SttSettles

\* A step that pushes no transcript, and does not leave transcribe draining.
LEMMA NoTranscript ==
  ASSUME TypeInv, PromptInv, SttSettles, Broken => Broken', AllDone => AllDone',
         stt'.pc # "drainOk",
         \A b \in Bus : /\ transcripts'[b].items = transcripts[b].items
                        /\ transcripts'[b].state = "closed" =>
                             transcripts[b].state = "closed" \/ EndsInFinal(transcripts[b])
  PROVE  /\ FinalIsTheText' /\ ClosedBehindFinal'
         /\ \A b \in Bus : Grows(transcripts[b], transcripts'[b])
  <1>1. FinalIsTheText'
    BY DEF PromptInv, FinalIsTheText, SttSettles
  <1>2. ClosedBehindFinal'
    BY DEF PromptInv, ClosedBehindFinal, EndsInFinal
  <1>3. \A b \in Bus : Len(transcripts[b].items) \in Nat
    BY DEF TypeInv, TypeOK, Channel
  <1> QED BY <1>1, <1>2, <1>3 DEF Grows

\* A step that pushes one, final when it is the last.
LEMMA OneTranscript ==
  ASSUME TypeInv, PromptInv, Broken => Broken', AllDone => AllDone',
         stt.pc = "listening", stt'.pc \in {"listening", "drainOk"}, stt'.bus = stt.bus,
         NEW item \in Transcript, item.text = stt'.text, item.final <=> stt'.pc = "drainOk",
         transcripts' = [transcripts EXCEPT ![stt.bus] = Push(@, item)]
  PROVE  /\ FinalIsTheText' /\ ClosedBehindFinal'
         /\ \A b \in Bus : Grows(transcripts[b], transcripts'[b])
  <1> DEFINE c == transcripts[stt.bus]
             d == Push(c, item)
  <1>1. stt.bus \in Bus /\ c \in Channel(Transcript)
    BY DEF TypeInv, TypeOK, RefInv
  <1>2. /\ transcripts'[stt.bus] = d
        /\ \A b \in Bus : b # stt.bus => transcripts'[b] = transcripts[b]
    BY <1>1 DEF TypeInv, TypeOK
  <1>3. /\ d.state = c.state
        /\ c.state # "open" => d = c
        /\ c.state = "open" => /\ Len(d.items) = Len(c.items) + 1
                               /\ d.items[Len(c.items) + 1] = item
        /\ Len(c.items) \in Nat /\ Len(c.items) <= Len(d.items)
        /\ \A i \in 1..Len(c.items) : d.items[i] = c.items[i]
    <2> HIDE DEF c
    <2> QED BY <1>1, PushItems
  <1>4. \A b \in Bus : \A i \in 1..Len(transcripts[b].items) : ~transcripts[b].items[i].final
    BY DEF PromptInv, FinalIsTheText, Heard
  <1>5. \A b \in Bus : Len(transcripts[b].items) \in Nat
    BY DEF TypeInv, TypeOK, Channel
  <1> HIDE DEF d
  <1>6. \A b \in Bus : Grows(transcripts[b], transcripts'[b])
    <2> SUFFICES ASSUME NEW b \in Bus PROVE Grows(transcripts[b], transcripts'[b])
      OBVIOUS
    <2>1. CASE b = stt.bus
      BY <2>1, <1>2, <1>3 DEF Grows
    <2>2. CASE b # stt.bus
      BY <2>2, <1>2, <1>5 DEF Grows
    <2> QED BY <2>1, <2>2
  <1>7. FinalIsTheText'
    <2> SUFFICES ASSUME NEW b \in Bus, NEW i \in 1..Len(transcripts'[b].items),
                        transcripts'[b].items[i].final
                 PROVE  transcripts'[b].items[i].text = stt'.text /\ stt'.pc \in Heard
      BY DEF FinalIsTheText
    <2>1. b = stt.bus
      BY <1>2, <1>4
    <2>2. i \in 1..Len(d.items) /\ d.items[i].final
      BY <2>1, <1>2
    <2>3. c.state = "open" /\ i = Len(c.items) + 1
      <3>1. i \notin 1..Len(c.items)
        BY <1>1, <1>3, <1>4, <2>2
      <3> HIDE DEF c
      <3> QED BY <3>1, <1>3, <2>2
    <2>4. transcripts'[b].items[i] = item
      BY <2>1, <2>3, <1>2, <1>3
    <2> QED BY <2>4 DEF Heard
  <1>8. ClosedBehindFinal'
    <2>1. stt'.pc = "drainOk" /\ transcripts'[stt'.bus].state = "open" =>
            EndsInFinal(transcripts'[stt'.bus])
      <3> SUFFICES ASSUME stt'.pc = "drainOk", d.state = "open" PROVE EndsInFinal(d)
        BY <1>2
      <3>1. c.state = "open" /\ item.final
        BY <1>3
      <3> HIDE DEF c
      <3>2. Len(d.items) > 0 /\ d.items[Len(d.items)] = item
        BY <3>1, <1>3
      <3> QED BY <3>1, <3>2 DEF EndsInFinal
    <2>2. ASSUME NEW b \in Bus, transcripts'[b].state = "closed"
          PROVE  Broken' \/ AllDone' \/ EndsInFinal(transcripts'[b])
      <3>1. transcripts'[b] = transcripts[b]
        <4>1. CASE b = stt.bus
          BY <4>1, <2>2, <1>2, <1>3
        <4>2. CASE b # stt.bus
          BY <4>2, <1>2
        <4> QED BY <4>1, <4>2
      <3> QED BY <3>1, <2>2 DEF PromptInv, ClosedBehindFinal
    <2> QED BY <2>1, <2>2 DEF ClosedBehindFinal
  <1> QED BY <1>6, <1>7, <1>8

LEMMA TranscribePromptInv ==
  ASSUME TurnInv, PromptInv, TypeInv', Transcribe
  PROVE  PromptInv'
  <1> TypeInv /\ [Next]_vars
    BY DEF TurnInv, Next
  <1> "stt" \in Hop /\ "llm" \in {"llm", "tts"}
    BY DEF Hop
  <1>1. (Broken => Broken') /\ (AllDone => AllDone')
    BY Settled
  <1>2. stt.pc # "off" => stt.bus \in Bus /\ transcripts[stt.bus] \in Channel(Transcript)
    BY DEF TypeInv, TypeOK, RefInv
  <1>3. UNCHANGED llm /\ act'["llm"] = act["llm"] /\ attempt'["llm"] = attempt["llm"]
    BY TranscribeAlone
  <1>4. ASSUME SttSettles, FinalIsTheText', ClosedBehindFinal',
               \A b \in Bus : Grows(transcripts[b], transcripts'[b])
        PROVE  PromptInv'
    <2>1. WaitsForFinal'
      BY <1>3, <1>4, WaitGoesOn DEF PromptInv
    <2>2. AskedEverything'
      BY <1>1, <1>3, <1>4, AskedStays DEF PromptInv, Asked
    <2>3. CompletedHasEnded'
      BY <1>3 DEF PromptInv, CompletedHasEnded
    <2> QED BY <1>4, <2>1, <2>2, <2>3 DEF PromptInv
  <1>5. CASE StartTranscribe \/ TranscribeOpens \/ TranscribeFlush
    <2>1. stt.pc \notin Heard
      <3>1. CASE StartTranscribe
        <4>1. attempt["stt"] < 1 /\ attempt["stt"] \in Nat
          BY <3>1 DEF StartTranscribe, Pickup, MaxAttempts, TypeInv, TypeOK
        <4>2. stt.pc = "off"
          BY <4>1 DEF TurnInv, StartedIsAnAttempt
        <4> QED BY <4>2 DEF Heard
      <3> QED BY <1>5, <3>1 DEF TranscribeOpens, TranscribeFlush, Heard
    <2>2. stt'.pc # "drainOk" /\ UNCHANGED transcripts
      BY <1>5 DEF StartTranscribe, TranscribeOpens, TranscribeFlush, busVars, SttOff,
         TypeInv, TypeOK, SttAttempt
    <2> QED BY <1>1, <1>4, <2>1, <2>2, NoTranscript DEF SttSettles
  <1>6. CASE TranscribePartial
    <2> DEFINE item == [text |-> stt.text + 1, final |-> FALSE]
    <2>1. item \in Transcript /\ item.text = stt'.text /\ item.final = FALSE
      BY <1>6 DEF TranscribePartial, TypeInv, TypeOK, SttAttempt, Transcript
    <2>2. /\ stt.pc = "listening" /\ stt'.pc = "listening" /\ stt'.bus = stt.bus
          /\ transcripts' = [transcripts EXCEPT ![stt.bus] = Push(@, item)]
      BY <1>6 DEF TranscribePartial, TypeInv, TypeOK, SttAttempt
    <2> HIDE DEF item
    <2>3. item.final <=> stt'.pc = "drainOk"
      BY <2>1, <2>2
    <2>4. SttSettles
      BY <2>2 DEF SttSettles, Heard
    <2> QED BY <1>1, <1>4, <2>1, <2>2, <2>3, <2>4, OneTranscript
  <1>7. CASE TranscribeFinal
    <2>1. PICK text : /\ text \in {stt.text} \cup {m \in {stt.text + 1} :
                                          audio /\ stt.flushed /\ m <= MaxText}
                      /\ stt' = [stt EXCEPT !.pc = "drainOk", !.text = text]
                      /\ transcripts' = [transcripts EXCEPT ![stt.bus] =
                                           Push(@, [text |-> text, final |-> TRUE])]
      BY <1>7 DEF TranscribeFinal
    <2> DEFINE item == [text |-> text, final |-> TRUE]
    <2>2. text \in Nat
      BY <2>1 DEF TypeInv, TypeOK, SttAttempt
    <2>3. item \in Transcript /\ item.text = text /\ item.final = TRUE
      BY <2>2 DEF Transcript
    <2>4. /\ stt.pc = "listening" /\ stt'.pc = "drainOk" /\ stt'.bus = stt.bus
          /\ stt'.text = text
      BY <1>7, <2>1 DEF TranscribeFinal, TypeInv, TypeOK, SttAttempt
    <2>5. transcripts' = [transcripts EXCEPT ![stt.bus] = Push(@, item)]
      BY <2>1
    <2> HIDE DEF item
    <2>6. item.final <=> stt'.pc = "drainOk"
      BY <2>3, <2>4
    <2>7. SttSettles
      BY <2>4 DEF SttSettles, Heard
    <2> QED BY <1>1, <1>4, <2>3, <2>4, <2>5, <2>6, <2>7, OneTranscript
  <1>8. CASE TranscribeError \/ (TranscribeDrained /\ stt.pc = "drainErr")
    <2>1. /\ stt.pc \notin Heard /\ stt.pc # "off" /\ stt'.pc # "drainOk"
          /\ \/ UNCHANGED transcripts
             \/ transcripts' = [transcripts EXCEPT ![stt.bus] = Fail(@)]
      BY <1>8 DEF TranscribeError, TranscribeDrained, Heard, TypeInv, TypeOK, SttAttempt
    <2>2. \A b \in Bus : /\ transcripts'[b].items = transcripts[b].items
                         /\ transcripts'[b].state = "closed" => transcripts[b].state = "closed"
      <3> DEFINE c == transcripts[stt.bus]
      <3>1. Fail(c).items = c.items /\ (Fail(c).state # "closed" \/ Fail(c) = c)
        BY <1>2, <2>1 DEF Fail, Channel
      <3>2. CASE transcripts' = [transcripts EXCEPT ![stt.bus] = Fail(c)]
        <4>1. \A b \in Bus : transcripts'[b] = IF b = stt.bus THEN Fail(c) ELSE transcripts[b]
          BY <3>2 DEF TypeInv, TypeOK
        <4> QED BY <3>1, <4>1
      <3> QED BY <2>1, <3>2
    <2> QED BY <1>1, <1>4, <2>1, <2>2, NoTranscript DEF SttSettles
  <1>9. CASE TranscribeDrained /\ stt.pc = "drainOk"
    <2>1. /\ stt'.pc = "storeOk" /\ stt'.text = stt.text
          /\ transcripts' = [transcripts EXCEPT ![stt.bus] = Close(@)]
      BY <1>9 DEF TranscribeDrained, TypeInv, TypeOK, SttAttempt
    <2>2. \A b \in Bus : /\ transcripts'[b].items = transcripts[b].items
                         /\ transcripts'[b].state = "closed" =>
                              transcripts[b].state = "closed" \/ EndsInFinal(transcripts[b])
      BY <1>2, <1>9, <2>1 DEF Close, Channel, TypeInv, TypeOK, PromptInv, ClosedBehindFinal
    <2>3. SttSettles
      BY <2>1 DEF SttSettles, Heard
    <2> QED BY <1>1, <1>4, <2>1, <2>2, <2>3, NoTranscript
  <1>10. CASE TranscribeStored
    <2>1. /\ stt'.text = stt.text /\ UNCHANGED transcripts
          /\ \/ stt.pc = "storeOk" /\ stt'.pc = "doneOk"
             \/ stt.pc = "storeErr" /\ stt'.pc = "doneErr"
      BY <1>10 DEF TranscribeStored, TypeInv, TypeOK, SttAttempt
    <2>2. SttSettles
      BY <2>1 DEF SttSettles, Heard
    <2> QED BY <1>1, <1>4, <2>1, <2>2, NoTranscript
  <1>11. TranscribeDrained => stt.pc \in {"drainOk", "drainErr"}
    BY DEF TranscribeDrained
  <1> QED BY <1>5, <1>6, <1>7, <1>8, <1>9, <1>10, <1>11 DEF Transcribe

\* Respond and synthesize leave transcribe, and what it has said, alone.
LEMMA RespondKeepsInput ==
  ASSUME NEW n \in RespondAttempt, Respond(n)
  PROVE  UNCHANGED <<stt, transcripts>>
  BY DEF Respond, RespondReads, RespondInputEnds, RespondInputFails, RespondToNothing, RespondAsks,
     RespondRefused, RespondSentence, RespondCompletes, RespondFails, RespondThrows, llmFrame, busVars

LEMMA SynthesizeKeepsInput ==
  ASSUME NEW n \in SynthesizeAttempt, Synthesize(n)
  PROVE  UNCHANGED <<stt, transcripts>>
  BY DEF Synthesize, SynthesizeConnects, SynthesizeOpens, SynthesizeSends, SynthesizeFlush,
     SynthesizeInputFails, SynthesizeChunk, SynthesizeQuiet, SynthesizeSocketCloses,
     SynthesizeError, SynthesizeDrained, SynthesizeStored, ttsFrame, busVars

LEMMA InputKept ==
  ASSUME PromptInv, UNCHANGED <<stt, transcripts>>, Broken => Broken', AllDone => AllDone'
  PROVE  FinalIsTheText' /\ ClosedBehindFinal'
  BY DEF PromptInv, FinalIsTheText, ClosedBehindFinal, EndsInFinal

LEMMA AllInputKept ==
  ASSUME PromptInv, UNCHANGED <<stt, transcripts, llm>>, Broken => Broken', AllDone => AllDone',
         act'["llm"] = act["llm"], attempt'["llm"] = attempt["llm"]
  PROVE  PromptInv'
  <1>1. FinalIsTheText' /\ ClosedBehindFinal'
    BY InputKept
  <1>2. WaitsForFinal' /\ AskedEverything' /\ CompletedHasEnded'
    BY DEF PromptInv, WaitsForFinal, AskedEverything, Asked, CompletedHasEnded
  <1> QED BY <1>1, <1>2 DEF PromptInv

\* The attempt Temporal listens to is one of the attempts.
LEMMA ListenedTo ==
  ASSUME TurnInv, act["llm"] \in {"started", "completed"}
  PROVE  attempt["llm"] \in RespondAttempt
  BY AttemptBounds, TurnConstants
  DEF TurnInv, StartedIsAnAttempt, TypeInv, TypeOK, Hop, RespondAttempt

\* A report by the attempt listened to is taken, and by any other ignored.
LEMMA ReportTaken ==
  ASSUME TypeInv, NEW h \in Hop, NEW n, NEW outcome, Report(h, n, outcome)
  PROVE  /\ attempt' = attempt
         /\ act[h] = "started" /\ attempt[h] = n => act'[h] = outcome
         /\ ~(act[h] = "started" /\ attempt[h] = n) => act' = act
  BY DEF Report, TypeInv, TypeOK

LEMMA RethrowTaken ==
  ASSUME TypeInv, NEW h \in Hop, NEW n, Rethrow(h, n)
  PROVE  /\ attempt' = attempt
         /\ act[h] = "started" /\ attempt[h] = n => act'[h] \in {"failed", "scheduled"}
         /\ ~(act[h] = "started" /\ attempt[h] = n) => act' = act
  <1>1. (IF aborted[TurnBusOf] THEN "failed" ELSE Retry(h)) \in {"failed", "scheduled"}
    BY DEF Retry
  <1> QED BY <1>1, ReportTaken DEF Rethrow

\* What one step of an attempt of respond does to it, and to what Temporal holds.
RespondMove(n) ==
  \/ RespondReads(n) /\ UNCHANGED <<act, attempt>>
  \/ RespondInputEnds(n) /\ UNCHANGED <<act, attempt>>
  \/ /\ llm[n].pc = "awaitLang" /\ llm'[n].pc = "generating"
     /\ llm'[n].prompt = llm[n].prompt
     /\ UNCHANGED <<act, attempt>>
  \/ /\ llm[n].pc = "generating" /\ llm'[n].pc = "generating"
     /\ llm'[n].prompt = llm[n].prompt
     /\ UNCHANGED <<act, attempt>>
  \/ /\ llm[n].pc \in {"awaitLang", "generating"} /\ llm'[n].pc = "doneOk"
     /\ llm'[n].prompt = llm[n].prompt
     /\ Report("llm", n, "completed")
  \/ /\ llm[n].pc \in {"waiting", "awaitLang", "generating"} /\ llm'[n].pc = "doneErr"
     /\ Rethrow("llm", n)

LEMMA RespondMoves ==
  ASSUME TypeInv, NEW n \in RespondAttempt, Respond(n)
  PROVE  /\ RespondMove(n)
         /\ \A m \in RespondAttempt : m # n => llm'[m] = llm[m]
  <1> USE DEF RespondMove, TypeInv, TypeOK, LlmAttempt
  <1>1. CASE RespondReads(n) \/ RespondInputEnds(n)
    BY <1>1 DEF RespondReads, RespondInputEnds
  <1>2. CASE RespondAsks(n)
    BY <1>2 DEF RespondAsks
  <1>3. CASE RespondSentence(n)
    BY <1>3 DEF RespondSentence
  <1>4. CASE RespondToNothing(n) \/ RespondCompletes(n)
    BY <1>4 DEF RespondToNothing, RespondCompletes
  <1>5. CASE RespondInputFails(n) \/ RespondRefused(n) \/ RespondFails(n)
    BY <1>5 DEF RespondInputFails, RespondRefused, RespondFails, RespondThrows
  <1> QED BY <1>1, <1>2, <1>3, <1>4, <1>5 DEF Respond

\* A wait ends with the final transcript, or in a turn that is lost or over.
LEMMA WaitEnds ==
  ASSUME TypeInv, PromptInv, NEW n \in RespondAttempt,
         RespondReads(n) \/ RespondInputEnds(n)
  PROVE  /\ llm[n].pc = "waiting" /\ llm'[n].pc \in {"waiting", "awaitLang"}
         /\ llm'[n].pc = "awaitLang" =>
              \/ Broken \/ AllDone
              \/ llm'[n].prompt = stt.text /\ stt.pc \in Heard
         /\ llm'[n].pc = "waiting" =>
              /\ llm'[n].bus = llm[n].bus
              /\ llm'[n].cur <= Len(transcripts[llm[n].bus].items)
              /\ \A i \in 1..llm'[n].cur : ~transcripts[llm[n].bus].items[i].final
  <1> DEFINE c == transcripts[llm[n].bus]
             k == llm[n].cur
  <1>1. llm[n].pc = "waiting" /\ llm[n].bus \in Bus
    BY DEF RespondReads, RespondInputEnds, TypeInv, RefInv
  <1>2. c.items \in Seq(Transcript) /\ Len(c.items) \in Nat /\ k \in Nat
    BY <1>1 DEF TypeInv, TypeOK, Channel, LlmAttempt
  <1>3. k <= Len(c.items) /\ \A i \in 1..k : ~c.items[i].final
    BY <1>1 DEF PromptInv, WaitsForFinal
  <1>4. \A i \in 1..Len(c.items) : c.items[i].final =>
          c.items[i].text = stt.text /\ stt.pc \in Heard
    BY <1>1 DEF PromptInv, FinalIsTheText
  <1>5. c.state = "closed" => Broken \/ AllDone \/ EndsInFinal(c)
    BY <1>1 DEF PromptInv, ClosedBehindFinal
  <1>6. CASE RespondReads(n)
    <2>1. /\ k < Len(c.items)
          /\ llm'[n].cur = k + 1 /\ llm'[n].prompt = c.items[k + 1].text
          /\ llm'[n].bus = llm[n].bus
          /\ llm'[n].pc = IF c.items[k + 1].final THEN "awaitLang" ELSE "waiting"
      BY ZenonT(40), <1>6 DEF RespondReads, HasNext, LeavesLoop, TypeInv, TypeOK, LlmAttempt
    <2> HIDE DEF c, k
    <2>2. k + 1 \in 1..Len(c.items)
      BY <1>2, <2>1
    <2>3. CASE c.items[k + 1].final
      BY <1>1, <1>4, <2>1, <2>2, <2>3
    <2>4. CASE ~c.items[k + 1].final
      <3>1. llm'[n].cur <= Len(c.items) /\ \A i \in 1..llm'[n].cur : ~c.items[i].final
        BY <1>2, <1>3, <2>1, <2>4
      <3> QED BY <1>1, <2>1, <2>4, <3>1 DEF c
    <2> QED BY <2>3, <2>4
  <1>7. CASE RespondInputEnds(n)
    <2>1. /\ ~(k < Len(c.items)) /\ c.state = "closed"
          /\ llm'[n].pc = "awaitLang"
      BY <1>7 DEF RespondInputEnds, Ended, HasNext, TypeInv, TypeOK, LlmAttempt
    <2> HIDE DEF c, k
    <2>2. ~EndsInFinal(c)
      BY <1>2, <1>3, <2>1 DEF EndsInFinal
    <2> QED BY <1>1, <1>5, <2>1, <2>2
  <1> QED BY <1>6, <1>7

LEMMA RespondPromptInv ==
  ASSUME TurnInv, PromptInv, NEW n \in RespondAttempt, Respond(n)
  PROVE  PromptInv'
  <1> TypeInv /\ [Next]_vars
    BY DEF TurnInv, Next
  <1> "llm" \in Hop
    BY DEF Hop
  <1>1. (Broken => Broken') /\ (AllDone => AllDone') /\ ActStep("llm")
    BY Settled, NextActStep
  <1>2. UNCHANGED <<stt, transcripts>>
    BY RespondKeepsInput
  <1>3. RespondMove(n) /\ \A m \in RespondAttempt : m # n => llm'[m] = llm[m]
    BY RespondMoves
  <1>4. FinalIsTheText' /\ ClosedBehindFinal'
    BY <1>1, <1>2, InputKept
  <1>5. WaitsForFinal'
    <2> SUFFICES ASSUME NEW m \in RespondAttempt, llm'[m].pc = "waiting"
                 PROVE  /\ llm'[m].cur <= Len(transcripts[llm'[m].bus].items)
                        /\ \A i \in 1..llm'[m].cur : ~transcripts[llm'[m].bus].items[i].final
      BY <1>2 DEF WaitsForFinal
    <2>1. CASE m # n
      BY <2>1, <1>3 DEF PromptInv, WaitsForFinal
    <2>2. CASE m = n
      <3>1. RespondReads(n) \/ RespondInputEnds(n)
        BY <2>2, <1>3 DEF RespondMove
      <3> QED BY <2>2, <3>1, WaitEnds
    <2> QED BY <2>1, <2>2
  <1>6. AskedEverything' /\ CompletedHasEnded'
    <2>1. CASE act["llm"] = "started" /\ attempt["llm"] = n
      <3>1. ~AllDone /\ attempt' = attempt
        BY <1>3, <2>1, ReportTaken, RethrowTaken DEF RespondMove, AllDone
      <3>2. CASE RespondReads(n) \/ RespondInputEnds(n)
        <4>1. act' = act
          BY <1>3, <3>2, WaitEnds DEF RespondMove, RespondReads, RespondInputEnds
        <4>2. ASSUME Asked'
              PROVE  Broken \/ (llm'[n].prompt = stt.text /\ stt.pc \in Heard)
          <5>1. llm'[n].pc = "awaitLang"
            BY <2>1, <3>1, <3>2, <4>1, <4>2, WaitEnds DEF Asked
          <5> QED BY <3>1, <3>2, <5>1, WaitEnds
        <4> QED BY <1>1, <1>2, <2>1, <3>1, <4>1, <4>2 DEF AskedEverything, CompletedHasEnded
      <3>3. llm[n].pc \in {"awaitLang", "generating"} =>
              Broken \/ (llm[n].prompt = stt.text /\ stt.pc \in Heard)
        BY <2>1 DEF PromptInv, AskedEverything, Asked
      <3>4. CASE /\ llm[n].pc \in {"awaitLang", "generating"}
                 /\ llm'[n].prompt = llm[n].prompt /\ UNCHANGED act
        BY <1>1, <1>2, <2>1, <3>1, <3>3, <3>4 DEF AskedEverything, CompletedHasEnded
      <3>5. CASE /\ llm[n].pc \in {"awaitLang", "generating"} /\ llm'[n].pc = "doneOk"
                 /\ llm'[n].prompt = llm[n].prompt /\ Report("llm", n, "completed")
        BY <1>1, <1>2, <2>1, <3>1, <3>3, <3>5 DEF AskedEverything, CompletedHasEnded, Finished
      <3>6. CASE Rethrow("llm", n)
        <4>1. act'["llm"] \in {"failed", "scheduled"}
          BY <2>1, <3>6, RethrowTaken
        <4> QED BY <4>1
            DEF AskedEverything, Asked, CompletedHasEnded
      <3> QED BY <1>3, <3>2, <3>4, <3>5, <3>6 DEF RespondMove
    <2>2. CASE ~(act["llm"] = "started" /\ attempt["llm"] = n)
      <3>1. act' = act /\ attempt' = attempt
        BY <1>3, <2>2, ReportTaken, RethrowTaken DEF RespondMove
      <3>2. act["llm"] \in {"started", "completed"} => llm'[attempt["llm"]] = llm[attempt["llm"]]
        <4> SUFFICES ASSUME act["llm"] \in {"started", "completed"}
                     PROVE  llm'[attempt["llm"]] = llm[attempt["llm"]]
          OBVIOUS
        <4>1. llm[n].pc \notin Finished
          BY <1>3 DEF RespondMove, RespondReads, RespondInputEnds, Finished
        <4>2. n # attempt["llm"]
          BY <2>2, <4>1 DEF PromptInv, CompletedHasEnded
        <4> QED BY <1>3, <4>2, ListenedTo
      <3> QED BY <1>1, <1>2, <3>1, <3>2 DEF PromptInv, AskedEverything, Asked, CompletedHasEnded
    <2> QED BY <2>1, <2>2
  <1> QED BY <1>4, <1>5, <1>6 DEF PromptInv

LEMMA NextPromptInv ==
  ASSUME TurnInv, PromptInv, [Next]_vars
  PROVE  PromptInv'
  <1> TypeInv /\ TypeInv'
    BY NextTypeInv DEF TurnInv
  <1> "llm" \in Hop
    BY DEF Hop
  <1>1. (Broken => Broken') /\ (AllDone => AllDone')
    BY Settled
  <1>2. CASE Transcribe
    BY <1>2, TranscribePromptInv
  <1>3. CASE StartRespond
    <2> DEFINE k == attempt["llm"] + 1
               a == [LlmOff EXCEPT !.pc = "waiting", !.bus = TurnBusOf, !.late = torn]
    <2>1. /\ k \in RespondAttempt
          /\ act'["llm"] = "started" /\ attempt'["llm"] = k
          /\ UNCHANGED <<stt, transcripts>>
      BY <1>3, PickupType, AttemptBounds, TurnConstants
      DEF StartRespond, Pickup, TypeInv, TypeOK, RespondAttempt, llmFrame
    <2>2. llm'[k] = a /\ \A n \in RespondAttempt : n # k => llm'[n] = llm[n]
      BY <1>3, <2>1 DEF StartRespond, TypeInv, TypeOK
    <2>3. a.pc = "waiting" /\ a.cur = 0 /\ a.bus \in Bus
      BY BusLookup DEF LlmOff
    <2> HIDE DEF a, k
    <2>4. \A b \in Bus : Len(transcripts[b].items) \in Nat
      BY DEF TypeInv, TypeOK, Channel
    <2>5. WaitsForFinal'
      BY SMTT(30), <2>1, <2>2, <2>3, <2>4 DEF PromptInv, WaitsForFinal
    <2>6. AskedEverything' /\ CompletedHasEnded'
      BY <2>1, <2>2, <2>3 DEF AskedEverything, Asked, CompletedHasEnded
    <2> QED BY <1>1, <2>1, <2>5, <2>6, InputKept DEF PromptInv
  <1>4. CASE \E n \in RespondAttempt : Respond(n)
    BY <1>4, RespondPromptInv
  <1>5. CASE StartSynthesize \/ \E n \in SynthesizeAttempt : Synthesize(n)
    <2>1. UNCHANGED <<stt, transcripts>>
      BY <1>5, SynthesizeKeepsInput DEF StartSynthesize, ttsFrame
    <2> QED BY <1>1, <1>5, <2>1, SynthesizeAlone, AllInputKept
  <1>6. CASE CancelWorkflow
    <2>1. UNCHANGED <<stt, transcripts, llm, attempt>>
      BY <1>6 DEF CancelWorkflow, gatewayFrame, hopVars, busVars
    <2>2. act'["llm"] = act["llm"] \/ act'["llm"] = "cancelled"
      BY <1>6 DEF CancelWorkflow, TypeInv, TypeOK
    <2>3. CASE act'["llm"] = act["llm"]
      BY <1>1, <2>1, <2>3, AllInputKept
    <2>4. CASE act'["llm"] = "cancelled"
      BY <1>1, <2>1, <2>4, InputKept
      DEF PromptInv, WaitsForFinal, AskedEverything, Asked, CompletedHasEnded
    <2> QED BY <2>2, <2>3, <2>4
  <1>7. CASE TemporalCancels
    <2>1. /\ UNCHANGED <<transcripts, act, attempt>>
          /\ stt'.pc = stt.pc /\ stt'.bus = stt.bus /\ stt'.text = stt.text
      BY <1>7 DEF TemporalCancels, busVars, TypeInv, TypeOK, SttAttempt
    <2>2. \A n \in RespondAttempt : /\ llm'[n].pc = llm[n].pc /\ llm'[n].bus = llm[n].bus
                                    /\ llm'[n].cur = llm[n].cur
                                    /\ llm'[n].prompt = llm[n].prompt
      BY <1>7 DEF TemporalCancels, TypeInv, TypeOK, LlmAttempt
    <2>3. FinalIsTheText' /\ ClosedBehindFinal'
      BY <1>1, <2>1 DEF PromptInv, FinalIsTheText, ClosedBehindFinal, EndsInFinal
    <2>4. WaitsForFinal'
      BY <2>1, <2>2 DEF PromptInv, WaitsForFinal
    <2>5. act["llm"] \in {"started", "completed"} => attempt["llm"] \in RespondAttempt
      BY ListenedTo
    <2>6. AskedEverything' /\ CompletedHasEnded'
      BY <1>1, <2>1, <2>2, <2>5 DEF PromptInv, AskedEverything, Asked, CompletedHasEnded
    <2> QED BY <2>3, <2>4, <2>6 DEF PromptInv
  <1>8. ASSUME NEW h \in Hop, TimeOut(h)
        PROVE  PromptInv'
    <2>1. UNCHANGED <<stt, transcripts, llm, attempt>>
      BY <1>8 DEF TimeOut, hopVars, busVars
    <2>2. act'["llm"] = act["llm"] \/ act'["llm"] \in {"failed", "scheduled"}
      BY <1>8 DEF TimeOut, Retry, TypeInv, TypeOK
    <2>3. CASE act'["llm"] = act["llm"]
      BY <1>1, <2>1, <2>3, AllInputKept
    <2>4. CASE act'["llm"] \in {"failed", "scheduled"}
      BY <1>1, <2>1, <2>4, InputKept
      DEF PromptInv, WaitsForFinal, AskedEverything, Asked, CompletedHasEnded
    <2> QED BY <2>2, <2>3, <2>4
  <1>9. CASE AudioEnd \/ BargeIn \/ Settle \/ CloseWorkflow
    <2>1. UNCHANGED <<stt, transcripts, llm, act, attempt>>
      BY <1>9 DEF AudioEnd, BargeIn, Settle, CloseWorkflow, gatewayFrame, hopVars, busVars
    <2> QED BY <1>1, <2>1, AllInputKept
  <1>10. CASE EndTurn
    <2>1. UNCHANGED <<stt, llm, act, attempt>> /\ (Broken \/ AllDone)
      BY <1>10 DEF EndTurn, DisposeTurnBus, CloseTurnBus, hopVars, TurnInv, EndsForAReason
    <2>2. \A b \in Bus : /\ transcripts'[b].items = transcripts[b].items
                         /\ transcripts'[b].state = "open" => transcripts'[b] = transcripts[b]
      BY <1>10, ChannelEndKeepsItems DEF EndTurn, DisposeTurnBus, CloseTurnBus, TypeInv, TypeOK
    <2>3. stt.pc # "off" => stt.bus \in Bus
      BY DEF TypeInv, RefInv
    <2>4. FinalIsTheText' /\ ClosedBehindFinal'
      BY <1>1, <2>1, <2>2, <2>3 DEF PromptInv, FinalIsTheText, ClosedBehindFinal, EndsInFinal
    <2>5. \A n \in RespondAttempt : llm[n].pc = "waiting" => llm[n].bus \in Bus
      BY DEF TypeInv, RefInv
    <2>6. WaitsForFinal' /\ AskedEverything' /\ CompletedHasEnded'
      BY <1>1, <2>1, <2>2, <2>5
      DEF PromptInv, WaitsForFinal, AskedEverything, Asked, CompletedHasEnded
    <2> QED BY <2>4, <2>6 DEF PromptInv
  <1>11. CASE Crash
    <2>1. \A b \in Bus : Len(transcripts'[b].items) = 0 /\ transcripts'[b].state = "open"
      BY <1>11 DEF Crash, EmptyChannel
    <2>2. /\ UNCHANGED <<act, attempt>>
          /\ stt'.pc \in Finished /\ stt'.text = stt.text /\ SttSettles
      BY <1>11 DEF Crash, Dead, Finished, Heard, SttSettles, TypeInv, TypeOK, SttAttempt
    <2>3. \A n \in RespondAttempt : llm'[n].pc \in Finished /\ llm'[n].prompt = llm[n].prompt
      BY <1>11 DEF Crash, Dead, Finished, TypeInv, TypeOK, LlmAttempt
    <2>4. FinalIsTheText' /\ ClosedBehindFinal'
      BY <2>1, <2>2 DEF FinalIsTheText, ClosedBehindFinal, Finished
    <2>5. act["llm"] \in {"started", "completed"} => attempt["llm"] \in RespondAttempt
      BY ListenedTo
    <2>6. WaitsForFinal' /\ AskedEverything' /\ CompletedHasEnded'
      BY <1>1, <2>2, <2>3, <2>5
      DEF PromptInv, WaitsForFinal, AskedEverything, Asked, CompletedHasEnded, SttSettles, Finished
    <2> QED BY <2>4, <2>6 DEF PromptInv
  <1>12. CASE UNCHANGED vars
    BY <1>1, <1>12, AllInputKept DEF vars, hopVars, busVars
  <1> QED BY <1>2, <1>3, <1>4, <1>5, <1>6, <1>7, <1>8, <1>9, <1>10, <1>11, <1>12 DEF Next

\* In a turn whose three hops succeeded the model was asked about all that
\* transcribe returned, whatever failed, timed out, was retried, cancelled or
\* restarted on the way: no hazard is excluded.
THEOREM PromptIsTheUtterance == Spec => []AnswersWhatWasSaid
  <1>1. Init => TurnInv /\ PromptInv
    BY InitTurnInv, InitPromptInv
  <1>2. TurnInv /\ PromptInv /\ [Next]_vars => (TurnInv /\ PromptInv)'
    BY NextTurnInv, NextPromptInv
  <1>3. TurnInv /\ PromptInv => AnswersWhatWasSaid
    <2> SUFFICES ASSUME TurnInv, PromptInv, AllDone
                 PROVE  attempt["llm"] > 0 /\ llm[attempt["llm"]].prompt = stt.text
      BY DEF AnswersWhatWasSaid, AllDone
    <2>1. ~Broken /\ Asked /\ "llm" \in Hop
      BY DEF AllDone, Broken, Asked, Hop
    <2> QED BY <2>1 DEF TurnInv, StartedIsAnAttempt, PromptInv, AskedEverything, AllDone
  <1> QED BY <1>1, <1>2, <1>3, PTL DEF Spec

-----------------------------------------------------------------------------
(* All of the reply is spoken.  A channel of sentences is closed by the      *)
(* attempt that wrote it, or by endTurn in a turn that is over or lost; so   *)
(* the end that synthesize reads is the end of what the model wrote.         *)

Wrote == llm[attempt["llm"]].wrote

ClosedIsWhole ==
  \A b \in Bus : sentences[b].state = "closed" =>
    \/ Broken \/ AllDone
    \/ act["llm"] = "completed" /\ Len(sentences[b].items) = Wrote

\* A running synthesize is nowhere past the end of its channel.
WithinTheReply ==
  \A n \in SynthesizeAttempt : tts[n].pc \notin Finished =>
    tts[n].cur <= Len(sentences[tts[n].bus].items)

NeverCut == \A n \in SynthesizeAttempt : tts[n].pc # "drainOk"

\* The attempt that Temporal listens to has read the end, or has succeeded.
ReadTheEnd ==
  \/ act["tts"] = "completed"
  \/ act["tts"] = "started" /\ tts[attempt["tts"]].pc \in {"tail", "storeOk"}

HandedOver ==
  ReadTheEnd => Broken \/ (act["llm"] = "completed" /\ tts[attempt["tts"]].cur = Wrote)

SpokenHasEnded == act["tts"] = "completed" => tts[attempt["tts"]].pc \in Finished

SpokenInv == ClosedIsWhole /\ WithinTheReply /\ NeverCut /\ HandedOver /\ SpokenHasEnded

LEMMA InitSpokenInv == Init => SpokenInv
  <1> SUFFICES ASSUME Init PROVE SpokenInv
    OBVIOUS
  <1>1. \A b \in Bus : sentences[b].state = "open"
    BY DEF Init, EmptyChannel
  <1>2. ClosedIsWhole
    BY <1>1 DEF ClosedIsWhole
  <1>3. WithinTheReply /\ NeverCut /\ HandedOver /\ SpokenHasEnded
    BY DEF Init, WithinTheReply, NeverCut, HandedOver, ReadTheEnd, SpokenHasEnded, TtsOff,
       Finished, Hop
  <1> QED BY <1>2, <1>3 DEF SpokenInv

\* Respond has its last word: once it succeeded, no attempt of it moves.
LEMMA RepliedStays ==
  ASSUME TurnInv, ReplyInv, [Next]_vars, act["llm"] = "completed"
  PROVE  act'["llm"] = "completed" /\ Wrote' = Wrote
  <1> TypeInv
    BY DEF TurnInv
  <1> "llm" \in Hop
    BY DEF Hop
  <1>1. act'["llm"] = "completed" /\ attempt'["llm"] = attempt["llm"]
    BY NextActStep DEF ActStep
  <1>2. attempt["llm"] \in RespondAttempt
    BY ListenedTo
  <1>3. \A n \in RespondAttempt : llm[n].pc \in Finished
    BY DEF ReplyInv, OnlyLiveResponds
  <1>4. CASE UNCHANGED llm
    BY <1>1, <1>4 DEF Wrote
  <1>5. ASSUME NEW n \in RespondAttempt, Respond(n)
        PROVE  FALSE
    BY <1>3, <1>5, RespondMoves DEF RespondMove, RespondReads, RespondInputEnds, Finished
  <1>6. ~StartRespond
    BY DEF StartRespond, Pickup
  <1>7. CASE Transcribe
    BY <1>4, <1>7, TranscribeAlone
  <1>8. CASE StartSynthesize \/ \E n \in SynthesizeAttempt : Synthesize(n)
    BY <1>4, <1>8, SynthesizeAlone
  <1>9. CASE TemporalCancels
    BY <1>1, <1>2, <1>9 DEF TemporalCancels, Wrote, TypeInv, TypeOK, LlmAttempt
  <1>10. CASE Crash
    BY <1>1, <1>2, <1>10 DEF Crash, Dead, Wrote, TypeInv, TypeOK, LlmAttempt
  <1>11. CASE \/ AudioEnd \/ BargeIn \/ CancelWorkflow \/ (\E h \in Hop : TimeOut(h))
              \/ Settle \/ EndTurn \/ CloseWorkflow \/ UNCHANGED vars
    BY <1>4, <1>11 DEF AudioEnd, BargeIn, CancelWorkflow, TimeOut, Settle, EndTurn,
        DisposeTurnBus, CloseTurnBus, CloseWorkflow,
       gatewayFrame, hopVars, vars
  <1> QED BY <1>5, <1>6, <1>7, <1>8, <1>9, <1>10, <1>11 DEF Next

\* A step that leaves the sentences alone leaves them whole.
LEMMA WholeStays ==
  ASSUME TurnInv, ReplyInv, ClosedIsWhole, [Next]_vars,
         \A b \in Bus : sentences'[b].state = "closed" => sentences'[b] = sentences[b]
  PROVE  ClosedIsWhole'
  <1>1. (Broken => Broken') /\ (AllDone => AllDone')
    BY Settled DEF TurnInv
  <1>2. act["llm"] = "completed" => act'["llm"] = "completed" /\ Wrote' = Wrote
    BY RepliedStays
  <1> SUFFICES ASSUME NEW b \in Bus, sentences'[b].state = "closed"
               PROVE  \/ Broken' \/ AllDone'
                      \/ act'["llm"] = "completed" /\ Len(sentences'[b].items) = Wrote'
    BY DEF ClosedIsWhole
  <1>3. \/ Broken \/ AllDone
        \/ act["llm"] = "completed" /\ Len(sentences[b].items) = Wrote
    BY DEF ClosedIsWhole
  <1>4. Len(sentences'[b].items) = Len(sentences[b].items)
    OBVIOUS
  <1> QED BY <1>1, <1>2, <1>3, <1>4

\* The attempt that completes closes a channel that holds all it wrote.
LEMMA WholeWhenClosed ==
  ASSUME TurnInv, ReplyInv, ClosedIsWhole, NEW n \in RespondAttempt,
         RespondToNothing(n) \/ RespondCompletes(n)
  PROVE  ClosedIsWhole'
  <1> TypeInv /\ [Next]_vars
    BY DEF TurnInv, Next, Respond
  <1> "llm" \in Hop
    BY DEF Hop
  <1> DEFINE b == llm[n].bus
             c == sentences[b]
  <1>1. /\ llm[n].pc \in {"awaitLang", "generating"}
        /\ llm' = [llm EXCEPT ![n].pc = "doneOk"]
        /\ sentences' = [sentences EXCEPT ![b] = Close(c)]
        /\ Report("llm", n, "completed")
        /\ llm[n].pc = "awaitLang" \/ llm[n].pc = "generating"
    BY DEF RespondToNothing, RespondCompletes
  <1>2. n = attempt["llm"] /\ act["llm"] = "started" /\ b \in Bus
    BY <1>1, ResponderIsLive DEF Finished, TypeInv, RefInv
  <1>3. act'["llm"] = "completed" /\ attempt'["llm"] = n
    BY <1>1, <1>2, ReportTaken
  <1>4. Wrote' = llm[n].wrote
    BY <1>1, <1>3 DEF Wrote, TypeInv, TypeOK, LlmAttempt
  <1>5. c \in Channel(Sentence)
    BY <1>2 DEF TypeInv, TypeOK
  <1>6. c.state = "open" => Len(c.items) = llm[n].wrote
    <2>1. CASE llm[n].pc = "generating"
      BY <2>1 DEF ReplyInv, WriterKeepsCount, Holds
    <2>2. CASE llm[n].pc = "awaitLang"
      <3>1. \A m \in RespondAttempt : llm[m].pc # "generating"
        BY <1>2, <2>2 DEF ReplyInv, OnlyLiveResponds, Finished
      <3>2. c.state = "open" => Len(c.items) = 0
        BY <1>2, <3>1 DEF ReplyInv, OpenHasWriter
      <3> QED BY <2>2, <3>2 DEF ReplyInv, WriterKeepsCount
    <2> QED BY <1>1, <2>1, <2>2
  <1>7. ~AllDone /\ (Broken => Broken')
    BY <1>2, Settled DEF AllDone
  <1> SUFFICES ASSUME NEW d \in Bus, sentences'[d].state = "closed"
               PROVE  Broken' \/ Len(sentences'[d].items) = llm[n].wrote
    BY <1>3, <1>4 DEF ClosedIsWhole
  <1>8. CASE d = b /\ c.state = "open"
    <2>1. sentences'[d].items = c.items
      BY <1>1, <1>2, <1>5, <1>8, ChannelEndKeepsItems DEF TypeInv, TypeOK
    <2> QED BY <1>6, <1>8, <2>1
  <1>9. CASE ~(d = b /\ c.state = "open")
    <2>1. sentences'[d] = sentences[d]
      BY <1>1, <1>2, <1>9 DEF Close, TypeInv, TypeOK
    <2>2. sentences[d].state = "closed"
      BY <2>1
    <2> QED BY <1>2, <1>7, <2>2 DEF ClosedIsWhole
  <1> QED BY <1>8, <1>9

\* Respond's other steps close no channel, and none takes a sentence back.
LEMMA SentencesGrow ==
  ASSUME TypeInv, NEW n \in RespondAttempt, Respond(n)
  PROVE  /\ \A b \in Bus : Len(sentences[b].items) <= Len(sentences'[b].items)
         /\ ~(RespondToNothing(n) \/ RespondCompletes(n)) =>
              \A b \in Bus : sentences'[b].state = "closed" => sentences'[b] = sentences[b]
  <1> DEFINE b0 == llm[n].bus
             c == sentences[b0]
  <1>1. \A b \in Bus : Len(sentences[b].items) \in Nat
    BY DEF TypeInv, TypeOK, Channel
  <1>2. llm[n].pc \notin Finished /\ b0 \in Bus /\ c \in Channel(Sentence)
    <2>1. llm[n].pc \notin Finished
      BY RespondMoves DEF RespondMove, RespondReads, RespondInputEnds, Finished
    <2> QED BY <2>1 DEF TypeInv, TypeOK, RefInv, Finished
  <1>3. \A d : sentences' = [sentences EXCEPT ![b0] = d] =>
          \A b \in Bus : sentences'[b] = IF b = b0 THEN d ELSE sentences[b]
    BY DEF TypeInv, TypeOK
  <1>4. CASE UNCHANGED sentences
    BY <1>1, <1>4
  <1>5. CASE RespondSentence(n)
    <2> DEFINE item == [by |-> n, nth |-> llm[n].wrote + 1]
               d == Push(c, item)
    <2>1. item \in Sentence
      BY DEF Sentence, TypeInv, TypeOK, LlmAttempt
    <2>2. sentences' = [sentences EXCEPT ![b0] = d]
      BY <1>5 DEF RespondSentence
    <2>3. /\ d.state = c.state /\ (c.state # "open" => d = c)
          /\ Len(c.items) <= Len(d.items)
      <3> HIDE DEF c, item
      <3> QED BY <1>2, <2>1, PushItems
    <2> HIDE DEF d
    <2> QED BY <1>1, <1>3, <2>2, <2>3
  <1>6. CASE RespondInputFails(n) \/ RespondRefused(n) \/ RespondFails(n)
    <2>1. sentences' = [sentences EXCEPT ![b0] = Fail(c)]
      BY <1>6 DEF RespondInputFails, RespondRefused, RespondFails, RespondThrows
    <2>2. Fail(c).items = c.items /\ (Fail(c).state # "closed" \/ Fail(c) = c)
      BY <1>2 DEF Fail, Channel
    <2> HIDE DEF c
    <2> QED BY <1>1, <1>3, <2>1, <2>2 DEF c
  <1>7. CASE RespondToNothing(n) \/ RespondCompletes(n)
    <2>1. sentences' = [sentences EXCEPT ![b0] = Close(c)]
      BY <1>7 DEF RespondToNothing, RespondCompletes
    <2>2. Close(c).items = c.items
      BY <1>2, ChannelEndKeepsItems
    <2> QED BY <1>1, <1>3, <1>7, <2>1, <2>2
  <1> QED BY <1>4, <1>5, <1>6, <1>7 DEF Respond, RespondReads, RespondInputEnds, RespondAsks, busVars

\* The attempt of synthesize that Temporal listens to is one of the attempts.
LEMMA SpeakerListenedTo ==
  ASSUME TurnInv, act["tts"] \in {"started", "completed"}
  PROVE  attempt["tts"] \in SynthesizeAttempt
  BY AttemptBounds, TurnConstants
  DEF TurnInv, StartedIsAnAttempt, TypeInv, TypeOK, Hop, SynthesizeAttempt

\* Nothing that leaves synthesize alone, and no sentence taken back, disturbs it.
LEMMA SpeechKept ==
  ASSUME TurnInv, TypeInv', ReplyInv, SpokenInv, [Next]_vars,
         \A n \in SynthesizeAttempt : /\ tts'[n].pc = tts[n].pc /\ tts'[n].bus = tts[n].bus
                                      /\ tts'[n].cur = tts[n].cur,
         attempt'["tts"] = attempt["tts"],
         act'["tts"] = act["tts"] \/ act'["tts"] \in {"failed", "scheduled", "cancelled"},
         \A b \in Bus : Len(sentences[b].items) <= Len(sentences'[b].items)
  PROVE  WithinTheReply' /\ NeverCut' /\ HandedOver' /\ SpokenHasEnded'
  <1> TypeInv
    BY DEF TurnInv
  <1>1. \A b \in Bus : Len(sentences[b].items) \in Nat /\ Len(sentences'[b].items) \in Nat
    BY DEF TypeInv, TypeOK, Channel
  <1>2. \A n \in SynthesizeAttempt : /\ tts[n].cur \in Nat
                                     /\ tts[n].pc \notin Finished => tts[n].bus \in Bus
    BY DEF TypeInv, TypeOK, RefInv, TtsAttempt, Finished
  <1>3. WithinTheReply'
    BY <1>1, <1>2 DEF SpokenInv, WithinTheReply
  <1>4. act["tts"] \in {"started", "completed"} => attempt["tts"] \in SynthesizeAttempt
    BY SpeakerListenedTo
  <1>5. NeverCut' /\ SpokenHasEnded'
    BY <1>4 DEF SpokenInv, NeverCut, SpokenHasEnded
  <1>6. /\ Broken => Broken'
        /\ act["llm"] = "completed" => act'["llm"] = "completed" /\ Wrote' = Wrote
    BY Settled, RepliedStays
  <1>7. HandedOver'
    BY <1>4, <1>6 DEF SpokenInv, HandedOver, ReadTheEnd
  <1> QED BY <1>3, <1>5, <1>7

\* What one step of an attempt of synthesize does to it, when Bulbul keeps its
\* socket open and nothing has cut the stream.
SynthesizeMove(n) ==
  \/ /\ tts[n].pc \notin Finished
     /\ tts'[n].pc \in {"connecting", "speaking", "drainErr", "storeErr"}
     /\ tts'[n].cur = tts[n].cur
     /\ UNCHANGED <<act, attempt>>
  \/ /\ tts[n].pc = "speaking" /\ tts'[n].pc = "speaking"
     /\ HasNext(sentences[tts[n].bus], tts[n].cur)
     /\ tts'[n].cur = tts[n].cur + 1
     /\ UNCHANGED <<act, attempt>>
  \/ /\ tts[n].pc = "speaking" /\ tts'[n].pc = "tail"
     /\ Ended(sentences[tts[n].bus], tts[n].cur)
     /\ tts'[n].cur = tts[n].cur
     /\ UNCHANGED <<act, attempt>>
  \/ /\ tts[n].pc = "tail" /\ tts'[n].pc \in {"tail", "storeOk"}
     /\ tts'[n].cur = tts[n].cur
     /\ UNCHANGED <<act, attempt>>
  \/ /\ tts[n].pc = "storeOk" /\ tts'[n].pc = "doneOk"
     /\ tts'[n].cur = tts[n].cur
     /\ Report("tts", n, "completed")
  \/ /\ tts[n].pc = "storeErr" /\ tts'[n].pc = "doneErr"
     /\ Report("tts", n, "failed") \/ Rethrow("tts", n)

LEMMA SynthesizeMoves ==
  ASSUME TypeInv, NeverCut, "ttsFault" \notin Hazards,
         NEW n \in SynthesizeAttempt, Synthesize(n)
  PROVE  /\ SynthesizeMove(n)
         /\ tts'[n].bus = tts[n].bus
         /\ \A m \in SynthesizeAttempt : m # n => tts'[m] = tts[m]
  <1> USE DEF SynthesizeMove, TypeInv, TypeOK, TtsAttempt, Finished
  <1>1. CASE SynthesizeConnects(n)
    BY <1>1 DEF SynthesizeConnects
  <1>2. CASE SynthesizeOpens(n) \/ SynthesizeInputFails(n)
    BY <1>2 DEF SynthesizeOpens, SynthesizeInputFails
  <1>3. CASE SynthesizeSends(n)
    BY <1>3 DEF SynthesizeSends
  <1>4. CASE SynthesizeFlush(n)
    BY <1>4 DEF SynthesizeFlush
  <1>5. CASE SynthesizeChunk(n) \/ SynthesizeQuiet(n)
    BY <1>5 DEF SynthesizeChunk, SynthesizeQuiet
  <1>6. CASE SynthesizeError(n)
    BY <1>6 DEF SynthesizeError
  <1>7. CASE SynthesizeDrained(n)
    BY <1>7 DEF SynthesizeDrained, NeverCut
  <1>8. CASE SynthesizeStored(n)
    BY <1>8 DEF SynthesizeStored
  <1>9. ~SynthesizeSocketCloses(n)
    BY DEF SynthesizeSocketCloses
  <1> QED BY <1>1, <1>2, <1>3, <1>4, <1>5, <1>6, <1>7, <1>8, <1>9 DEF Synthesize

LEMMA SynthesizeSpokenInv ==
  ASSUME TurnInv, TypeInv', ReplyInv, SpokenInv, "ttsFault" \notin Hazards,
         NEW n \in SynthesizeAttempt, Synthesize(n)
  PROVE  SpokenInv'
  <1> TypeInv /\ [Next]_vars
    BY DEF TurnInv, Next
  <1> "tts" \in Hop /\ "llm" \in Hop
    BY DEF Hop
  <1>1. /\ Broken => Broken'
        /\ act["llm"] = "completed" => act'["llm"] = "completed" /\ Wrote' = Wrote
    BY Settled, RepliedStays
  <1>2. UNCHANGED <<llm, sentences>>
    BY SynthesizeAlone
  <1>3. /\ SynthesizeMove(n) /\ tts'[n].bus = tts[n].bus
        /\ \A m \in SynthesizeAttempt : m # n => tts'[m] = tts[m]
    BY SynthesizeMoves DEF SpokenInv
  <1>4. ClosedIsWhole'
    BY <1>2, WholeStays DEF SpokenInv
  <1>5. NeverCut'
    BY <1>3 DEF SpokenInv, NeverCut, SynthesizeMove
  <1>6. tts[n].pc \notin Finished /\ tts[n].bus \in Bus /\ tts[n].cur \in Nat
    <2>1. tts[n].pc \notin Finished
      BY <1>3 DEF SynthesizeMove, Finished
    <2> QED BY <2>1 DEF TypeInv, TypeOK, RefInv, TtsAttempt, Finished
  <1>7. /\ Len(sentences[tts[n].bus].items) \in Nat
        /\ tts[n].cur <= Len(sentences[tts[n].bus].items)
    BY <1>6 DEF TypeInv, TypeOK, Channel, SpokenInv, WithinTheReply
  <1>8. WithinTheReply'
    <2> SUFFICES ASSUME NEW m \in SynthesizeAttempt, tts'[m].pc \notin Finished
                 PROVE  tts'[m].cur <= Len(sentences[tts'[m].bus].items)
      BY <1>2 DEF WithinTheReply
    <2>1. CASE m # n
      BY <2>1, <1>3 DEF SpokenInv, WithinTheReply
    <2>2. CASE m = n
      BY <2>2, <1>3, <1>6, <1>7 DEF SynthesizeMove, HasNext, Finished
    <2> QED BY <2>1, <2>2
  <1>9. HandedOver' /\ SpokenHasEnded'
    <2>1. CASE act["tts"] = "started" /\ attempt["tts"] = n
      <3>1. ~AllDone /\ attempt' = attempt
        BY <1>3, <2>1, ReportTaken, RethrowTaken DEF SynthesizeMove, AllDone
      <3>2. tts[n].pc \in {"tail", "storeOk"} =>
              Broken \/ (act["llm"] = "completed" /\ tts[n].cur = Wrote)
        BY <2>1 DEF SpokenInv, HandedOver, ReadTheEnd
      <3>3. CASE /\ tts'[n].pc \in {"connecting", "speaking", "drainErr", "storeErr"}
                 /\ UNCHANGED <<act, attempt>>
        BY <2>1, <3>3 DEF HandedOver, ReadTheEnd, SpokenHasEnded
      <3>4. CASE /\ tts[n].pc = "speaking" /\ tts'[n].pc = "tail"
                 /\ Ended(sentences[tts[n].bus], tts[n].cur)
                 /\ tts'[n].cur = tts[n].cur /\ UNCHANGED <<act, attempt>>
        <4> DEFINE c == sentences[tts[n].bus]
        <4>1. Broken \/ (act["llm"] = "completed" /\ Len(c.items) = Wrote)
          BY <1>6, <3>1, <3>4 DEF SpokenInv, ClosedIsWhole, Ended
        <4>2. tts[n].cur = Len(c.items)
          BY <1>6, <1>7, <3>4 DEF Ended, HasNext
        <4> HIDE DEF c
        <4> QED BY <1>1, <2>1, <3>4, <4>1, <4>2 DEF HandedOver, SpokenHasEnded
      <3>5. CASE /\ tts[n].pc = "tail" /\ tts'[n].cur = tts[n].cur
                 /\ UNCHANGED <<act, attempt>>
        BY <1>1, <2>1, <3>2, <3>5 DEF HandedOver, SpokenHasEnded
      <3>6. CASE /\ tts[n].pc = "storeOk" /\ tts'[n].pc = "doneOk"
                 /\ tts'[n].cur = tts[n].cur
        BY <1>1, <2>1, <3>1, <3>2, <3>6 DEF HandedOver, SpokenHasEnded, Finished
      <3>7. CASE Report("tts", n, "failed") \/ Rethrow("tts", n)
        <4>1. act'["tts"] \in {"failed", "scheduled"}
          BY <2>1, <3>7, ReportTaken, RethrowTaken
        <4> QED BY <4>1 DEF HandedOver, ReadTheEnd, SpokenHasEnded
      <3> QED BY <1>3, <3>3, <3>4, <3>5, <3>6, <3>7 DEF SynthesizeMove
    <2>2. CASE ~(act["tts"] = "started" /\ attempt["tts"] = n)
      <3>1. act' = act /\ attempt' = attempt
        BY <1>3, <2>2, ReportTaken, RethrowTaken DEF SynthesizeMove
      <3>2. act["tts"] \in {"started", "completed"} => tts'[attempt["tts"]] = tts[attempt["tts"]]
        BY <1>3, <1>6, <2>2, SpeakerListenedTo DEF SpokenInv, SpokenHasEnded
      <3> QED BY <1>1, <3>1, <3>2 DEF SpokenInv, HandedOver, ReadTheEnd, SpokenHasEnded
    <2> QED BY <2>1, <2>2
  <1> QED BY <1>4, <1>5, <1>8, <1>9 DEF SpokenInv

LEMMA NextSpokenInv ==
  ASSUME TurnInv, ReplyInv, SpokenInv, [Next]_vars, "ttsFault" \notin Hazards
  PROVE  SpokenInv'
  <1> TypeInv /\ TypeInv'
    BY NextTypeInv DEF TurnInv
  <1> "tts" \in Hop /\ "llm" \in Hop
    BY DEF Hop
  <1>1. \A b \in Bus : Len(sentences[b].items) \in Nat
    BY DEF TypeInv, TypeOK, Channel
  <1>2. CASE /\ UNCHANGED <<tts, sentences>> /\ attempt'["tts"] = attempt["tts"]
             /\ act'["tts"] = act["tts"] \/ act'["tts"] \in {"failed", "scheduled", "cancelled"}
    <2>1. ClosedIsWhole'
      BY <1>2, WholeStays DEF SpokenInv
    <2>2. WithinTheReply' /\ NeverCut' /\ HandedOver' /\ SpokenHasEnded'
      BY <1>1, <1>2, SpeechKept
    <2> QED BY <2>1, <2>2 DEF SpokenInv
  <1>3. CASE Transcribe
    BY <1>2, <1>3, TranscribeAlone, RespondAlone DEF Transcribe
  <1>4. CASE StartRespond
    BY <1>2, <1>4, RespondAlone DEF StartRespond
  <1>5. ASSUME NEW n \in RespondAttempt, Respond(n)
        PROVE  SpokenInv'
    <2>1. ClosedIsWhole'
      BY <1>5, SentencesGrow, WholeStays, WholeWhenClosed DEF SpokenInv
    <2>2. UNCHANGED tts /\ act'["tts"] = act["tts"] /\ attempt'["tts"] = attempt["tts"]
      BY <1>5, RespondAlone
    <2>3. WithinTheReply' /\ NeverCut' /\ HandedOver' /\ SpokenHasEnded'
      BY <1>5, <2>2, SentencesGrow, SpeechKept
    <2> QED BY <2>1, <2>3 DEF SpokenInv
  <1>6. CASE StartSynthesize
    <2> DEFINE k == attempt["tts"] + 1
               a == [TtsOff EXCEPT !.pc = "awaitLang", !.bus = TurnBusOf, !.late = torn]
    <2>1. /\ k \in SynthesizeAttempt
          /\ act'["tts"] = "started" /\ attempt'["tts"] = k
      BY <1>6, PickupType, AttemptBounds, TurnConstants
      DEF StartSynthesize, Pickup, TypeInv, TypeOK, SynthesizeAttempt
    <2>2. tts'[k] = a /\ \A n \in SynthesizeAttempt : n # k => tts'[n] = tts[n]
      BY <1>6, <2>1 DEF StartSynthesize, TypeInv, TypeOK
    <2>3. UNCHANGED <<llm, sentences>>
      BY <1>6, SynthesizeAlone
    <2>4. a.pc = "awaitLang" /\ a.cur = 0 /\ a.bus \in Bus
      BY BusLookup DEF TtsOff
    <2> HIDE DEF a, k
    <2>5. ClosedIsWhole'
      BY <2>3, WholeStays DEF SpokenInv
    <2>6. WithinTheReply'
      BY <1>1, <2>2, <2>3, <2>4 DEF SpokenInv, WithinTheReply
    <2>7. NeverCut' /\ HandedOver' /\ SpokenHasEnded'
      BY <2>1, <2>2, <2>4 DEF SpokenInv, NeverCut, HandedOver, ReadTheEnd, SpokenHasEnded
    <2> QED BY <2>5, <2>6, <2>7 DEF SpokenInv
  <1>7. CASE \E n \in SynthesizeAttempt : Synthesize(n)
    BY <1>7, SynthesizeSpokenInv
  <1>8. CASE AudioEnd \/ BargeIn \/ Settle \/ CloseWorkflow
    BY <1>2, <1>8 DEF AudioEnd, BargeIn, Settle, CloseWorkflow, gatewayFrame, hopVars, busVars
  <1>9. CASE CancelWorkflow
    BY <1>2, <1>9 DEF CancelWorkflow, gatewayFrame, hopVars, busVars, TypeInv, TypeOK
  <1>10. ASSUME NEW h \in Hop, TimeOut(h)
         PROVE  SpokenInv'
    BY <1>2, <1>10 DEF TimeOut, Retry, hopVars, busVars, TypeInv, TypeOK
  <1>11. CASE TemporalCancels
    <2>1. UNCHANGED <<sentences, act, attempt>>
      BY <1>11 DEF TemporalCancels, busVars
    <2>2. \A n \in SynthesizeAttempt : /\ tts'[n].pc = tts[n].pc /\ tts'[n].bus = tts[n].bus
                                       /\ tts'[n].cur = tts[n].cur
      BY <1>11 DEF TemporalCancels, TypeInv, TypeOK, TtsAttempt
    <2>3. ClosedIsWhole'
      BY <2>1, WholeStays DEF SpokenInv
    <2>4. WithinTheReply' /\ NeverCut' /\ HandedOver' /\ SpokenHasEnded'
      BY <1>1, <2>1, <2>2, SpeechKept
    <2> QED BY <2>3, <2>4 DEF SpokenInv
  <1>12. CASE EndTurn
    <2>1. UNCHANGED <<tts, act, attempt>> /\ (Broken \/ AllDone)
      BY <1>12 DEF EndTurn, DisposeTurnBus, CloseTurnBus, hopVars, TurnInv, EndsForAReason
    <2>2. \A b \in Bus : sentences'[b].items = sentences[b].items
      BY <1>12, ChannelEndKeepsItems DEF EndTurn, DisposeTurnBus, CloseTurnBus, TypeInv, TypeOK
    <2>3. ClosedIsWhole'
      BY <2>1, Settled DEF ClosedIsWhole
    <2>4. WithinTheReply' /\ NeverCut' /\ HandedOver' /\ SpokenHasEnded'
      BY <1>1, <2>1, <2>2, SpeechKept
    <2> QED BY <2>3, <2>4 DEF SpokenInv
  <1>13. CASE Crash
    <2>1. UNCHANGED <<act, attempt>> /\ \A b \in Bus : sentences'[b].state = "open"
      BY <1>13 DEF Crash, EmptyChannel
    <2>2. \A n \in SynthesizeAttempt :
            /\ tts'[n].pc \in Finished /\ tts'[n].cur = tts[n].cur
            /\ tts'[n].pc # tts[n].pc => tts'[n].pc = "dead"
      BY <1>13 DEF Crash, Dead, Finished, TypeInv, TypeOK, TtsAttempt
    <2>3. ClosedIsWhole' /\ WithinTheReply' /\ NeverCut'
      BY <2>1, <2>2 DEF ClosedIsWhole, WithinTheReply, NeverCut, Finished
    <2>4. act["tts"] \in {"started", "completed"} => attempt["tts"] \in SynthesizeAttempt
      BY SpeakerListenedTo
    <2>5. /\ Broken => Broken'
          /\ act["llm"] = "completed" => act'["llm"] = "completed" /\ Wrote' = Wrote
      BY Settled, RepliedStays
    <2>6. HandedOver' /\ SpokenHasEnded'
      BY <2>1, <2>2, <2>4, <2>5 DEF SpokenInv, HandedOver, ReadTheEnd, SpokenHasEnded, Finished
    <2> QED BY <2>3, <2>6 DEF SpokenInv
  <1>14. CASE UNCHANGED vars
    BY <1>2, <1>14 DEF vars, hopVars, busVars
  <1> QED BY <1>3, <1>4, <1>5, <1>6, <1>7, <1>8, <1>9, <1>10, <1>11, <1>12, <1>13, <1>14 DEF Next

\* In a turn whose three hops succeeded all that the model wrote was handed to
\* Bulbul, in the attempt that succeeded, as long as Bulbul does not end its
\* stream early and respond's clock does not run out (which lets two attempts
\* write to one bus): the channel's end is the writer's, whoever fails, is
\* retried, timed out, cancelled or restarted.
THEOREM WholeReplyIsSpoken ==
  ASSUME "llmTimeout" \notin Hazards, "ttsFault" \notin Hazards
  PROVE  Spec => []SpeaksWholeReply
  <1>1. Init => TurnInv /\ ReplyInv /\ SpokenInv
    BY InitTurnInv, InitReplyInv, InitSpokenInv
  <1>2. TurnInv /\ ReplyInv /\ SpokenInv /\ [Next]_vars => (TurnInv /\ ReplyInv /\ SpokenInv)'
    BY NextTurnInv, NextReplyInv, NextSpokenInv DEF TurnInv
  <1>3. TurnInv /\ ReplyInv /\ SpokenInv => SpeaksWholeReply
    <2> SUFFICES ASSUME SpokenInv, AllDone
                 PROVE  tts[attempt["tts"]].cur = llm[attempt["llm"]].wrote
      BY DEF SpeaksWholeReply, AllDone
    <2>1. ~Broken /\ ReadTheEnd
      BY DEF AllDone, Broken, ReadTheEnd, Hop
    <2> QED BY <2>1 DEF SpokenInv, HandedOver, Wrote
  <1> QED BY <1>1, <1>2, <1>3, PTL DEF Spec

-----------------------------------------------------------------------------
(* Behind endTurn.  The bus that a late attempt is handed is one that nobody *)
(* has spoken on, and transcribe, which ran on another, is not run again: so *)
(* nothing is ever heard on it, and the attempt waits.                       *)

\* Nothing was heard on a bus, and no transcribe is left to hear it.
Unheard(b) ==
  ~lang[b] /\ transcripts[b] = EmptyChannel /\ (stt.bus = b => stt.pc \in Finished)

\* Until transcribe is picked up nothing can fail, so the turn goes on.
NothingYet ==
  act["stt"] = "scheduled" =>
    /\ stt.pc = "off" /\ wf = "running" /\ ~torn /\ ~cancelRequested
    /\ \A h \in Hop : act[h] \in {"scheduled", "started"}
    /\ \A b \in Bus : Unheard(b)
    /\ \A n \in RespondAttempt : llm[n].pc \in {"off", "waiting", "dead"}
    /\ \A n \in SynthesizeAttempt : tts[n].pc \in {"off", "awaitLang", "dead"}

\* Barge-in reaches the bus of the turn, and endTurn leaves the next one unheard.
AbortedIsTheTurns == ~torn => \A b \in Bus : aborted[b] => b = busMap
LaterIsUnheard    == \A b \in Bus : b > born => Unheard(b)
NextIsUnheard     == torn => Unheard(TurnBusOf)

LateWaits ==
  /\ \A n \in RespondAttempt : llm[n].late =>
       llm[n].pc = "dead" \/ (torn /\ llm[n].pc = "waiting" /\ llm[n].bus = TurnBusOf)
  /\ \A n \in SynthesizeAttempt : tts[n].late =>
       tts[n].pc = "dead" \/ (torn /\ tts[n].pc = "awaitLang" /\ tts[n].bus = TurnBusOf)

SilenceInv ==
  NothingYet /\ AbortedIsTheTurns /\ LaterIsUnheard /\ NextIsUnheard /\ LateWaits

LEMMA InitSilenceInv == Init => SilenceInv
  BY DEF Init, SilenceInv, NothingYet, AbortedIsTheTurns, LaterIsUnheard, NextIsUnheard,
     LateWaits, Unheard, SttOff, LlmOff, TtsOff, Finished, NoBus, Bus

\* Only endTurn and a crash take the bus out of the map.
LEMMA MapKeepsTheBus ==
  ASSUME TypeInv, [Next]_vars, ~EndTurn, ~Crash
  PROVE  /\ torn' = torn /\ TurnBusOf' = TurnBusOf
         /\ UNCHANGED <<busMap, born>> \/ TouchBus
  <1> USE DEF busVars, flowVars
  <1>1. torn' = torn
    BY DEF Next, vars, Transcribe, StartTranscribe, TranscribeOpens, TranscribePartial,
       TranscribeFlush, TranscribeFinal, TranscribeError, TranscribeDrained, TranscribeStored,
       sttFrame, StartRespond, Respond, RespondReads, RespondInputEnds, RespondInputFails,
       RespondToNothing, RespondAsks, RespondRefused, RespondSentence, RespondCompletes,
       RespondFails, RespondThrows, llmFrame, StartSynthesize, Synthesize, SynthesizeConnects,
       SynthesizeOpens, SynthesizeSends, SynthesizeFlush, SynthesizeInputFails, SynthesizeChunk,
       SynthesizeQuiet, SynthesizeSocketCloses, SynthesizeError, SynthesizeDrained,
       SynthesizeStored, ttsFrame, AudioEnd, BargeIn, CancelWorkflow, gatewayFrame,
       TemporalCancels, TimeOut, Settle, CloseWorkflow
  <1>2. UNCHANGED <<busMap, born>> \/ TouchBus
    BY DEF Next, vars, Transcribe, StartTranscribe, TranscribeOpens, TranscribePartial,
       TranscribeFlush, TranscribeFinal, TranscribeError, TranscribeDrained, TranscribeStored,
       StartRespond, Respond, RespondReads, RespondInputEnds, RespondInputFails,
       RespondToNothing, RespondAsks, RespondRefused, RespondSentence, RespondCompletes,
       RespondFails, RespondThrows, StartSynthesize, Synthesize, SynthesizeConnects,
       SynthesizeOpens, SynthesizeSends, SynthesizeFlush, SynthesizeInputFails, SynthesizeChunk,
       SynthesizeQuiet, SynthesizeSocketCloses, SynthesizeError, SynthesizeDrained,
       SynthesizeStored, AudioEnd, BargeIn, CancelWorkflow,
       TemporalCancels, TimeOut, Settle, CloseWorkflow, Rethrow
  <1>3. TurnBusOf' = TurnBusOf
    <2>1. TouchBus => busMap' = TurnBusOf /\ TurnBusOf # NoBus
      BY BusLookup DEF TouchBus, Bus, NoBus
    <2>2. CASE TouchBus
      BY <2>1, <2>2 DEF TurnBusOf
    <2>3. CASE UNCHANGED <<busMap, born>>
      BY <2>3 DEF TurnBusOf
    <2> QED BY <1>2, <2>2, <2>3
  <1> QED BY <1>1, <1>2, <1>3

\* Who can say anything on a bus.
LEMMA OthersAreSilent ==
  ASSUME [Next]_vars, ~Transcribe, ~EndTurn, ~Crash
  PROVE  UNCHANGED <<lang, transcripts>>
  BY DEF Next, vars, StartRespond, Respond, RespondReads, RespondInputEnds, RespondInputFails,
     RespondToNothing, RespondAsks, RespondRefused, RespondSentence, RespondCompletes,
     RespondFails, RespondThrows, StartSynthesize, Synthesize, SynthesizeConnects,
     SynthesizeOpens, SynthesizeSends, SynthesizeFlush, SynthesizeInputFails, SynthesizeChunk,
     SynthesizeQuiet, SynthesizeSocketCloses, SynthesizeError, SynthesizeDrained,
     SynthesizeStored, AudioEnd, BargeIn, CancelWorkflow, TemporalCancels, TimeOut, Settle,
     CloseWorkflow, busVars

\* A bus nobody was heard on stays so, unless transcribe is handed it or endTurn closes it.
LEMMA UnheardStays ==
  ASSUME TypeInv, [Next]_vars, NEW b \in Bus, Unheard(b), ~StartTranscribe,
         ~(EndTurn /\ b = busMap)
  PROVE  Unheard(b)'
  <1>1. CASE Transcribe
    <2>1. stt.pc \notin Finished /\ stt'.bus = stt.bus
      BY <1>1 DEF Transcribe, TranscribeOpens, TranscribePartial, TranscribeFlush,
         TranscribeFinal, TranscribeError, TranscribeDrained, TranscribeStored, Finished,
         TypeInv, TypeOK, SttAttempt
    <2>2. stt.bus # b
      BY <2>1 DEF Unheard
    <2>3. lang'[b] = lang[b] /\ transcripts'[b] = transcripts[b]
      BY <1>1, <2>2 DEF Transcribe, TranscribeOpens, TranscribePartial, TranscribeFlush,
         TranscribeFinal, TranscribeError, TranscribeDrained, TranscribeStored, busVars,
         TypeInv, TypeOK
    <2> QED BY <2>1, <2>2, <2>3 DEF Unheard
  <1>2. CASE EndTurn
    BY <1>2 DEF EndTurn, DisposeTurnBus, CloseTurnBus, hopVars, Unheard, TypeInv, TypeOK
  <1>3. CASE Crash
    BY <1>3 DEF Crash, Dead, Unheard, Finished, TypeInv, TypeOK, SttAttempt
  <1>4. CASE ~Transcribe /\ ~EndTurn /\ ~Crash
    <2>1. UNCHANGED <<lang, transcripts>>
      BY <1>4, OthersAreSilent
    <2>2. stt'.bus = stt.bus /\ (stt.pc \in Finished => stt'.pc \in Finished)
      BY <1>4, OthersKeepStt
    <2> QED BY <2>1, <2>2 DEF Unheard
  <1> QED BY <1>1, <1>2, <1>3, <1>4

\* A crash forgets whatever was heard.
LEMMA CrashUnheard ==
  ASSUME TypeInv, Crash, NEW b \in Bus
  PROVE  Unheard(b)'
  BY DEF Crash, Dead, Unheard, Finished, TypeInv, TypeOK, SttAttempt, SttPC

\* While transcribe waits to be picked up, few steps are possible.
LEMMA NothingYetSteps ==
  ASSUME TypeInv, NothingYet, [Next]_vars, act["stt"] = "scheduled",
         act'["stt"] = "scheduled", Hazards \cap Clocks = {}
  PROVE  \/ StartRespond \/ StartSynthesize \/ AudioEnd \/ BargeIn
         \/ TemporalCancels \/ Crash \/ UNCHANGED vars
  <1> "stt" \in Hop
    BY DEF Hop
  <1>1. ~Transcribe
    BY DEF NothingYet, Transcribe, StartTranscribe, Pickup, TranscribeOpens, TranscribePartial,
       TranscribeFlush, TranscribeFinal, TranscribeError, TranscribeDrained, TranscribeStored,
       TypeInv, TypeOK
  <1>2. ASSUME NEW n \in RespondAttempt, Respond(n) PROVE FALSE
    <2>1. llm[n].pc = "waiting"
      BY <1>2 DEF NothingYet, Respond, RespondReads, RespondInputEnds, RespondInputFails,
         RespondToNothing, RespondAsks, RespondRefused, RespondSentence, RespondCompletes,
         RespondFails
    <2>2. llm[n].bus \in Bus /\ llm[n].cur \in Nat /\ transcripts[llm[n].bus] = EmptyChannel
      BY <2>1 DEF TypeInv, TypeOK, RefInv, LlmAttempt, NothingYet, Unheard
    <2> QED BY <1>2, <2>1, <2>2
        DEF Respond, RespondReads, RespondInputEnds, RespondInputFails,
            RespondToNothing, RespondAsks, RespondRefused, RespondSentence, RespondCompletes,
            RespondFails, HasNext, Ended, Failed, EmptyChannel
  <1>3. ASSUME NEW n \in SynthesizeAttempt, Synthesize(n) PROVE FALSE
    <2>1. tts[n].pc = "awaitLang" /\ lang[tts[n].bus]
      BY <1>3 DEF NothingYet, Synthesize, SynthesizeConnects, SynthesizeOpens, SynthesizeSends,
         SynthesizeFlush, SynthesizeInputFails, SynthesizeChunk, SynthesizeQuiet,
         SynthesizeSocketCloses, SynthesizeError, SynthesizeDrained, SynthesizeStored
    <2> QED BY <2>1 DEF TypeInv, RefInv, NothingYet, Unheard
  <1>4. ~CancelWorkflow
    BY DEF CancelWorkflow
  <1>5. ~Settle /\ ~EndTurn /\ ~CloseWorkflow
    BY DEF Settle, EndTurn, CloseWorkflow, NothingYet
  <1>6. \A h \in Hop : ~TimeOut(h)
    BY DEF TimeOut, ClockHazard, Clocks, Hop
  <1> QED BY <1>1, <1>2, <1>3, <1>4, <1>5, <1>6 DEF Next

LEMMA NextNothingYet ==
  ASSUME TurnInv, NothingYet, [Next]_vars, Hazards \cap Clocks = {}
  PROVE  NothingYet'
  <1> "stt" \in Hop
    BY DEF Hop
  <1> TypeInv /\ StartedIsAnAttempt
    BY DEF TurnInv
  <1> SUFFICES ASSUME act'["stt"] = "scheduled"
               PROVE  /\ stt'.pc = "off" /\ wf' = "running" /\ ~torn' /\ ~cancelRequested'
                      /\ \A h \in Hop : act'[h] \in {"scheduled", "started"}
                      /\ \A b \in Bus : Unheard(b)'
                      /\ \A n \in RespondAttempt : llm'[n].pc \in {"off", "waiting", "dead"}
                      /\ \A n \in SynthesizeAttempt : tts'[n].pc \in {"off", "awaitLang", "dead"}
    BY DEF NothingYet
  <1>1. act["stt"] = "scheduled"
    <2>1. ActStep("stt")
      BY NextActStep
    <2>2. act["stt"] = "started" => Retry("stt") = "failed"
      BY DEF StartedIsAnAttempt, Retry, MaxAttempts, TypeInv, TypeOK
    <2> QED BY <2>1, <2>2 DEF ActStep
  <1>2. \/ StartRespond \/ StartSynthesize \/ AudioEnd \/ BargeIn
        \/ TemporalCancels \/ Crash \/ UNCHANGED vars
    BY <1>1, NothingYetSteps
  <1>3. \A b \in Bus : Unheard(b)'
    <2>1. ~StartTranscribe
      BY DEF StartTranscribe, Pickup, TypeInv, TypeOK
    <2>2. ~EndTurn
      BY <1>1 DEF EndTurn, NothingYet
    <2> QED BY <1>1, <2>1, <2>2, UnheardStays DEF NothingYet
  <1>4. stt'.pc = "off"
    BY <1>1, <1>2 DEF NothingYet, StartRespond, StartSynthesize, AudioEnd, BargeIn,
       TemporalCancels, Crash, vars, llmFrame, ttsFrame, gatewayFrame, hopVars, Dead, Finished,
       TypeInv, TypeOK, SttAttempt
  <1>5. wf' = "running" /\ ~torn' /\ ~cancelRequested'
    BY <1>1, <1>2 DEF NothingYet, StartRespond, StartSynthesize, AudioEnd, BargeIn,
       TemporalCancels, Crash, vars, llmFrame, ttsFrame, gatewayFrame, flowVars
  <1>6. \A h \in Hop : act'[h] \in {"scheduled", "started"}
    BY <1>1, <1>2 DEF NothingYet, StartRespond, StartSynthesize, AudioEnd, BargeIn,
       TemporalCancels, Crash, vars, Pickup, TypeInv, TypeOK
  <1>7. \A n \in RespondAttempt : llm'[n].pc \in {"off", "waiting", "dead"}
    <2>1. \A n \in RespondAttempt : llm[n].pc \in {"off", "waiting", "dead"}
      BY <1>1 DEF NothingYet
    <2>2. CASE StartRespond
      BY <2>1, <2>2 DEF StartRespond, LlmOff, TypeInv, TypeOK
    <2>3. CASE TemporalCancels
      BY <2>1, <2>3 DEF TemporalCancels, TypeInv, TypeOK, LlmAttempt
    <2>4. CASE Crash
      BY <2>1, <2>4 DEF Crash, Dead, Finished, TypeInv, TypeOK, LlmAttempt
    <2>5. CASE UNCHANGED llm
      BY <2>1, <2>5
    <2> QED BY <1>2, <2>2, <2>3, <2>4, <2>5 DEF StartSynthesize, AudioEnd, BargeIn, vars,
        ttsFrame, gatewayFrame, hopVars
  <1>8. \A n \in SynthesizeAttempt : tts'[n].pc \in {"off", "awaitLang", "dead"}
    <2>1. \A n \in SynthesizeAttempt : tts[n].pc \in {"off", "awaitLang", "dead"}
      BY <1>1 DEF NothingYet
    <2>2. CASE StartSynthesize
      BY <2>1, <2>2 DEF StartSynthesize, TtsOff, TypeInv, TypeOK
    <2>3. CASE TemporalCancels
      BY <2>1, <2>3 DEF TemporalCancels, TypeInv, TypeOK, TtsAttempt
    <2>4. CASE Crash
      BY <2>1, <2>4 DEF Crash, Dead, Finished, TypeInv, TypeOK, TtsAttempt
    <2>5. CASE UNCHANGED tts
      BY <2>1, <2>5
    <2> QED BY <1>2, <2>2, <2>3, <2>4, <2>5 DEF StartRespond, AudioEnd, BargeIn, vars,
        llmFrame, gatewayFrame, hopVars
  <1> QED BY <1>3, <1>4, <1>5, <1>6, <1>7, <1>8

LEMMA NextAbortedIsTheTurns ==
  ASSUME TypeInv, AbortedIsTheTurns, [Next]_vars
  PROVE  AbortedIsTheTurns'
  <1>1. CASE EndTurn
    BY <1>1 DEF EndTurn, AbortedIsTheTurns
  <1>2. CASE Crash
    BY <1>2 DEF Crash, AbortedIsTheTurns
  <1>3. CASE BargeIn
    BY <1>3 DEF BargeIn, gatewayFrame, AbortedIsTheTurns, TypeInv, TypeOK
  <1>4. CASE ~EndTurn /\ ~Crash /\ ~BargeIn
    <2>1. UNCHANGED aborted
      BY <1>4 DEF Next, vars, Transcribe, StartTranscribe, TranscribeOpens, TranscribePartial,
         TranscribeFlush, TranscribeFinal, TranscribeError, TranscribeDrained, TranscribeStored,
         StartRespond, Respond, RespondReads, RespondInputEnds, RespondInputFails,
         RespondToNothing, RespondAsks, RespondRefused, RespondSentence, RespondCompletes,
         RespondFails, RespondThrows, StartSynthesize, Synthesize, SynthesizeConnects,
         SynthesizeOpens, SynthesizeSends, SynthesizeFlush, SynthesizeInputFails, SynthesizeChunk,
         SynthesizeQuiet, SynthesizeSocketCloses, SynthesizeError, SynthesizeDrained,
         SynthesizeStored, AudioEnd, CancelWorkflow, TemporalCancels, TimeOut, Settle,
         CloseWorkflow, busVars
    <2>2. torn' = torn /\ (UNCHANGED <<busMap, born>> \/ TouchBus)
      BY <1>4, MapKeepsTheBus
    <2>3. CASE TouchBus
      BY <2>1, <2>2, <2>3 DEF AbortedIsTheTurns, TouchBus, TurnBusOf, NoBus, Bus
    <2> QED BY <2>1, <2>2, <2>3 DEF AbortedIsTheTurns
  <1> QED BY <1>1, <1>2, <1>3, <1>4

LEMMA NextUnheard ==
  ASSUME TypeInv, NothingYet, LaterIsUnheard, NextIsUnheard, [Next]_vars
  PROVE  LaterIsUnheard' /\ NextIsUnheard'
  <1> TurnBusOf \in Bus
    BY BusLookup
  <1>1. CASE Crash
    BY <1>1, CrashUnheard DEF LaterIsUnheard, NextIsUnheard, Crash, TurnBusOf, NoBus, Bus
  <1>2. CASE EndTurn
    <2>1. born \in {0} \cup Bus /\ busMap = born /\ born <= 1
      BY <1>2 DEF EndTurn, TypeInv, TypeOK, BusInv
    <2>2. born' = born /\ busMap' = NoBus
      BY <1>2 DEF EndTurn, DisposeTurnBus
    <2>3. ~StartTranscribe
      BY <1>2 DEF StartTranscribe, Pickup, EndTurn, NothingYet
    <2>4. LaterIsUnheard'
      BY <2>1, <2>2, <2>3, UnheardStays DEF LaterIsUnheard, Bus
    <2>5. PICK b \in Bus : b = born + 1
      BY <2>1 DEF Bus
    <2>6. TurnBusOf' = b /\ b > born
      BY <2>1, <2>2, <2>5 DEF TurnBusOf
    <2>7. Unheard(b)'
      BY <2>1, <2>3, <2>5, <2>6, UnheardStays DEF LaterIsUnheard
    <2>8. NextIsUnheard'
      BY <2>6, <2>7 DEF NextIsUnheard, Unheard
    <2> QED BY <2>4, <2>8
  <1>3. CASE StartTranscribe
    <2>1. ~torn /\ torn' = torn
      BY <1>3 DEF StartTranscribe, Pickup, NothingYet, sttFrame, flowVars
    <2>2. busMap = born /\ born \in {0} \cup Bus
      BY <2>1 DEF TypeInv, TypeOK, BusInv
    <2>3. \A b \in Bus : b > born' => b > born /\ b # TurnBusOf
      BY <1>3, <2>2 DEF StartTranscribe, TouchBus, TurnBusOf, Bus, NoBus
    <2>4. stt'.bus = TurnBusOf /\ UNCHANGED <<lang, transcripts>>
      BY <1>3 DEF StartTranscribe, SttOff
    <2> QED BY <2>1, <2>3, <2>4 DEF LaterIsUnheard, NextIsUnheard, Unheard
  <1>4. CASE ~Crash /\ ~EndTurn /\ ~StartTranscribe
    <2>1. torn' = torn /\ TurnBusOf' = TurnBusOf /\ (UNCHANGED <<busMap, born>> \/ TouchBus)
      BY <1>4, MapKeepsTheBus
    <2>2. born' \in Nat /\ born \in Nat /\ born' >= born
      BY <2>1 DEF TouchBus, TypeInv, TypeOK, Bus
    <2>3. LaterIsUnheard'
      BY <1>4, <2>2, UnheardStays DEF LaterIsUnheard, Bus
    <2>4. NextIsUnheard'
      <3>1. PICK b \in Bus : b = TurnBusOf
        OBVIOUS
      <3>2. torn => Unheard(b)'
        BY <1>4, <3>1, UnheardStays DEF NextIsUnheard
      <3>3. TurnBusOf' = b
        BY <2>1, <3>1
      <3> QED BY <2>1, <3>2, <3>3 DEF NextIsUnheard, Unheard
    <2> QED BY <2>3, <2>4
  <1> QED BY <1>1, <1>2, <1>3, <1>4

\* A late attempt has nothing to do.
LEMMA LateRests ==
  ASSUME TypeInv, NextIsUnheard, LateWaits
  PROVE  /\ \A n \in RespondAttempt : llm[n].late => ~Respond(n)
         /\ \A n \in SynthesizeAttempt : tts[n].late => ~Synthesize(n)
  <1>1. ASSUME NEW n \in RespondAttempt, llm[n].late, Respond(n) PROVE FALSE
    <2>1. llm[n].pc = "waiting" /\ Unheard(llm[n].bus)
      BY <1>1 DEF LateWaits, NextIsUnheard, Respond, RespondReads, RespondInputEnds,
         RespondInputFails, RespondToNothing, RespondAsks, RespondRefused, RespondSentence,
         RespondCompletes, RespondFails
    <2>2. llm[n].cur \in Nat /\ transcripts[llm[n].bus] = EmptyChannel
      BY <2>1 DEF TypeInv, TypeOK, LlmAttempt, Unheard
    <2> QED BY <1>1, <2>1, <2>2
        DEF Respond, RespondReads, RespondInputEnds, RespondInputFails,
            RespondToNothing, RespondAsks, RespondRefused, RespondSentence, RespondCompletes,
            RespondFails, HasNext, Ended, Failed, EmptyChannel
  <1>2. ASSUME NEW n \in SynthesizeAttempt, tts[n].late, Synthesize(n) PROVE FALSE
    <2>1. tts[n].pc = "awaitLang" /\ Unheard(tts[n].bus)
      BY <1>2 DEF LateWaits, NextIsUnheard, Synthesize, SynthesizeConnects, SynthesizeOpens,
         SynthesizeSends, SynthesizeFlush, SynthesizeInputFails, SynthesizeChunk,
         SynthesizeQuiet, SynthesizeSocketCloses, SynthesizeError, SynthesizeDrained,
         SynthesizeStored
    <2> QED BY <1>2, <2>1
        DEF Unheard, Synthesize, SynthesizeConnects, SynthesizeOpens,
            SynthesizeSends, SynthesizeFlush, SynthesizeInputFails, SynthesizeChunk,
            SynthesizeQuiet, SynthesizeSocketCloses, SynthesizeError, SynthesizeDrained,
            SynthesizeStored
  <1> QED BY <1>1, <1>2

\* Only its start decides whether an attempt is late.
LEMMA RespondKeepsLate ==
  ASSUME TypeInv, NEW n \in RespondAttempt, Respond(n)
  PROVE  /\ llm'[n].late = llm[n].late
         /\ \A m \in RespondAttempt : m # n => llm'[m] = llm[m]
  <1> USE DEF TypeInv, TypeOK, LlmAttempt
  <1>1. CASE RespondReads(n)
    BY <1>1 DEF RespondReads
  <1>2. CASE RespondAsks(n)
    BY <1>2 DEF RespondAsks
  <1>3. CASE RespondInputEnds(n) \/ RespondSentence(n)
    BY <1>3 DEF RespondInputEnds, RespondSentence
  <1>4. CASE RespondToNothing(n) \/ RespondCompletes(n)
    BY <1>4 DEF RespondToNothing, RespondCompletes
  <1>5. CASE RespondInputFails(n) \/ RespondRefused(n) \/ RespondFails(n)
    BY <1>5 DEF RespondInputFails, RespondRefused, RespondFails, RespondThrows
  <1> QED BY <1>1, <1>2, <1>3, <1>4, <1>5 DEF Respond

LEMMA SynthesizeKeepsLate ==
  ASSUME TypeInv, NEW n \in SynthesizeAttempt, Synthesize(n)
  PROVE  /\ tts'[n].late = tts[n].late
         /\ \A m \in SynthesizeAttempt : m # n => tts'[m] = tts[m]
  <1> USE DEF TypeInv, TypeOK, TtsAttempt
  <1>1. CASE SynthesizeConnects(n)
    BY <1>1 DEF SynthesizeConnects
  <1>2. CASE SynthesizeOpens(n) \/ SynthesizeSends(n) \/ SynthesizeFlush(n)
    BY <1>2 DEF SynthesizeOpens, SynthesizeSends, SynthesizeFlush
  <1>3. CASE SynthesizeInputFails(n) \/ SynthesizeChunk(n) \/ SynthesizeQuiet(n)
    BY <1>3 DEF SynthesizeInputFails, SynthesizeChunk, SynthesizeQuiet
  <1>4. CASE SynthesizeSocketCloses(n) \/ SynthesizeError(n)
    BY <1>4 DEF SynthesizeSocketCloses, SynthesizeError
  <1>5. CASE SynthesizeDrained(n) \/ SynthesizeStored(n)
    BY <1>5 DEF SynthesizeDrained, SynthesizeStored
  <1> QED BY <1>1, <1>2, <1>3, <1>4, <1>5 DEF Synthesize

LlmWaits(n) == llm[n].late =>
  llm[n].pc = "dead" \/ (torn /\ llm[n].pc = "waiting" /\ llm[n].bus = TurnBusOf)
TtsWaits(n) == tts[n].late =>
  tts[n].pc = "dead" \/ (torn /\ tts[n].pc = "awaitLang" /\ tts[n].bus = TurnBusOf)

\* Where the bus a late attempt was handed stays the turn's.
LEMMA LlmKeepsWaiting ==
  ASSUME TypeInv, NextIsUnheard, LateWaits, [Next]_vars, ~EndTurn, ~Crash,
         NEW n \in RespondAttempt
  PROVE  LlmWaits(n)'
  <1>1. torn' = torn /\ TurnBusOf' = TurnBusOf /\ LlmWaits(n)
    BY MapKeepsTheBus DEF LateWaits, LlmWaits
  <1>2. CASE llm'[n] = llm[n]
    BY <1>1, <1>2 DEF LlmWaits
  <1>3. CASE StartRespond
    <2>1. CASE n = attempt["llm"] + 1
      <3>1. llm'[n] = [LlmOff EXCEPT !.pc = "waiting", !.bus = TurnBusOf, !.late = torn]
        BY <1>3, <2>1 DEF StartRespond, TypeInv, TypeOK
      <3> QED BY <1>1, <3>1 DEF LlmWaits, LlmOff
    <2>2. CASE n # attempt["llm"] + 1
      BY <1>2, <1>3, <2>2 DEF StartRespond, TypeInv, TypeOK
    <2> QED BY <2>1, <2>2
  <1>4. ASSUME NEW m \in RespondAttempt, Respond(m) PROVE LlmWaits(n)'
    <2>1. CASE m = n
      <3>1. ~llm'[n].late
        BY <1>4, <2>1, LateRests, RespondKeepsLate
      <3> QED BY <3>1 DEF LlmWaits
    <2>2. CASE m # n
      BY <1>2, <1>4, <2>2, RespondKeepsLate
    <2> QED BY <2>1, <2>2
  <1>5. CASE TemporalCancels
    <2>1. /\ llm'[n].late = llm[n].late /\ llm'[n].pc = llm[n].pc
          /\ llm'[n].bus = llm[n].bus
      BY <1>5 DEF TemporalCancels, TypeInv, TypeOK, LlmAttempt
    <2> QED BY <1>1, <2>1 DEF LlmWaits
  <1>6. CASE StartSynthesize \/ \E m \in SynthesizeAttempt : Synthesize(m)
    BY <1>2, <1>6, SynthesizeAlone
  <1>7. CASE Transcribe
    BY <1>2, <1>7, TranscribeAlone
  <1>8. CASE \/ AudioEnd \/ BargeIn \/ CancelWorkflow \/ Settle \/ CloseWorkflow
             \/ (\E h \in Hop : TimeOut(h)) \/ UNCHANGED vars
    BY <1>2, <1>8 DEF AudioEnd, BargeIn, CancelWorkflow, Settle, CloseWorkflow, TimeOut, vars,
       gatewayFrame, hopVars
  <1> QED BY <1>3, <1>4, <1>5, <1>6, <1>7, <1>8 DEF Next

LEMMA TtsKeepsWaiting ==
  ASSUME TypeInv, NextIsUnheard, LateWaits, [Next]_vars, ~EndTurn, ~Crash,
         NEW n \in SynthesizeAttempt
  PROVE  TtsWaits(n)'
  <1>1. torn' = torn /\ TurnBusOf' = TurnBusOf /\ TtsWaits(n)
    BY MapKeepsTheBus DEF LateWaits, TtsWaits
  <1>2. CASE tts'[n] = tts[n]
    BY <1>1, <1>2 DEF TtsWaits
  <1>3. CASE StartSynthesize
    <2>1. CASE n = attempt["tts"] + 1
      <3>1. tts'[n] = [TtsOff EXCEPT !.pc = "awaitLang", !.bus = TurnBusOf, !.late = torn]
        BY <1>3, <2>1 DEF StartSynthesize, TypeInv, TypeOK
      <3> QED BY <1>1, <3>1 DEF TtsWaits, TtsOff
    <2>2. CASE n # attempt["tts"] + 1
      BY <1>2, <1>3, <2>2 DEF StartSynthesize, TypeInv, TypeOK
    <2> QED BY <2>1, <2>2
  <1>4. ASSUME NEW m \in SynthesizeAttempt, Synthesize(m) PROVE TtsWaits(n)'
    <2>1. CASE m = n
      <3>1. ~tts'[n].late
        BY <1>4, <2>1, LateRests, SynthesizeKeepsLate
      <3> QED BY <3>1 DEF TtsWaits
    <2>2. CASE m # n
      BY <1>2, <1>4, <2>2, SynthesizeKeepsLate
    <2> QED BY <2>1, <2>2
  <1>5. CASE TemporalCancels
    <2>1. /\ tts'[n].late = tts[n].late /\ tts'[n].pc = tts[n].pc
          /\ tts'[n].bus = tts[n].bus
      BY <1>5 DEF TemporalCancels, TypeInv, TypeOK, TtsAttempt
    <2> QED BY <1>1, <2>1 DEF TtsWaits
  <1>6. CASE StartRespond \/ \E m \in RespondAttempt : Respond(m)
    BY <1>2, <1>6, RespondAlone
  <1>7. CASE Transcribe
    BY <1>2, <1>7, TranscribeAlone
  <1>8. CASE \/ AudioEnd \/ BargeIn \/ CancelWorkflow \/ Settle \/ CloseWorkflow
             \/ (\E h \in Hop : TimeOut(h)) \/ UNCHANGED vars
    BY <1>2, <1>8 DEF AudioEnd, BargeIn, CancelWorkflow, Settle, CloseWorkflow, TimeOut, vars,
       gatewayFrame, hopVars
  <1> QED BY <1>3, <1>4, <1>5, <1>6, <1>7, <1>8 DEF Next

LEMMA NextLateWaits ==
  ASSUME TypeInv, NextIsUnheard, LateWaits, [Next]_vars
  PROVE  LateWaits'
  <1>1. CASE Crash
    <2>1. \A n \in RespondAttempt : llm'[n].late => llm'[n].pc = "dead"
      BY <1>1 DEF Crash, Dead, Finished, LateWaits, TypeInv, TypeOK, LlmAttempt
    <2>2. \A n \in SynthesizeAttempt : tts'[n].late => tts'[n].pc = "dead"
      BY <1>1 DEF Crash, Dead, Finished, LateWaits, TypeInv, TypeOK, TtsAttempt
    <2> QED BY <2>1, <2>2 DEF LateWaits
  <1>2. CASE EndTurn
    BY <1>2 DEF EndTurn, hopVars, LateWaits
  <1>3. CASE ~EndTurn /\ ~Crash
    BY <1>3, LlmKeepsWaiting, TtsKeepsWaiting DEF LateWaits, LlmWaits, TtsWaits
  <1> QED BY <1>1, <1>2, <1>3

\* A hop that barge-in has reached is retried only behind endTurn.
RetriedOnlyBehindEndTurn ==
  \A h \in Hop : act[h] = "started" /\ act'[h] = "scheduled"
                   => torn \/ \A b \in Bus : ~aborted[b]

LEMMA RetriedBehindEndTurn ==
  ASSUME TypeInv, AbortedIsTheTurns, [Next]_vars, Hazards \cap Clocks = {}
  PROVE  RetriedOnlyBehindEndTurn
  BY NextNoRetry DEF NoRetry, RetriedOnlyBehindEndTurn, AbortedIsTheTurns, Bus, NoBus

\* While no clock runs out, a hop of a turn that barge-in has reached is granted a
\* retry only when endTurn is done with the turn, and no attempt of respond or
\* synthesize picked up behind endTurn ever answers or speaks, whatever else fails, is
\* lost, is cancelled or is restarted, and for any number of attempts.
THEOREM NobodyIsTalkedOver ==
  ASSUME Hazards \cap Clocks = {}
  PROVE  Spec => LateHopsStaySilent
  <1> DEFINE Inv == TurnInv /\ SilenceInv
             LlmSilent == \A n \in RespondAttempt : llm[n].late => llm[n].pc \in {"waiting", "dead"}
             TtsSilent == \A n \in SynthesizeAttempt : tts[n].late => tts[n].pc \in {"awaitLang", "dead"}
  <1>1. Init => Inv
    BY InitTurnInv, InitSilenceInv
  <1>2. Inv /\ [Next]_vars => Inv'
    BY NextTurnInv, NextNothingYet, NextAbortedIsTheTurns, NextUnheard, NextLateWaits
    DEF SilenceInv, TurnInv
  <1>3. Inv /\ [Next]_vars => [RetriedOnlyBehindEndTurn]_vars
    BY RetriedBehindEndTurn DEF TurnInv, SilenceInv
  <1>4. Inv => LlmSilent /\ TtsSilent
    BY DEF SilenceInv, LateWaits
  <1>5. Spec => []Inv
    BY <1>1, <1>2, PTL DEF Spec
  <1>6. Spec => [][RetriedOnlyBehindEndTurn]_vars /\ []LlmSilent /\ []TtsSilent
    BY <1>3, <1>4, <1>5, PTL DEF Spec
  <1> QED BY <1>6 DEF LateHopsStaySilent, RetriedOnlyBehindEndTurn

-----------------------------------------------------------------------------
(* The splitter is a recursive function.  What one says is shown of it by     *)
(* taking the least place at which it would not hold.                         *)

\* Numbers that are not all excluded have a least one.
LEMMA Least ==
  ASSUME NEW T, T \subseteq Nat, T # {}
  PROVE  \E m \in T : \A k \in T : m <= k
  <1> DEFINE R == {p \in Nat \X Nat : p[1] < p[2]}
  <1>1. IsWellFoundedOn(R, Nat)
    BY NatLessThanWellFounded DEF OpToRel
  <1>2. \A x, y \in T : ~(<<y, x>> \in R) => x <= y
    OBVIOUS
  <1> HIDE DEF R
  <1>3. \E x \in T : \A y \in T : ~(<<y, x>> \in R)
    BY <1>1, WFMin, Zenon
  <1> QED BY <1>2, <1>3

\* What does not hold everywhere has a least place, by any measure, where it does not.
LEMMA LeastPlace ==
  ASSUME NEW D, NEW mu \in [D -> Nat], NEW bad, bad \subseteq D, bad # {}
  PROVE  \E p \in bad : \A q \in D : mu[q] < mu[p] => q \notin bad
  <1> DEFINE T == {mu[p] : p \in bad}
  <1>0. T \subseteq Nat /\ T # {}
    OBVIOUS
  <1>1. PICK m \in T : \A k \in T : m <= k
    <2> HIDE DEF T
    <2> QED BY <1>0, Least
  <1>2. PICK p \in bad : m = mu[p]
    BY <1>1
  <1>3. \A q \in D : mu[q] < mu[p] => q \notin bad
    BY <1>1, <1>2
  <1> QED BY <1>3

\* What a step makes of a place looks only at the places below it.
LooksBelow(D, V, mu, step) ==
  /\ V # {}
  /\ mu \in [D -> Nat]
  /\ step \in [D \X [D -> V] -> V]
  /\ \A p \in D : \A g, h \in [D -> V] :
       (\A q \in D : mu[q] < mu[p] => g[q] = h[q]) => step[<<p, g>>] = step[<<p, h>>]

\* f is everywhere what the step makes of it.
Solves(f, D, V, step) == f \in [D -> V] /\ \A p \in D : f[p] = step[<<p, f>>]

\* Such a step defines a function.
LEMMA Recursion ==
  ASSUME NEW D, NEW V, NEW mu, NEW step, LooksBelow(D, V, mu, step)
  PROVE  \E f : Solves(f, D, V, step)
  <1> USE DEF LooksBelow
  <1> DEFINE Upto(n, f) == \A p \in D : mu[p] < n => f[p] = step[<<p, f>>]
             Gaps == {n \in Nat : ~\E f \in [D -> V] : Upto(n, f)}
  <1>1. \A n \in Nat : \E f \in [D -> V] : Upto(n, f)
    <2> SUFFICES ASSUME Gaps # {} PROVE FALSE
      OBVIOUS
    <2>1. PICK n \in Gaps : \A k \in Gaps : n <= k
      <3>1. Gaps \subseteq Nat
        OBVIOUS
      <3> HIDE DEF Gaps
      <3> QED BY <3>1, Least
    <2>2. n # 0
      <3>0. PICK v \in V : TRUE
        OBVIOUS
      <3>1. [p \in D |-> v] \in [D -> V] /\ Upto(0, [p \in D |-> v])
        OBVIOUS
      <3> QED BY <3>1, <2>1
    <2>3. PICK f \in [D -> V] : Upto(n - 1, f)
      <3>1. n - 1 \in Nat /\ ~(n <= n - 1)
        BY <2>1, <2>2
      <3>2. n - 1 \notin Gaps
        BY <2>1, <3>1
      <3> QED BY <3>1, <3>2
    <2> DEFINE g == [p \in D |-> step[<<p, f>>]]
    <2>4. g \in [D -> V]
      OBVIOUS
    <2>5. ASSUME NEW p \in D, mu[p] < n PROVE g[p] = step[<<p, g>>]
      <3>1. \A q \in D : mu[q] < mu[p] => g[q] = f[q]
        BY <2>1, <2>3, <2>5
      <3> HIDE DEF g
      <3>2. step[<<p, g>>] = step[<<p, f>>]
        BY <2>4, <3>1
      <3> QED BY <3>2 DEF g
    <2> QED BY <2>1, <2>4, <2>5
  <1>2. ASSUME NEW m \in Nat, NEW n \in Nat, NEW f \in [D -> V], NEW g \in [D -> V],
               Upto(m, f), Upto(n, g)
        PROVE  \A p \in D : mu[p] < m /\ mu[p] < n => f[p] = g[p]
    <2> DEFINE bad == {p \in D : mu[p] < m /\ mu[p] < n /\ f[p] # g[p]}
    <2>0. SUFFICES ASSUME bad # {} PROVE FALSE
      OBVIOUS
    <2>1. PICK p \in bad : \A q \in D : mu[q] < mu[p] => q \notin bad
      <3>1. bad \subseteq D
        OBVIOUS
      <3>2. mu \in [D -> Nat]
        OBVIOUS
      <3> HIDE DEF bad
      <3> QED BY ONLY <2>0, <3>1, <3>2, LeastPlace
    <2>2. \A q \in D : mu[q] < mu[p] => f[q] = g[q]
      BY <2>1
    <2>3. step[<<p, f>>] = step[<<p, g>>]
      BY <2>2
    <2> QED BY <1>2, <2>1, <2>3
  <1> DEFINE at == [n \in Nat |-> CHOOSE f \in [D -> V] : Upto(n, f)]
             limit == [p \in D |-> at[mu[p] + 1][p]]
  <1>3. \A n \in Nat : at[n] \in [D -> V] /\ Upto(n, at[n])
    BY <1>1
  <1>4. limit \in [D -> V]
    <2>1. \A p \in D : mu[p] + 1 \in Nat
      OBVIOUS
    <2> HIDE DEF at
    <2> QED BY <1>3, <2>1
  <1>5. ASSUME NEW p \in D PROVE limit[p] = step[<<p, limit>>]
    <2> DEFINE n == mu[p] + 1
    <2> HIDE DEF at
    <2>0. n \in Nat /\ mu[p] < n
      OBVIOUS
    <2>1. limit[p] = step[<<p, at[n]>>]
      BY <1>3, <2>0
    <2>2. ASSUME NEW q \in D, mu[q] < mu[p] PROVE limit[q] = at[n][q]
      <3>1. mu[q] + 1 \in Nat /\ mu[q] < mu[q] + 1 /\ mu[q] < n
        BY <2>2
      <3>2. at[mu[q] + 1][q] = at[n][q]
        <4> HIDE DEF Upto, n
        <4> QED BY SMTT(30), <1>2, <1>3, <3>1, <2>0
      <3> QED BY <3>2
    <2> HIDE DEF limit, n
    <2>3. step[<<p, at[n]>>] = step[<<p, limit>>]
      BY <1>3, <1>4, <2>0, <2>2
    <2> QED BY <2>1, <2>3
  <1> HIDE DEF limit
  <1> QED BY <1>4, <1>5 DEF Solves

-----------------------------------------------------------------------------
(* The splitter.  What it has left to do is what has not come of the reply, *)
(* and what has not been yielded of what came.                              *)

\* A set of numbers has its least and, when it is bounded, its greatest.
LEMMA LeastOf ==
  ASSUME NEW T, T \subseteq Nat, T # {}
  PROVE  Min(T) \in T /\ \A k \in T : Min(T) <= k
  <1>1. \E m \in T : \A k \in T : m <= k
    BY Least
  <1> QED BY <1>1 DEF Min

LEMMA GreatestOf ==
  ASSUME NEW n \in Nat, NEW T, T \subseteq 0..n, T # {}
  PROVE  Max(T) \in T /\ \A k \in T : k <= Max(T)
  <1> DEFINE U == {n - k : k \in T}
  <1>0. \A k \in T : k \in 0..n /\ n - k \in Nat
    OBVIOUS
  <1>1. U \subseteq Nat /\ U # {}
    <2>1. PICK k \in T : TRUE
      OBVIOUS
    <2>2. n - k \in U
      BY <2>1
    <2> QED BY <1>0, <2>2
  <1>2. PICK u \in U : \A v \in U : u <= v
    <2> HIDE DEF U
    <2> QED BY <1>1, Least
  <1>3. PICK m \in T : u = n - m
    OBVIOUS
  <1>4. ASSUME NEW k \in T PROVE k <= m
    <2>1. n - k \in U
      OBVIOUS
    <2>2. n - m <= n - k
      BY <1>2, <1>3, <2>1
    <2>3. k \in 0..n /\ m \in 0..n
      BY <1>0
    <2> QED BY ONLY <2>2, <2>3, n \in Nat
  <1>5. \E x \in T : \A y \in T : x >= y
    BY <1>4
  <1>6. Max(T) \in T /\ \A y \in T : Max(T) >= y
    BY <1>5 DEF Max
  <1> QED BY <1>6

\* A sentence, from its first place in the reply to its last.
Span == Nat \X Nat

LEMMA BufferOf ==
  ASSUME NEW reply \in Seq(Char), NEW buffer \in Buffers(reply)
  PROVE  /\ Len(reply) \in Nat
         /\ buffer[1] \in 0..Len(reply) /\ buffer[2] \in 0..Len(reply)
         /\ buffer = <<buffer[1], buffer[2]>>
         /\ Within(buffer) \subseteq 1..Len(reply)
         /\ \A i \in Within(buffer) : i \in Nat /\ buffer[1] < i /\ i <= buffer[2]
  BY DEF Buffers, Within

\* Where a buffer is cut, something comes before the cut.
LEMMA CutIsIn ==
  ASSUME NEW reply \in Seq(Char), NEW buffer \in Buffers(reply), CutPoints(reply, buffer) # {}
  PROVE  LET cut == Min(CutPoints(reply, buffer))
         IN /\ cut \in CutPoints(reply, buffer) /\ \A i \in CutPoints(reply, buffer) : cut <= i
            /\ cut \in Within(buffer) /\ cut \in 1..Len(reply)
            /\ buffer[1] < cut /\ cut <= buffer[2]
            /\ <<buffer[1], cut>> \in Buffers(reply)
            /\ Rest(buffer, cut) = <<cut, buffer[2]>> /\ Rest(buffer, cut) \in Buffers(reply)
  <1>1. CutPoints(reply, buffer) \subseteq Within(buffer)
    BY DEF CutPoints
  <1>2. CutPoints(reply, buffer) \subseteq Nat
    BY <1>1, BufferOf
  <1>3. PICK cut : cut = Min(CutPoints(reply, buffer)) /\ cut \in CutPoints(reply, buffer)
                   /\ \A i \in CutPoints(reply, buffer) : cut <= i
    BY <1>2, LeastOf
  <1>4. /\ cut \in Within(buffer) /\ cut \in 1..Len(reply) /\ buffer[1] < cut /\ cut <= buffer[2]
        /\ buffer[1] \in 0..Len(reply) /\ buffer[2] \in 0..Len(reply) /\ Len(reply) \in Nat
    BY <1>1, <1>3, BufferOf
  <1>5. <<buffer[1], cut>> \in Buffers(reply) /\ <<cut, buffer[2]>> \in Buffers(reply)
    BY <1>4 DEF Buffers
  <1> QED BY <1>3, <1>4, <1>5 DEF Rest

\* The next token brings something.
LEMMA NextEndIsIn ==
  ASSUME NEW reply \in Seq(Char), NEW breaks \in Breaks(reply), NEW buffer \in Buffers(reply),
         buffer[2] # Len(reply)
  PROVE  LET next == NextEnd(reply, breaks, buffer[2])
         IN /\ next \in breaks \cup {Len(reply)}
            /\ buffer[2] < next /\ next \in 1..Len(reply)
            /\ <<buffer[1], next>> \in Buffers(reply)
  <1> DEFINE T == {e \in breaks \cup {Len(reply)} : e > buffer[2]}
  <1>1. Len(reply) \in Nat /\ buffer[1] \in 0..Len(reply) /\ buffer[2] \in 0..Len(reply)
    BY BufferOf
  <1>0. breaks \subseteq 1..(Len(reply) - 1)
    BY DEF Breaks
  <1>2. T \subseteq 1..Len(reply) /\ T \subseteq Nat /\ Len(reply) \in T
    <2> DEFINE n == Len(reply)
    <2>0. n \in Nat /\ buffer[2] \in 0..n /\ buffer[2] # n
      BY <1>1
    <2> HIDE DEF n
    <2>1. n \in 1..n /\ n > buffer[2]
      BY <2>0
    <2>2. breaks \subseteq 1..n
      BY <1>0, <2>0 DEF n
    <2>3. n \in T
      BY <2>1 DEF n
    <2>4. T \subseteq 1..n
      BY <2>1, <2>2 DEF n
    <2> QED BY ONLY <2>0, <2>3, <2>4 DEF n
  <1>3. PICK next : next = Min(T) /\ next \in T
    <2> HIDE DEF T
    <2> QED BY <1>2, LeastOf
  <1>4. next \in breaks \cup {Len(reply)} /\ buffer[2] < next /\ next \in 1..Len(reply)
    BY <1>1, <1>2, <1>3
  <1>5. <<buffer[1], next>> \in Buffers(reply)
    BY <1>1, <1>4 DEF Buffers
  <1>6. NextEnd(reply, breaks, buffer[2]) = next
    BY <1>3 DEF NextEnd
  <1> QED BY <1>4, <1>5, <1>6

\* One step of the splitter, of which split does the rest.
SplitStep(reply, breaks, buffer, split) ==
  LET cuts == CutPoints(reply, buffer) IN
  IF cuts # {}
  THEN Trimmed(reply, <<buffer[1], Min(cuts)>>) \o split[Rest(buffer, Min(cuts))]
  ELSE IF buffer[2] # Len(reply)
  THEN split[<<buffer[1], NextEnd(reply, breaks, buffer[2])>>]
  ELSE Trimmed(reply, buffer)

Split(reply, breaks) ==
  CHOOSE split : split = [buffer \in Buffers(reply) |-> SplitStep(reply, breaks, buffer, split)]

\* The sentences of a reply are what the splitter makes of an empty buffer.
LEMMA SentencesAreSplit ==
  ASSUME NEW reply, NEW breaks
  PROVE  Sentences(reply, breaks) = Split(reply, breaks)[<<0, 0>>]
  BY Zenon DEF Sentences, Split, SplitStep

\* trim() leaves nothing of what is blank, and else all that can be heard.
LEMMA TrimmedIs ==
  ASSUME NEW reply \in Seq(Char), NEW buffer \in Buffers(reply)
  PROVE  \/ /\ Trimmed(reply, buffer) = << >>
            /\ \A i \in Within(buffer) : reply[i] = "space"
         \/ \E first, last \in Within(buffer) :
              /\ Trimmed(reply, buffer) = << <<first, last>> >>
              /\ first <= last /\ reply[first] # "space" /\ reply[last] # "space"
              /\ \A i \in Within(buffer) : reply[i] # "space" => first <= i /\ i <= last
  <1> DEFINE said == {i \in Within(buffer) : reply[i] # "space"}
  <1>1. CASE said = {}
    BY <1>1 DEF Trimmed
  <1>2. CASE said # {}
    <2>1. said \subseteq Nat /\ said \subseteq 0..Len(reply) /\ Len(reply) \in Nat
      BY BufferOf
    <2> HIDE DEF said
    <2>2. PICK first : first = Min(said) /\ first \in said /\ \A k \in said : first <= k
      BY <1>2, <2>1, LeastOf
    <2>3. PICK last : last = Max(said) /\ last \in said /\ \A k \in said : k <= last
      BY <1>2, <2>1, GreatestOf
    <2>4. Trimmed(reply, buffer) = << <<first, last>> >>
      BY <1>2, <2>2, <2>3 DEF Trimmed, said
    <2> QED BY <2>2, <2>3, <2>4 DEF said
  <1> QED BY <1>1, <1>2

LEMMA TrimmedType ==
  ASSUME NEW reply \in Seq(Char), NEW buffer \in Buffers(reply)
  PROVE  Trimmed(reply, buffer) \in Seq(Span)
  <1>1. Within(buffer) \subseteq Nat
    BY BufferOf
  <1>2. CASE Trimmed(reply, buffer) = << >>
    BY <1>2
  <1>3. CASE \E first, last \in Within(buffer) : Trimmed(reply, buffer) = << <<first, last>> >>
    BY <1>1, <1>3 DEF Span
  <1> QED BY <1>2, <1>3, TrimmedIs

\* The splitter is what its recursion says.
LEMMA SplitRecursion ==
  ASSUME NEW reply \in Seq(Char), NEW breaks \in Breaks(reply)
  PROVE  /\ Split(reply, breaks) \in [Buffers(reply) -> Seq(Span)]
         /\ \A buffer \in Buffers(reply) :
              Split(reply, breaks)[buffer] = SplitStep(reply, breaks, buffer, Split(reply, breaks))
  <1> DEFINE D == Buffers(reply)
             V == Seq(Span)
             mu == [b \in D |-> (Len(reply) - b[1]) + (Len(reply) - b[2])]
             Body(b, g) == SplitStep(reply, breaks, b, g)
             step == [q \in D \X [D -> V] |-> Body(q[1], q[2])]
  <1>1. mu \in [D -> Nat]
    BY BufferOf
  <1>2. ASSUME NEW b \in D, CutPoints(reply, b) # {}
        PROVE  LET rest == Rest(b, Min(CutPoints(reply, b))) IN rest \in D /\ mu[rest] < mu[b]
    <2>1. PICK cut : /\ cut = Min(CutPoints(reply, b)) /\ b[1] < cut /\ cut \in 1..Len(reply)
                     /\ Rest(b, cut) = <<cut, b[2]>> /\ Rest(b, cut) \in D
      BY <1>2, CutIsIn
    <2> QED BY <2>1, BufferOf
  <1>3. ASSUME NEW b \in D, b[2] # Len(reply)
        PROVE  LET next == <<b[1], NextEnd(reply, breaks, b[2])>>
               IN next \in D /\ mu[next] < mu[b]
    <2>1. PICK next : /\ next = NextEnd(reply, breaks, b[2])
                      /\ b[2] < next /\ next \in 1..Len(reply) /\ <<b[1], next>> \in D
      BY <1>3, NextEndIsIn
    <2> QED BY <2>1, BufferOf
  <1> HIDE DEF mu
  <1>4. ASSUME NEW b \in D, NEW g, \A t \in D : mu[t] < mu[b] => g[t] \in V
        PROVE  Body(b, g) \in V
    <2>1. CASE CutPoints(reply, b) # {}
      <3> DEFINE cut == Min(CutPoints(reply, b))
      <3>1. Trimmed(reply, <<b[1], cut>>) \in V
        BY <2>1, CutIsIn, TrimmedType
      <3>2. g[Rest(b, cut)] \in V
        BY <1>2, <1>4, <2>1
      <3>3. Body(b, g) = Trimmed(reply, <<b[1], cut>>) \o g[Rest(b, cut)]
        BY <2>1 DEF SplitStep
      <3> HIDE DEF cut, Body
      <3> QED BY <3>1, <3>2, <3>3
    <2>2. CASE CutPoints(reply, b) = {} /\ b[2] # Len(reply)
      BY <1>3, <1>4, <2>2 DEF SplitStep
    <2>3. CASE CutPoints(reply, b) = {} /\ b[2] = Len(reply)
      BY <2>3, TrimmedType DEF SplitStep
    <2> QED BY <2>1, <2>2, <2>3
  <1>5. ASSUME NEW b \in D, NEW g, NEW h, \A t \in D : mu[t] < mu[b] => g[t] = h[t]
        PROVE  Body(b, g) = Body(b, h)
    BY <1>2, <1>3, <1>5 DEF SplitStep
  <1> HIDE DEF Body
  <1>6. \E f1 : f1 = [b \in D |-> Body(b, f1)]
    <2>1. step \in [D \X [D -> V] -> V]
      BY <1>4
    <2>2. \A b \in D, g \in [D -> V] : step[<<b, g>>] = Body(b, g)
      OBVIOUS
    <2>0. V # {}
      <3>1. << >> \in Seq(Span)
        OBVIOUS
      <3> QED BY <3>1
    <2> HIDE DEF D, V, step
    <2>3. LooksBelow(D, V, mu, step)
      <3>1. ASSUME NEW b \in D, NEW g \in [D -> V], NEW h \in [D -> V],
                   \A t \in D : mu[t] < mu[b] => g[t] = h[t]
            PROVE  step[<<b, g>>] = step[<<b, h>>]
        <4>1. Body(b, g) = Body(b, h)
          BY <1>5, <3>1
        <4> QED BY <2>2, <4>1
      <3> QED BY <1>1, <2>0, <2>1, <3>1 DEF LooksBelow
    <2>4. PICK f1 : Solves(f1, D, V, step)
      BY <2>3, Recursion
    <2>5. f1 = [b \in D |-> Body(b, f1)]
      BY <2>2, <2>4 DEF Solves
    <2> QED BY <2>5
  <1> DEFINE split == Split(reply, breaks)
  <1>7. split = [b \in D |-> Body(b, split)]
    <2>1. split = CHOOSE g : g = [b \in D |-> Body(b, g)]
      BY DEF Split, Body
    <2> HIDE DEF split, D
    <2> QED BY <1>6, <2>1
  <1> HIDE DEF split
  <1>8. \A b \in D : split[b] \in V
    <2> DEFINE bad == {b \in D : split[b] \notin V}
    <2>0. SUFFICES ASSUME bad # {} PROVE FALSE
      OBVIOUS
    <2>1. PICK b \in bad : \A t \in D : mu[t] < mu[b] => t \notin bad
      <3>1. bad \subseteq D
        OBVIOUS
      <3> HIDE DEF bad, D
      <3> QED BY ONLY <2>0, <3>1, <1>1, LeastPlace
    <2>2. Body(b, split) \in V
      BY <1>4, <2>1
    <2> HIDE DEF D, V
    <2> QED BY <1>7, <2>1, <2>2
  <1>9. \A b \in D : split[b] = Body(b, split)
    <2> HIDE DEF D
    <2> QED BY <1>7
  <1>10. split \in [D -> V]
    <2> HIDE DEF D, V
    <2> QED BY <1>7, <1>8
  <1> QED BY <1>9, <1>10 DEF Body, split

\* What is said of a reply behind its place from and up to its place to: what can be heard
\* there is said, in order, and nothing else.
Covers(reply, said, from, to) ==
  /\ said \in Seq(Span)
  /\ \A k \in 1..Len(said) :
       /\ from < said[k][1] /\ said[k][1] <= said[k][2] /\ said[k][2] <= to
       /\ reply[said[k][1]] # "space" /\ reply[said[k][2]] # "space"
  /\ \A j, k \in 1..Len(said) : j < k => said[j][2] < said[k][1]
  /\ \A i \in (from + 1)..to :
       reply[i] # "space" => \E k \in 1..Len(said) : said[k][1] <= i /\ i <= said[k][2]

LEMMA TrimmedCovers ==
  ASSUME NEW reply \in Seq(Char), NEW buffer \in Buffers(reply)
  PROVE  Covers(reply, Trimmed(reply, buffer), buffer[1], buffer[2])
  <1> DEFINE said == Trimmed(reply, buffer)
  <1>0. said \in Seq(Span)
    BY TrimmedType
  <1>1. ASSUME said = << >>, \A i \in Within(buffer) : reply[i] = "space"
        PROVE  Covers(reply, said, buffer[1], buffer[2])
    <2>1. \A i \in (buffer[1] + 1)..buffer[2] : reply[i] = "space"
      BY <1>1 DEF Within
    <2> HIDE DEF said
    <2> QED BY ONLY <1>0, <1>1, <2>1 DEF Covers
  <1>2. ASSUME NEW first \in Within(buffer), NEW last \in Within(buffer),
               said = << <<first, last>> >>,
               first <= last /\ reply[first] # "space" /\ reply[last] # "space",
               \A i \in Within(buffer) : reply[i] # "space" => first <= i /\ i <= last
        PROVE  Covers(reply, said, buffer[1], buffer[2])
    <2>1. first \in Nat /\ last \in Nat /\ buffer[1] < first /\ last <= buffer[2]
      BY BufferOf
    <2> HIDE DEF said
    <2>2. Len(said) = 1 /\ said[1][1] = first /\ said[1][2] = last
      BY <1>2
    <2>3. \A k \in 1..Len(said) : k = 1
      BY <2>2
    <2>4. 1 \in 1..Len(said)
      BY <2>2
    <2>5. \A i \in (buffer[1] + 1)..buffer[2] :
             reply[i] # "space" => \E k \in 1..Len(said) : said[k][1] <= i /\ i <= said[k][2]
      BY <1>2, <2>2, <2>4 DEF Within
    <2>6. \A j, k \in 1..Len(said) : j < k => said[j][2] < said[k][1]
      BY <2>2
    <2>7. \A k \in 1..Len(said) :
            /\ buffer[1] < said[k][1] /\ said[k][1] <= said[k][2] /\ said[k][2] <= buffer[2]
            /\ reply[said[k][1]] # "space" /\ reply[said[k][2]] # "space"
      BY <1>2, <2>1, <2>2, <2>3
    <2> QED BY ONLY <1>0, <2>5, <2>6, <2>7 DEF Covers
  <1> QED BY <1>1, <1>2, TrimmedIs

\* What is said of two parts, one behind the other, is said of both.
LEMMA CoversJoined ==
  ASSUME NEW reply, NEW from \in Nat, NEW cut \in Nat, NEW to \in Nat, from <= cut, cut <= to,
         NEW S, NEW T, Covers(reply, S, from, cut), Covers(reply, T, cut, to)
  PROVE  Covers(reply, S \o T, from, to)
  <1> DEFINE both == S \o T
             s == Len(S)
             t == Len(T)
  <1>0. S \in Seq(Span) /\ T \in Seq(Span) /\ both \in Seq(Span) /\ s \in Nat /\ t \in Nat
    BY DEF Covers
  <1>1. /\ Len(both) = s + t
        /\ \A k \in 1..s : both[k] = S[k]
        /\ \A k \in 1..t : both[s + k] = T[k]
    BY <1>0
  <1>2. /\ \A k \in 1..s : S[k][1] \in Nat /\ S[k][2] \in Nat
        /\ \A k \in 1..t : T[k][1] \in Nat /\ T[k][2] \in Nat
    <2>1. \A k \in 1..s : S[k] \in Span
      BY <1>0
    <2>2. \A k \in 1..t : T[k] \in Span
      BY <1>0
    <2> HIDE DEF s, t
    <2> QED BY ONLY <2>1, <2>2 DEF Span
  <1>3. ASSUME NEW k \in 1..Len(both)
        PROVE  \/ k \in 1..s /\ both[k] = S[k]
               \/ k - s \in 1..t /\ both[k] = T[k - s] /\ k > s
    <2>1. CASE k <= s
      BY <1>0, <1>1, <2>1
    <2>2. CASE k > s
      <3>1. k - s \in 1..t /\ s + (k - s) = k
        BY <1>0, <1>1, <2>2
      <3> QED BY <1>1, <2>2, <3>1
    <2> QED BY <1>0, <2>1, <2>2
  <1> HIDE DEF both, s, t
  <1>4. /\ \A k \in 1..s :
             /\ from < S[k][1] /\ S[k][1] <= S[k][2] /\ S[k][2] <= cut
             /\ reply[S[k][1]] # "space" /\ reply[S[k][2]] # "space"
        /\ \A j, k \in 1..s : j < k => S[j][2] < S[k][1]
        /\ \A i \in (from + 1)..cut :
             reply[i] # "space" => \E k \in 1..s : S[k][1] <= i /\ i <= S[k][2]
    BY DEF Covers, s
  <1>5. /\ \A k \in 1..t :
             /\ cut < T[k][1] /\ T[k][1] <= T[k][2] /\ T[k][2] <= to
             /\ reply[T[k][1]] # "space" /\ reply[T[k][2]] # "space"
        /\ \A j, k \in 1..t : j < k => T[j][2] < T[k][1]
        /\ \A i \in (cut + 1)..to :
             reply[i] # "space" => \E k \in 1..t : T[k][1] <= i /\ i <= T[k][2]
    BY DEF Covers, t
  <1>6. ASSUME NEW k \in 1..Len(both)
        PROVE  /\ from < both[k][1] /\ both[k][1] <= both[k][2] /\ both[k][2] <= to
               /\ reply[both[k][1]] # "space" /\ reply[both[k][2]] # "space"
    <2>1. CASE k \in 1..s /\ both[k] = S[k]
      BY <1>2, <1>4, <2>1
    <2>2. CASE k - s \in 1..t /\ both[k] = T[k - s]
      BY <1>2, <1>5, <2>2
    <2> QED BY <1>3, <2>1, <2>2
  <1>7. ASSUME NEW j \in 1..Len(both), NEW k \in 1..Len(both), j < k
        PROVE  both[j][2] < both[k][1]
    <2>1. CASE j \in 1..s /\ both[j] = S[j] /\ k \in 1..s /\ both[k] = S[k]
      BY <1>4, <1>7, <2>1
    <2>2. CASE j \in 1..s /\ both[j] = S[j] /\ k - s \in 1..t /\ both[k] = T[k - s]
      <3>1. S[j][2] <= cut /\ cut < T[k - s][1] /\ S[j][2] \in Nat /\ T[k - s][1] \in Nat
        BY <1>2, <1>4, <1>5, <2>2
      <3> QED BY SMTT(30), <2>2, <3>1
    <2>3. CASE j - s \in 1..t /\ both[j] = T[j - s] /\ k - s \in 1..t /\ both[k] = T[k - s]
      <3>1. j - s < k - s
        BY <1>0, <1>7
      <3> QED BY <1>5, <2>3, <3>1
    <2>4. ~(j > s /\ k \in 1..s)
      BY <1>0, <1>7
    <2> QED BY <1>3, <2>1, <2>2, <2>3, <2>4
  <1>8. ASSUME NEW i \in (from + 1)..to, reply[i] # "space"
        PROVE  \E k \in 1..Len(both) : both[k][1] <= i /\ i <= both[k][2]
    <2>1. CASE i <= cut
      <3>1. PICK k \in 1..s : S[k][1] <= i /\ i <= S[k][2]
        BY <1>4, <1>8, <2>1
      <3>2. k \in 1..Len(both) /\ both[k] = S[k]
        BY <1>0, <1>1
      <3> QED BY <3>1, <3>2
    <2>2. CASE cut < i
      <3>1. PICK k \in 1..t : T[k][1] <= i /\ i <= T[k][2]
        BY <1>5, <1>8, <2>2
      <3>2. s + k \in 1..Len(both) /\ both[s + k] = T[k]
        BY <1>0, <1>1
      <3> QED BY <3>1, <3>2
    <2> QED BY <2>1, <2>2
  <1>9. Covers(reply, both, from, to)
    BY ONLY <1>0, <1>6, <1>7, <1>8 DEF Covers
  <1> QED BY <1>9 DEF both

\* From any buffer on, the splitter says what is in it and what is to come.
LEMMA SplitCovers ==
  ASSUME NEW reply \in Seq(Char), NEW breaks \in Breaks(reply), NEW buffer \in Buffers(reply)
  PROVE  Covers(reply, Split(reply, breaks)[buffer], buffer[1], Len(reply))
  <1> DEFINE D == Buffers(reply)
             n == Len(reply)
             split == Split(reply, breaks)
             mu == [b \in D |-> (n - b[1]) + (n - b[2])]
             bad == {b \in D : ~Covers(reply, split[b], b[1], n)}
  <1>0. n \in Nat
    BY BufferOf
  <1>1. mu \in [D -> Nat]
    BY BufferOf
  <1>2. SUFFICES ASSUME bad # {} PROVE FALSE
    OBVIOUS
  <1>3. PICK b \in bad : \A q \in D : mu[q] < mu[b] => q \notin bad
    <2>1. bad \subseteq D
      OBVIOUS
    <2> HIDE DEF bad, D, mu
    <2> QED BY ONLY <1>1, <1>2, <2>1, LeastPlace
  <1>4. b \in D /\ b[1] \in 0..n /\ b[2] \in 0..n /\ split[b] = SplitStep(reply, breaks, b, split)
    BY SplitRecursion, BufferOf
  <1>5. ASSUME CutPoints(reply, b) # {} PROVE FALSE
    <2>1. PICK cut : /\ cut = Min(CutPoints(reply, b)) /\ b[1] < cut /\ cut \in 1..n
                     /\ <<b[1], cut>> \in D
                     /\ Rest(b, cut) = <<cut, b[2]>> /\ <<cut, b[2]>> \in D
      BY <1>4, <1>5, CutIsIn
    <2>2. split[b] = Trimmed(reply, <<b[1], cut>>) \o split[<<cut, b[2]>>]
      BY <1>4, <1>5, <2>1 DEF SplitStep
    <2>3. mu[<<cut, b[2]>>] < mu[b]
      BY <1>0, <1>4, <2>1
    <2>4. Covers(reply, split[<<cut, b[2]>>], cut, n)
      BY <1>3, <2>1, <2>3
    <2>5. Covers(reply, Trimmed(reply, <<b[1], cut>>), b[1], cut)
      BY <2>1, TrimmedCovers
    <2>6. b[1] \in Nat /\ cut \in Nat /\ b[1] <= cut /\ cut <= n
      BY <1>0, <1>4, <2>1
    <2>7. Covers(reply, Trimmed(reply, <<b[1], cut>>) \o split[<<cut, b[2]>>], b[1], n)
      <3> HIDE DEF split, n
      <3> QED BY <1>0, <2>4, <2>5, <2>6, CoversJoined
    <2>8. Covers(reply, split[b], b[1], n)
      BY <2>2, <2>7
    <2> QED BY <1>3, <2>8
  <1>6. ASSUME CutPoints(reply, b) = {}, b[2] # n PROVE FALSE
    <2>1. PICK next : /\ next = NextEnd(reply, breaks, b[2]) /\ b[2] < next /\ next \in 1..n
                      /\ <<b[1], next>> \in D
      BY <1>4, <1>6, NextEndIsIn
    <2>2. split[b] = split[<<b[1], next>>]
      BY <1>4, <1>6, <2>1 DEF SplitStep
    <2>3. mu[<<b[1], next>>] < mu[b]
      BY <1>0, <1>4, <2>1
    <2>4. Covers(reply, split[<<b[1], next>>], b[1], n)
      BY <1>3, <2>1, <2>3
    <2> QED BY <1>3, <2>2, <2>4
  <1>7. ASSUME CutPoints(reply, b) = {}, b[2] = n PROVE FALSE
    <2>1. split[b] = Trimmed(reply, b)
      BY <1>4, <1>7 DEF SplitStep
    <2> QED BY <1>3, <1>4, <1>7, <2>1, TrimmedCovers
  <1> QED BY <1>5, <1>6, <1>7

\* Of any reply, in any tokens, every character that can be heard is in a sentence, the
\* sentences are in order and do not overlap, and none is blank (sentences, cutPoint).
THEOREM EveryReplyIsSpoken ==
  ASSUME NEW reply \in Seq(Char), NEW breaks \in Breaks(reply)
  PROVE  IsSpoken(reply, breaks)
  <1> DEFINE said == Sentences(reply, breaks)
             n == Len(reply)
  <1>0. n \in Nat
    OBVIOUS
  <1>1. <<0, 0>> \in Buffers(reply)
    BY <1>0 DEF Buffers
  <1>2. Covers(reply, said, 0, n)
    BY <1>1, SentencesAreSplit, SplitCovers
  <1> HIDE DEF said
  <1>3. said \in Seq(Span) /\ DOMAIN said = 1..Len(said) /\ DOMAIN reply = 1..n
    BY <1>2 DEF Covers
  <1>4. \A k \in 1..Len(said) : said[k][1] \in Nat /\ said[k][2] \in Nat
    BY <1>3 DEF Span
  <1>5. /\ \A k \in 1..Len(said) :
             /\ 0 < said[k][1] /\ said[k][1] <= said[k][2] /\ said[k][2] <= n
             /\ reply[said[k][1]] # "space" /\ reply[said[k][2]] # "space"
        /\ \A j, k \in 1..Len(said) : j < k => said[j][2] < said[k][1]
        /\ \A i \in 1..n :
             reply[i] # "space" => \E k \in 1..Len(said) : said[k][1] <= i /\ i <= said[k][2]
    BY <1>2 DEF Covers
  <1>6. \A k \in 1..Len(said) : said[k][1] \in 1..n /\ said[k][2] \in 1..n
    BY <1>0, <1>4, <1>5
  <1> HIDE DEF n
  <1> QED BY <1>3, <1>5, <1>6 DEF IsSpoken, said

\* A buffer is cut where the whole reply would be, unless it ends at a decimal point.
LEMMA SameCuts ==
  ASSUME NEW reply \in Seq(Char), NEW buffer \in Buffers(reply),
         ~IsDecimal(reply, <<0, Len(reply)>>, buffer[2])
  PROVE  \A i \in Within(buffer) :
           i \in CutPoints(reply, buffer) <=> i \in CutPoints(reply, <<buffer[1], Len(reply)>>)
  <1> DEFINE n == Len(reply)
             f == buffer[1]
             t == buffer[2]
  <1>0. n \in Nat /\ f \in 0..n /\ t \in 0..n
    BY BufferOf
  <1>1. TAKE i \in Within(buffer)
  <1>2. i \in (f + 1)..t /\ i \in (f + 1)..n
    BY <1>0 DEF Within
  <1>3. IsDecimal(reply, buffer, i) <=> IsDecimal(reply, <<f, n>>, i)
    <2>1. CASE i < t
      <3>1. {i - 1, i + 1} \subseteq (f + 1)..t <=> {i - 1, i + 1} \subseteq (f + 1)..n
        BY <1>0, <1>2, <2>1
      <3> QED BY <3>1 DEF IsDecimal, Within
    <2>2. CASE i = t
      <3>1. ~IsDecimal(reply, buffer, i)
        BY <1>0, <2>2 DEF IsDecimal, Within
      <3>2. ~IsDecimal(reply, <<f, n>>, i)
        <4>1. {i - 1, i + 1} \subseteq (f + 1)..n => {i - 1, i + 1} \subseteq (0 + 1)..n
          BY <1>0, <1>2
        <4> QED BY <2>2, <4>1 DEF IsDecimal, Within
      <3> QED BY <3>1, <3>2
    <2> QED BY <1>0, <1>2, <2>1, <2>2
  <1>4. Closes(reply, buffer, i) <=> Closes(reply, <<f, n>>, i)
    BY <1>3 DEF Closes
  <1> QED BY <1>2, <1>4 DEF CutPoints, Within

\* From a buffer on that ends where a token does, the splitter says what it would say if it
\* had the whole reply.
LEMMA SplitAsTheWhole ==
  ASSUME NEW reply \in Seq(Char), NEW breaks \in Breaks(reply),
         \A i \in breaks : ~IsDecimal(reply, <<0, Len(reply)>>, i),
         NEW from \in 0..Len(reply), NEW to \in {0} \cup breaks \cup {Len(reply)}
  PROVE  Split(reply, breaks)[<<from, to>>] = Split(reply, {})[<<from, Len(reply)>>]
  <1> DEFINE D == Buffers(reply)
             n == Len(reply)
             split == Split(reply, breaks)
             whole == Split(reply, {})
             ends == {0} \cup breaks \cup {n}
             mu == [b \in D |-> (n - b[1]) + (n - b[2])]
             bad == {b \in D : b[2] \in ends /\ split[b] # whole[<<b[1], n>>]}
  <1>0. n \in Nat /\ breaks \subseteq 1..(n - 1) /\ {} \in Breaks(reply)
    BY DEF Breaks
  <1>1. mu \in [D -> Nat]
    BY BufferOf
  <1>2. <<from, to>> \in D
    BY <1>0 DEF Buffers
  <1>3. SUFFICES ASSUME bad # {} PROVE FALSE
    BY <1>2
  <1>4. PICK b \in bad : \A q \in D : mu[q] < mu[b] => q \notin bad
    <2>1. bad \subseteq D
      OBVIOUS
    <2> HIDE DEF bad, D, mu
    <2> QED BY ONLY <1>1, <1>3, <2>1, LeastPlace
  <1> DEFINE f == b[1]
             t == b[2]
             all == <<f, n>>
  <1>5. /\ b \in D /\ f \in 0..n /\ t \in 0..n /\ t \in ends /\ b = <<f, t>> /\ all \in D
        /\ split[b] = SplitStep(reply, breaks, b, split)
        /\ whole[all] = SplitStep(reply, {}, all, whole)
    <2>1. b \in D /\ f \in 0..n /\ t \in 0..n /\ t \in ends /\ b = <<f, t>>
      BY BufferOf
    <2>2. all \in D
      BY <1>0, <2>1 DEF Buffers
    <2> QED BY <1>0, <2>1, <2>2, SplitRecursion
  <1>6. ~IsDecimal(reply, <<0, n>>, t)
    BY <1>0, <1>5 DEF IsDecimal, Within
  <1>7. \A i \in Within(b) : i \in CutPoints(reply, b) <=> i \in CutPoints(reply, all)
    BY <1>5, <1>6, SameCuts
  <1>8. ASSUME CutPoints(reply, b) # {} PROVE FALSE
    <2>1. PICK cut : /\ cut = Min(CutPoints(reply, b)) /\ f < cut /\ cut \in 1..n
                     /\ cut \in CutPoints(reply, b) /\ cut \in Within(b)
                     /\ \A i \in CutPoints(reply, b) : cut <= i
                     /\ Rest(b, cut) = <<cut, t>> /\ <<cut, t>> \in D
      BY <1>5, <1>8, CutIsIn
    <2>2. cut \in CutPoints(reply, all)
      BY <1>7, <2>1
    <2>3. PICK first : /\ first = Min(CutPoints(reply, all)) /\ f < first /\ first \in 1..n
                       /\ first \in CutPoints(reply, all)
                       /\ \A i \in CutPoints(reply, all) : first <= i
                       /\ Rest(all, first) = <<first, n>>
      BY <1>5, <2>2, CutIsIn
    <2>4. first <= cut
      BY <2>2, <2>3
    <2>5. first \in Within(b)
      BY <1>0, <1>5, <2>1, <2>3, <2>4 DEF Within
    <2>6. first = cut
      <3>1. cut <= first
        BY <1>7, <2>1, <2>3, <2>5
      <3>2. first \in Int /\ cut \in Int
        BY <1>0, <2>1, <2>3
      <3> QED BY ONLY <2>4, <3>1, <3>2
    <2>7. split[b] = Trimmed(reply, <<f, cut>>) \o split[<<cut, t>>]
      BY <1>5, <1>8, <2>1 DEF SplitStep
    <2>8. whole[all] = Trimmed(reply, <<f, cut>>) \o whole[<<cut, n>>]
      BY <1>5, <2>2, <2>3, <2>6 DEF SplitStep
    <2>9. mu[<<cut, t>>] < mu[b]
      BY <1>0, <1>5, <2>1
    <2>10. split[<<cut, t>>] = whole[<<cut, n>>]
      BY <1>4, <1>5, <2>1, <2>9
    <2> QED BY <1>4, <2>7, <2>8, <2>10
  <1>9. ASSUME CutPoints(reply, b) = {}, t # n PROVE FALSE
    <2>1. PICK next : /\ next = NextEnd(reply, breaks, t) /\ t < next /\ next \in 1..n
                      /\ next \in breaks \cup {n} /\ <<f, next>> \in D
      BY <1>5, <1>9, NextEndIsIn
    <2>2. split[b] = split[<<f, next>>]
      BY <1>5, <1>9, <2>1 DEF SplitStep
    <2>3. mu[<<f, next>>] < mu[b]
      BY <1>0, <1>5, <2>1
    <2>4. split[<<f, next>>] = whole[all]
      BY <1>4, <1>5, <2>1, <2>3
    <2> QED BY <1>4, <2>2, <2>4
  <1>10. ASSUME CutPoints(reply, b) = {}, t = n PROVE FALSE
    <2>1. b = all /\ all[2] = n
      BY <1>5, <1>10
    <2>2. split[b] = Trimmed(reply, b) /\ whole[all] = Trimmed(reply, all)
      BY <1>5, <1>10, <2>1 DEF SplitStep
    <2> QED BY <1>4, <2>1, <2>2
  <1> QED BY <1>8, <1>9, <1>10

\* Of any reply, tokens of which none ends at a decimal point make the sentences that the
\* reply makes in one token: none is cut otherwise because of where a token fell (cutPoint).
THEOREM EveryReplyIsSplitAsAWhole ==
  ASSUME NEW reply \in Seq(Char), NEW breaks \in Breaks(reply)
  PROVE  IsSplitAsAWhole(reply, breaks)
  <1> SUFFICES ASSUME \A i \in breaks : ~IsDecimal(reply, <<0, Len(reply)>>, i)
               PROVE  Sentences(reply, breaks) = Sentences(reply, {})
    BY DEF IsSplitAsAWhole
  <1>0. 0 \in 0..Len(reply) /\ {} \in Breaks(reply)
    BY DEF Breaks
  <1>1. Split(reply, breaks)[<<0, 0>>] = Split(reply, {})[<<0, Len(reply)>>]
    BY <1>0, SplitAsTheWhole
  <1>2. Split(reply, {})[<<0, 0>>] = Split(reply, {})[<<0, Len(reply)>>]
    BY <1>0, SplitAsTheWhole
  <1> QED BY <1>1, <1>2, SentencesAreSplit

LEMMA RepliesAreSequences == Replies \subseteq Seq(Char)
  <1>1. \A n \in Nat : [1..n -> Char] \subseteq Seq(Char)
    OBVIOUS
  <1>2. Replies \subseteq UNION {[1..m -> Char] : m \in 0..MaxChars}
    BY DEF Replies, BoundedSeq, SeqOf
  <1> QED BY <1>1, <1>2, SentencesConstants

\* Every character of a reply that can be heard is spoken, once and in order, whatever
\* the bound on the replies that are looked at.
THEOREM NothingStaysUnspoken == Spec => []NothingIsUnspoken
  <1>1. NothingIsUnspoken
    BY RepliesAreSequences, EveryReplyIsSpoken DEF NothingIsUnspoken
  <1> QED BY <1>1, PTL

\* The sentences do not depend on where the tokens end, as long as none ends at a
\* decimal point, whatever the bound on the replies that are looked at.
THEOREM SentencesDoNotDependOnTokens == Spec => []SameSentencesForAnyTokens
  <1>1. SameSentencesForAnyTokens
    BY RepliesAreSequences, EveryReplyIsSplitAsAWhole DEF SameSentencesForAnyTokens
  <1> QED BY <1>1, PTL
=============================================================================
