# svara: TLA+ models and proofs

svara is a voice agent for Indian languages: a browser talks to a voice gateway
over a WebSocket, the gateway starts a Temporal workflow for every turn of the
conversation, and a worker runs the turn's three hops (Saaras speech to text, an
LLM, Bulbul text to speech) concurrently, streaming from one to the next. Every
hop emits a trace event to Kafka, a sink writes them to Postgres, and an offline
evaluation replays a golden set against the same hops.

The modules here model that system from its source: the turn with its retries,
clocks, cancellation and crashes, the caller's audio on a connection that comes and
goes, the call with its barge-in, its late frames and its browser, the page that sets a
flow and draws what ran, the trace log with its readers, the golden set and its builds,
and the evaluations that score the hops, share a database and gate a build. TLC checks
them on small instances, TLAPS proves the safety properties that the runs check for
every value of their constants.

## Inventory

| Part | State it keeps | Operations | Talks to |
|------|----------------|------------|----------|
| Browser call, `apps/web/lib/call.ts` | scheduled audio, play head, socket | start, configure, onMessage, enqueue, silence, stop | gateway: mic frames and control up; audio, `stop_audio`, captions, flow down |
| Gateway session, `apps/gateway/src/session.ts` | turn in flight, turn counter, history, flow, preroll | onStart, onConfigure, onAudio, onWorkerFrame, close, awaitTurn, bargeIn | browser, worker (internal socket), Temporal (start, result, cancel) |
| Detector, `apps/gateway/src/vad.ts` | speaking, loud frames, silence | push | session |
| Gateway channel of the worker, `gateway-channel.ts` | an audio queue per turn, ended turns, socket | onFrame (audio, audio_end, cancel), audioStream, discard, send, reconnect | gateway; `cancelTurn` |
| Turn bus, `bus.ts` | a map from trace id to bus: transcripts, sentences, language, abort signal | turnBus, cancelTurn, disposeTurnBus; push, close, fail, subscribe | the three hops, in one process |
| Hops, `activities.ts` on `stt.ts`, `chat.ts`, `tts.ts` | an attempt's socket, text, audio, signal | transcribe, respond, synthesize, endTurn | bus, gateway channel, Sarvam, trace producer |
| Workflow, `workflows.ts` | what Temporal holds of each activity | start together, retry, time out, cancel, endTurn | worker, gateway (result) |
| Trace producer and sink, `trace.ts`, `apps/sink`, `db/traces.ts` | Kafka connection, offsets, rows | emit, handle, upsert | Kafka, Postgres |
| Evaluation, `packages/eval`, `db/evals.ts` | runs, scores, samples, baselines | run, diff, gate, report | Sarvam, Postgres |
| Flow builder, `apps/web/app/flow/page.tsx` | flow and hash drawn, status, current call, turn, rows of its hops | seed, onChange, connect, hangUp, onFlow, onTurnEnd, loadTraces | gateway (`/flow`, calls), `/api/turn` |
| Golden set, `golden.ts`, `build-golden.ts` | authored lines, clips, built records | build (cache, synthesize, QA, save), loadGolden | Sarvam, disk, evaluation |
| Pure code: `stream.ts`, `wer.ts`, `chrf.ts`, `agreement.ts`, `regression.ts`, `flow.ts`, `wav.ts` | none | sentences, edit distance, percentiles, sanitizeFlow | callers |

What is hard about it: three concurrent activities that wait for one another on a
bus only their process has; attempts that Temporal has given up on but that go on
running; a cancellation that reaches the hops on two paths, and the workflow on a
third; a turn whose outcome and whose frames reach the gateway on different paths,
in any order, after a newer turn has begun; audio that plays long after the turn
that made it is over; a page whose status, flow and numbers are written by every call it
ever made; a sink, an evaluation and a build that can stop between two writes.
PROJECT.json lists these hazards line by line with the properties that cover them.

What makes each part correct:

* bus: one reply at a time on it, everything pushed is read, no bus left behind;
* gateway channel: a turn's audio is heard in order and without holes, and its end,
  however it comes, reaches the hop that reads it;
* hops: one trace event each, a reply generated from the whole transcript, spoken
  once and to its end, and nobody talked over by a hop that is retried late;
* workflow: every turn closes;
* session and browser: nothing of an interrupted turn is heard past its stop, every
  open microphone gets its end, every turn is reported;
* flow builder: a hash stands beside the flow it is the hash of, the canvas shows the
  flow that runs, a call that is up can be hung up, the numbers are of the turn named;
* splitter: every character of a reply is spoken, in sentences that do not depend on how
  the model's tokens fall;
* golden set: a usable record's romanization is what its clip says, a later build makes good what an
  earlier one left, and what nobody touched scores alike;
* detector: an utterance begins and ends on the thresholds and nowhere else;
* sink: nothing lost before the log in calm, nothing committed unread, rows that a
  backfill brings to the newest event of each hop;
* evaluation: a run that is offered as a baseline has its scores, a stored report says
  what the scores say, and a build is red only where something got worse.

## Modules

| Module | What it is |
|--------|------------|
| `TurnBus` | operators of a bus channel: push, close, fail, what a subscriber reads |
| `Turn` (EXTENDS `TurnBus`) | one turn in one worker: hops, bus, workflow, clocks, crash, gateway frames |
| `TurnProofs` | theorems about `Turn` and `Sentences` |
| `Sentences` | the splitter between the model's tokens and Bulbul |
| `MCTurn` (EXTENDS `Turn`, `Sentences`) | both, with what the splitter has to do |
| `Vad` | operators of the detector |
| `Call` (EXTENDS `Vad`) | one call: browser, session, detector, both sockets, workflows and worker as the gateway sees them |
| `Floor` | the abstract promise of `Call`: who has the floor, and whose speech is sent |
| `CallProofs` | theorems about `Call`, and that it implements `Floor` |
| `Flow` | a flow as data: its knobs, `sanitizeFlow`, the fingerprint |
| `FlowPage` (EXTENDS `Flow`) | the flow builder, the life of its calls, a session's flow, the rows it draws |
| `FlowProofs` | theorems about `Flow` and `FlowPage` |
| `AudioChannel` | the caller's audio: gateway, internal socket, the worker's queues, pumps |
| `AudioProofs` | theorems about `AudioChannel` |
| `TraceSink` | trace events from a hop to a row: producer, log, live sink, backfill, table |
| `TraceSinkProofs` | theorems about `TraceSink` |
| `GoldenBuild` | the golden set on disk: authors, builds, evaluations that read it |
| `GoldenProofs` | theorems about `GoldenBuild` |
| `EvalRun` | evaluations, reports and gates: processes on one shared database |
| `EvalProofs` | theorems about `EvalRun` |
| `Metrics` | the scorers as operators, and what they have to do |
| `Replay` (EXTENDS `Metrics`) | one language of an evaluation, record by record and hop by hop, to its samples and scores |
| `MCReplay` (EXTENDS `Replay`) | a golden set of three records for TLC |
| `ReplayProofs` | theorems about `Metrics` and `Replay` |

### Turn

A turn's bus is created on demand by trace id, so a bus is a number and `busMap` is
the one the map holds; every attempt keeps the one it was handed. `stt`, `llm[n]`
and `tts[n]` are attempts, with a `pc` that names where the coroutine is suspended;
an action runs an attempt from one await to the next, which is what the Node event
loop does. `act[h]` and `attempt[h]` are what Temporal holds of activity `h`; an
attempt that Temporal timed out keeps its `pc` and goes on. `Hazards` says what may
fail in an instance: Sarvam calls, barge-in, frames lost on the internal socket,
each clock, a crash of the worker. `late` is a history: was an attempt picked up when
`endTurn` had disposed of the turn?

| Code | Actions |
|------|---------|
| `transcribe`, `stt.ts` | StartTranscribe, TranscribeOpens, TranscribePartial, TranscribeFlush, TranscribeFinal, TranscribeError, SttPumpDone, TranscribeDrained, TranscribeStored |
| `respond`, `chat.ts` | StartRespond, RespondReads, RespondInputEnds, RespondInputFails, RespondThrows, RespondToNothing, RespondAsks, RespondRefused, RespondSentence, RespondCompletes, RespondFails |
| `synthesize`, `tts.ts` | StartSynthesize, SynthesizeConnects, SynthesizeOpens, SynthesizeSends, SynthesizeFlush, SynthesizeInputFails, SynthesizeChunk, SynthesizeQuiet, SynthesizeSocketCloses, SynthesizeError, SynthesizeDrained, SynthesizeStored |
| `gateway-channel.ts` | AudioEnd, BargeIn (with Discard) |
| `session.ts` cancel | CancelWorkflow |
| Temporal | TemporalCancels, TimeOut, Settle, EndTurn, CloseWorkflow |
| process death | Crash |

`Sentences` says how the tokens of a reply become the sentences that `Turn` counts. The
tokens are the reply and the places where it is broken (`Breaks`), so that a buffer, and
a sentence, is a span of the reply. The `Sentences` operator is the loop of
`sentences()`, as a recursive function of the buffer, `CutPoints` what `cutPoint` looks
for, `Trimmed` what `trim()` leaves; a character is one of six kinds, which is all that
the splitter tells apart.

Left out: the audio and the text themselves (they are counted), RAG, transliteration,
storage other than that it may fail, the trace events' fields.

### Call

A turn is its number in the call. `cur` is the session's `#turn`, `saga[n]` the
turn's workflow, `fromWorker` the frames on their way up the internal socket, `down`
the messages on their way to the browser, `playing` what the browser has scheduled.
`run` is a history variable: the loud or quiet frames in a row, which the detector
must agree with. What the worker may still send is deliberately loose (`WorkerSends`
sends for any turn that was ever started, whatever became of its workflow), because
an attempt that was cancelled or timed out goes on in `Turn`. A connection may be lost with
nobody hanging up: the gateway then closes first (`call = "dropped"`), can send no
stop_audio, and the browser plays on until it sees its own end close.

| Code | Actions |
|------|---------|
| `onStart` | Start |
| `onAudio` by the detector's event | Audio, SpeechStart, SpeechEnd |
| `bargeIn` | CutOff, inside SpeechStart and Close |
| `close`, `VoiceCall.stop`, `onclose` | Close, HangUp, BrowserCloses |
| `onWorkerFrame` | OnWorkerFrame |
| `awaitTurn` | AwaitTurn |
| `VoiceCall.#onMessage`, `#enqueue`, `#silence` | BrowserReceives, Played |
| worker, Temporal | WorkerSends, SagaEnds |

Left out: the preroll of microphone frames, captions and reply text, latencies. The
flow of a call is `FlowPage`'s subject.

### Flow and FlowPage

`Flow` has a flow as a function from knobs to settings. A knob is chosen from a roster or
is a number within limits; a request is a function on the knobs that it mentions, to
anything at all. `Sanitize` is `sanitizeFlow`, `ServerDefaultFlow` what the environment
makes of the defaults (a typo included), `Fingerprint` what is hashed.

`FlowPage` has the page, and every call it ever made: React state is `status`, `flow`,
`hash`, `turn`, `traces` and `traceStatus`, and any `VoiceCall` that is still alive may
write it, because each was handed the same setters. `phase[c]` is how far a call has
come, `stopping[c]` who awaits its `stop()`, `up` and `down` are its socket, `session[c]`
what the gateway holds. A turn carries the flow and hash it was begun with. `polls[t]` is
the tries left of a `loadTraces`; several may be running. `stale`, `tangled` and
`overlap` are histories the properties speak of.

| Code | Actions |
|------|---------|
| the page's first effect, `GET /flow` | SeedLands, SeedFails |
| `onChange` of the canvas's controls, `VoiceCall.configure` | MoveKnob (Preview) |
| `connect`, `VoiceCall.start`, `onopen` | Run, MicGranted, MicRefused, Opens |
| `hangUp`, `VoiceCall.stop`, `onclose` | HangUp, HangUpNothing, Stopped, SocketCloses |
| `onStart`, `onConfigure`, `#applyFlow` | GatewayReceives (ApplyFlow) |
| `#beginTurn`, `#awaitTurn` | TurnBegins, TurnEnds |
| `onFlow`, `onTurnEnd` | FlowAnswered, TurnReported |
| `loadTraces`, `/api/turn` | Poll |

Left out: captions, the states of the nodes (they follow the messages), an `addModule`
that fails (it ends as MicRefused does, with the microphone left open), and which of a
turn's rows a poll finds.

### AudioChannel

`Turn` gives the frames of one turn a step each; here they cross frame by frame, for
several turns on one socket. A queue is an object in the code: the channel's map holds
one of a turn's queues or none, and a pump goes on reading the one it was handed. So
`queues` is every queue the process has made, `audio[t]` the one in the map and
`stream[t]` the one of the pump. `link` is whether the gateway has an open socket,
`wire` what it carries; both are lost together. An audio frame is its number in the
utterance. `late` is a history: pumps that began after `audio_end`.

| Code | Actions |
|------|---------|
| `beginTurn`, `forwardAudio`, the end of an utterance, `bargeIn`, the end of `awaitTurn` | OpenMic, Forward, CloseMic, Cut, Leave (Send is `toWorker`) |
| `GatewayChannel.onFrame` | OnFrame: OnAudio, OnAudioEnd, OnCancel |
| `queue`, `discard`, `AsyncQueue.push`, `close` | Get, Discard, Push, Close, in the actions |
| `connect`, and the gateway's internal server | SocketCloses, SocketOpens |
| `transcribe` up to its stream; the pump of `stt.ts` | StartTranscribe, PumpOpens, PumpReads, PumpFlushes |
| `endTurn` | EndTurn |
| process death | Restart |

Left out: the reconnection's delays, and the frames the worker sends up (`Turn`,
`Call`). `EndTurn` and `Leave` may come at any time, because what a workflow does is
`Turn`'s subject.

### TraceSink

A trace event is its number, the natural key of its row and whether JSON and the
table's constraints accept it. `link` is `producer` and `connecting` of `trace.ts`;
`waiting` and `sending` are publishes in flight before and after the connection.
`log` is one partition (a session's events have one key, so they share one),
`group` the offset Kafka remembers of the group `svara-sink`, `reader[c]` a sink
process. An upsert rewrites the columns its statement names and leaves the others,
so a row is two log positions. `written`, `dropped`, `missed` and `base` are
histories the properties speak of.

| Code | Actions |
|------|---------|
| `emitTrace`, `emitTurn`, `publish`, `getProducer` | Emit, ProducerConnects, ProducerRejected, SendArrives, SendFails |
| `closeTraceProducer`, a crash of the worker or gateway | ProducerExits |
| `main` of the sink | SinkStarts (live, backfill) |
| `eachMessage`, `handle`, `insertTrace`, `insertTurn` | SinkWrites, SinkDrops |
| kafkajs' commit of offsets | SinkCommits |
| `shutdown`, a crash of the sink | SinkStops |

Left out: more than one partition, a message without a value, and the sink's log
line. A backfill never commits to the live group, and each has a group of its own,
so one backfill reader that starts again at offset 0 stands for all of them.

### GoldenBuild

A line has two authored fields, its `Script`: the text, which Bulbul is given and the
record is scored with, and the romanization, which the gate compares with what Saaras
hears. Nothing in the code makes the two agree, and an author may edit either alone. Each
is a number and the character error rate of two is how far they lie apart, so that near
texts pass the gate as well as equal ones. A clip is the text that Bulbul was given
(`fed`), what Saaras would hear in it, and which synthesis made it (`take`). The build is one process: `pc` is
where it is, `at` its line, `records` what it has made of the language so far. It may be
killed anywhere, also inside the two writes: a clip cut short may be no WAV (`headless`),
or one that `decodeWav` reads as far as it goes; a set cut short may not parse (`Torn`).
Authors add and edit lines at any time, and an evaluation reads at any time. `fed`,
`unheard`, `reworded`, `repaired`, `steady`, `calm` and `since` are histories the properties
speak of: `reworded` has the lines whose text was edited since their clip was made of it.

| Code | Actions |
|------|---------|
| the authors | AddLine, EditLine |
| `main` | StartBuild, NextLine in the actions, LineFails, SaveSet, Dies (three) |
| `loadSource` | LoadSource |
| `buildRecord`, `synthesizeClip` | UseCached, SynthesizeClip, WriteClip, WriteFails |
| `qaWithRetry`, `qaTranscribe`, the gate | Hears, HearsNothing (GivesUp, Verdict, Near) |
| `loadGolden`, `loadClip`, the end of a language in `runEval` | LoadGolden, ReplayClip, FinishEval |

Assumed: one build at a time, and authors who do not delete or reorder lines or remove
clips by hand. Left out: noise and its seed, speakers, pacing and tags.

### EvalRun

A run is the process that began it, which ends in one of four ways: green, regressed
(the gate), fatal (`die`, or an error that reaches the end of cli.ts) or killed.
`row`, `scores` and `report` are the tables, `job` what an evaluation holds in memory,
`task` the `buildReport` that a gate or a report command is in; every statement is an
action, and any process may interleave between two of them. Scores are one gated
metric per language, more being better; the configuration hash and the version of the
golden set are one `setting`, because both have to agree. `started` is read from the
clock of whoever runs, so starts need not be in the order of the runs.

| Code | Actions |
|------|---------|
| `runEval`, `startRun`, `insertScores`, `insertSamples`, `finishRun` | StartRun, ReplayLanguage, SkipLanguage, InsertScores, FinishRun |
| `doRun` | Refuses, Diffs |
| `doReport` | StartReport |
| `buildReport`, `resolveBase`, `diffRuns`, `summarize`, `saveReport` | ResolveBase, ReadDiff, SaveReport |
| `gate` | Verdict |
| an error nobody catches, a signal | Dies |

`settled` (had both runs finished when the diff was read?) is a history. A flag is
chosen where the code reads it, so the checks hold for every mixture of flags. Left out:
metrics that are not gated, printing and markdown.

### Replay and Metrics

What `EvalRun` takes as one step, the replay of a language, `Replay` takes hop by hop.
`cur` is the result in the making, and a hop's result is what `timed` makes of it: a
text, the time to the first byte if there was one, and whether it failed. A hop never
throws; the classifier, the judge and a clip that is missing do, and end the run. A
transcription hears what was said, hears nothing, or babbles (the text twice over). What a
judge says of a translation is what `Number` makes of it, in halves, rounded and brought to
the scale of 1 to 5: a blank score (null, or an empty string) is 0 there, so that it counts
as 1 and not as an answer that was not given. The run has the score 5.5, which is rounded and
clamped; the theorems are about any. When the last record is done, its samples and the scores of the language are what
`scoreLanguage` and `sampleRows` make of the results.

| Code | Definitions |
|------|---------|
| `loadGolden` | LoadGolden |
| `replay`, `timed`, `runStt`, `runRoundTrip` | Transcribe, Translate, Respond, RoundTrip |
| `classifyIntent`, `addToConfusion` | ClassifyIntent |
| `judgeTranslation`, `parseVerdict` | JudgeTranslation |
| an error that `runEval` does not catch | Throws |
| `sampleRows`, `scoreLanguage` | Record |
| `errorRate`, `aggregateErrorRate`, `percentiles`, `chrf` | ErrorRate, AggregateErrorRate, Percentiles, Chrf |

Texts are sequences of words that are normalised already, and fractions are kept as a
numerator and a denominator, so that no comparison rounds. Of a correlation the model
has whether there is one. Left out: the transcription in `translit` mode and the
character error rate, which nothing but a score of their own reads, and wall times.

## What is checked

Every configuration says `CHECK_DEADLOCK FALSE`, because a turn closes and a caller
hangs up: the system is meant to stop. That a state has its type is proved for every
module; `replay_scores` checks it too.

| Run | Question | Instance |
|-----|----------|----------|
| `turn_faults` | do retries mix replies, repeat speech, or talk over a caller who has moved on? was the model asked about all that was said? is every character of a reply spoken, in the same sentences for any tokens? | 2 attempts each, 2 transcripts, every Sarvam fault, lost audio_end, barge-in; replies of up to 5 characters of 6 kinds, broken everywhere |
| `turn_clocks` | does every turn close? | every clock, barge-in, crash |
| `turn_bargein` | without clocks, does any hop wait for ever? is the whole reply spoken? does the cancel frame alone stop a synthesize that has its socket? | retries of respond, lost frames, endTurn timing out, 2 sentences |
| `call_turns` | is an interrupted turn silent, and for good, though the connection may be lost? is every microphone closed and every turn reported? does the gateway implement `Floor`? | 2 turns, a chunk each, thresholds of 2 and 1 frames |
| `flow_page` | does a hash stand beside its own flow? does the canvas settle on the flow that runs? can a call that is up be hung up? are the numbers of the turn named? | 2 calls, 2 knobs of 2 settings, one of them not hashed, 2 changes, 2 turns, 2 tries a poll |
| `golden_build` | does a usable record vouch for its clip? does a calm build repair? does an untouched set score alike? | 1 language, 2 lines, 2 texts and 2 romanizations, a threshold of 0, 2 tries, 2 builds, 1 edit, 3 faults |
| `audio_channel` | is the audio heard once, in order, without holes, to its end? does every end reach the pump? | 1 turn, 3 frames, 2 losses of the connection or the worker |
| `eval_gate` | is a baseline whole, a stored report true to the scores, and a red build about something worse? | 2 evaluations, 1 report command, 1 language, 2 configurations, scores and starts of 0 and 1 |
| `replay_scores` | do the samples account for the scores, whichever hops fail? is every record classified? do the scorers agree with their definitions? | 2 usable records of 3, with and without the judge; texts of up to 3 words of 2 |
| `sink_replay` | is an event lost before the log, skipped in it, or left out of the table by a backfill that finishes? | 2 keys, 2 events, 3 faults |

Why the bounds are enough. Two attempts are the least that can interfere, and
synthesize has no more; every attempt of respond after the second repeats the second.
A turn has at most two buses (the map loses one only in `endTurn`), and the proofs
show it for all instances. Two transcript messages tell a partial from a final one,
and two sentences a first from a last. In `Call` an interruption involves
a turn and the one that replaces it; one chunk in the browser, one on its way and one
still at the worker are told apart by the queue they are in, and a speech threshold
of two frames tells a run of frames from a single one. In `AudioChannel` three frames
are one heard, one queued and one on the wire, and two losses are a reconnection within
an utterance that is cut again; turns meet only on the wire, and that they do not
disturb each other is what the proofs add (`OwnQueues`). In `FlowPage` a second call is
what an old one can disturb, a second change is what resets the first, and two turns are
two polls at once; one knob is chosen and one is a number, one is the deployment's own
and one is left out of the hash, so every way a knob is resolved is there. In
`GoldenBuild` a second build is one that finds what the first left, two lines are one that
fails beside one that does not, two texts with a threshold of 0 are one that
passes and one that does not (what near texts do is left to the theorems, which hold for
every threshold), and three faults let a build give a clip up (two tries) and die. A sentence of
at least 2 characters and a clause of at least 3 leave room, in 5, for a cut, a decimal
and a rest; the code's 12 and 160 only move the borders. In `TraceSink` two events of
one key are an attempt and its retry, and three faults are a repeated send, a crash
and a dropped event in one behaviour. In `EvalRun` a verdict is about two runs, and a
third process is what can write a report between another's read and write; scores of
0 and 1 with a threshold of 0 are better, equal and worse. In `Replay` two records are one
that fails beside one that does not, and overlapping slices; a third, in quarantine, must
not be heard of; correlations need two pairs there and three in the code. Texts of three
words over two, 225 pairs of them, have every edit, tie and border of the cost matrix, and
four measurements every rank between which a percentile falls. What TLC shows for these the theorems
below show for all.

### Where the code and the repository's statements differ

Two runs are expected to find a violation; each checks one statement quoted from
the repository, and PROJECT.json "findings" has the quotation.

| Run | What happens |
|-----|--------------|
| `call_talk_over` | the workflow is over but its audio still plays: talking over it stops nothing |
| `eval_ci` | `--against` a sha, as CI calls it, is looked up as a run id and ends the process before the gate: red, and no report |

More that the models have and no run states, because no document rules it out or the
theorems already name it as a hypothesis:

* respond's first failed attempt fails the sentences channel for good (activities.ts:307),
  so a retry that succeeds writes its reply where synthesize no longer reads, and the turn
  fails, though ARCHITECTURE.md:64-65 has "a transient Sarvam 5xx retries without dropping
  the call" (`SpeaksWholeReply` is about turns whose hops all succeed);
* a token that ends right behind a decimal point cuts the number in two, though
  stream.ts:112-113 wants "12.5%" and "3.2 lakh" to be one sentence
  (`SameSentencesForAnyTokens` excepts it by name);
* a caller interrupted before the language is known leaves synthesize waiting for it,
  outside its try block and with no trace event (`HopsEndWithTheAudio` excepts a turn
  that was cut off);
* `audio_end` that comes before transcribe has asked for its queue drops the audio
  buffered so far, and audio behind `audio_end` or `endTurn` makes a queue, or leaves an
  entry of `ended`, that stays for the life of the process; a reconnection leaves a hole
  in the utterance and nobody is told;
* a synthesize whose start-to-close clock runs out after audio was heard is retried by
  Temporal itself, and the caller hears the reply twice (`HeardOnce` assumes the clock
  away, and needs to);
* a turn that was cut off is published with the index of its successor, because the
  session's counter is read when the workflow's result arrives;
* a row of a retried hop keeps the first attempt's `text_in`, `ts` and context ids beside
  the last one's `text_out` and error (`kept` and `last` in `TraceSink`);
* a backfill that is stopped part of the way can leave a row of a retried hop with its
  first event, and nothing repairs it (`RepairedByBackfill` is about one that ends);
* an evaluation in which every hop of every record fails exits with success, because a
  record counts as scored whatever became of it (run.ts:106), while cli.ts:28-29 promises
  that "every record failed to replay" is told by the exit code (`DeafnessShowsDownstream`
  is what remains: the outage is in the scores);
* a judge that answers with `null` for a score is taken to have given the lowest one:
  `Number(null)` is 0, and `clampScore` makes 1 of it (judge.ts:177), though judge.ts has
  "A judge that failed to answer is NOT a translation that scored 1";
* when the judge answers for no record at all, its three scores are absent, the share of
  its failures among them (`TranslationScores`); a score that is absent fails no build, so
  the gate that regression.ts:80-84 wants for "a scorer outage" catches half an outage and
  not a whole one;
* a round trip that failed is left out of `round_trip_wer` and counted in `error_rate`,
  and the translation's failures are in no rate, only in their samples;
* while a call is up a knob is sent alone and resolved against the server's default, as
  DATA_CONTRACTS.md:61 has it, so the second knob that is moved resets the first; with no
  call up it is resolved against what is drawn, so the two differ though page.tsx:101 has
  "The preview cannot drift from the decision";
* a seed that lands late overwrites the canvas of a live call (`stale`), a knob moved while
  a call is being set up is lost to it, and a canvas that was never seeded sends the
  browser's own defaults whole, over the deployment's, though page.tsx:205 has "Empty
  patch: take the gateway's default";
* a call that was hung up ends twice, the second time when its socket closes: the late
  "ended" takes the button from a newer call that is up (`tangled`), and leaving the page
  stops no call at all;
* the polls of two turns may overlap, the older's rows land under the newer turn or in the
  next call (`overlap`), and the last turn's numbers stay while the next one's are waited
  for, and when they are missing, though page.tsx:153 has "a blank is the truth"; a poll
  stops at the first rows it finds, though other hops' may follow (page.tsx:124);
* the canvas's controls stay open while a call is up, though flow-canvas.tsx:68 says of
  `onChange` "Null while the call is up";
* a clip that is there is used whatever its line has become (build-golden.ts:206), and its
  gate compares what is heard with the romanization (:222): a line whose text alone is
  edited keeps its clip and stays usable, and the new text is scored against it (:237),
  though golden.ts has "The script we fed the synthesizer is what was said"
  (`UsableIsHeard` excepts such a line by `reworded`); so does a line whose romanization
  is edited to a near one; the speaker of a cached clip's record is that of its line's present place
  (build-golden.ts:199), and not the one who spoke it;
* a clip cut short by a kill is decoded as far as it goes and may pass; one cut in its
  header keeps its line out of every build that is not forced, and so does, by quarantine,
  one in which Bulbul said something else: only `--force` makes a clip anew, and it makes
  all of them;
* a build that leaves lines out still writes the set and exits 0, though
  build-golden.ts:288 has "a golden set that silently shrank is worse than one that failed",
  and the version of the set (golden.ts:118) is a constant that no build moves;
* a report, and a gate given a run by its id, may be about a run that has not finished
  (`ReportIsRebuildable` excepts it by `settled`), and one run may be red because of
  another that is being written;
* after a failed first connection to Kafka every event of the process is lost
  (`ProducerRejected`), and a live sink that never committed starts at the log's end;
* a turn that a failed synthesize has ended lets respond ask the model about a partial
  transcript;
* a hop that fails after `endTurn`, or is retried after it, makes the turn a second bus
  that is never disposed of. `rethrow` looks at that bus, which no barge-in has aborted,
  so the hop of an interrupted turn is retried after all, though activities.ts:56 has "A
  cancelled hop must not be retried"; what that comment fears, that it "would just talk
  over them again", does not come of it, because the retry finds an empty bus and waits
  there, a respond for its transcript and a synthesize for its language, until its clock
  ends it (`LateHopsStaySilent`; `HopsEndWithTheAudio` excepts it by name);
* a call whose connection is lost is heard until the browser sees its own socket close:
  the gateway has cut the turn off and has nobody to send the stop_audio to
  (`CutOffTurnIsSilent` excepts it by name, `BargeInSilences` shows that it ends).

### Fairness

`Turn`: weak fairness of every step of a running attempt that does not wait for
Sarvam to fail, of Temporal's dispatch, cancellation and clocks where the instance
has them, and of the workflow's own steps: the event loop runs what is ready, and
Temporal delivers. Nothing is assumed of faults, barge-in or crashes. The caller is
assumed to stop speaking (`AudioEnd`), as the detector's hangover makes it.

`Call`: weak fairness of delivery on both sockets (`OnWorkerFrame`,
`BrowserReceives`) and of the browser seeing a lost one close (`BrowserCloses`, which a
WebSocket that is gone reports with `onclose`), of the end of each workflow (`TurnEnds` of `Turn`) and of the
gateway learning of it. Nothing is assumed of the caller, of the worker's frames or
of how long a buffer plays, so `BargeInSilences` cannot be satisfied by waiting.

`AudioChannel`: every workflow comes to its `endTurn` (`TurnEnds` of `Turn`; `endTurn`
runs in a non-cancellable finally), a socket to Saaras opens or fails, and a pump whose
queue has something for it runs. Nothing is assumed of the caller, of delivery, or of a
connection being dialled again, so `PumpsEnd` holds although `audio_end` may be lost.

`FlowPage`, `GoldenBuild`, `EvalRun` and `Replay` state no fairness: their properties are
of safety.

`TraceSink`: the live sink is started again when it has stopped, and a consumer that
runs keeps reading (kafkajs polls). Nothing is assumed of commits, of the producer or
of a backfill.

## What is proved

All proofs are checked by TLAPS; the constants' only assumptions are the ASSUMEs of
the modules (`TurnConstants`, `VadConstants`, `CallConstants`, `AudioConstants`, `FlowConstants`,
`PageConstants`, `SinkConstants`, `GoldenConstants`, `EvalConstants`, `ReplayConstants`,
`MetricsConstants`, `SentencesConstants`).

* `TurnProofs!TypeCorrect`: `Spec => []TypeOK`. The invariant is `TypeInv`: TypeOK
  with when the map of buses can be empty (`BusInv`: no third bus is ever made) and
  that an attempt that has started holds a bus (`RefInv`).
* `TurnProofs!HeardOnce`: without a timeout of synthesize, the caller never
  hears two attempts. `SpeechInv` says that only the last attempt of synthesize can
  be running, and that an earlier one ended without having been heard, because
  `RefusesRetry` refuses otherwise. With that timeout the property is false.
* `TurnProofs!BusHoldsOneReply`: without a timeout of respond, no bus holds
  sentences of two attempts. `ReplyInv` says that only the live attempt writes, that
  a channel still open has been written to by it alone, and that it has counted what
  it wrote: a failed attempt has failed the channel.
* `TurnProofs!NobodyIsTalkedOver`: without clocks, a hop of a turn that barge-in has reached
  is granted a retry only behind `endTurn`, and what is picked up behind `endTurn` stays
  silent. `SilenceInv` says that before transcribe is picked up nothing was heard and nothing can
  have failed (`NothingYet`), that until `endTurn` only the turn's bus can be aborted
  (`AbortedIsTheTurns`), and that behind it the bus a hop would find, made or yet to be made, has no transcript, no language and no
  end on it (`LaterIsUnheard`, `NextIsUnheard`), so that a late attempt never gets past its
  first wait (`LateWaits`).
* `TurnProofs!PromptIsTheUtterance`: in a turn whose hops succeeded the model was asked
  about all that transcribe returned, with every hazard on. `PromptInv` says that a final
  transcript has the text transcribe ended with (`FinalIsTheText`), that a channel is
  closed behind a final one, by the end of a turn that is over, or in one that will not
  succeed (`ClosedBehindFinal`), and that respond has passed no final one while it waits.
  A retry reads the same channel from its start, which is why no clock has to be excluded.
* `TurnProofs!WholeReplyIsSpoken`: without a timeout of respond, and as long as Bulbul
  does not end its stream early, all that the model wrote was handed to Bulbul.
  `SpokenInv` adds that a closed channel of sentences holds the whole reply of the attempt
  that succeeded (`ClosedIsWhole`) and that synthesize has read it to that end
  (`HandedOver`). Both assumptions are needed: TLC finds the property false with either
  hazard alone, because two attempts then write to one bus, or synthesize succeeds without
  having read to the end.
* `TurnProofs!EveryReplyIsSpoken`, `EveryReplyIsSplitAsAWhole`, and of them
  `NothingStaysUnspoken` and `SentencesDoNotDependOnTokens`: about any reply, in any tokens.
  The first shows that what the splitter makes of a buffer covers the reply from where the
  buffer begins (`Covers`), the second that it makes of a buffer that ends where a token does
  what it makes of the reply from there on (`SplitAsTheWhole`): a buffer has the cuts that
  the whole reply has in it, except for a period that is the last of the buffer and has
  digits on both sides (`SameCuts`).
* `CallProofs!CallTypeCorrect`, `MicClosesInTime`, `BargeInIsSilent`: `CallInv` is
  TypeOK, that a browser that has gone has nothing on its way (`GoneIsQuiet`; the
  gateway then adds no stop_audio), that a turn cut off is never the turn in flight
  (`CutOffHasNoFloor`; so none of its frames gets through), and the two properties.
  The queue lemmas (`SilentAppend`, `StopAppended`, `SilentReceived`) carry a stop
  behind its turn's last chunk through every append and every delivery.
* `CallProofs!DownlinkInOrder`: what the gateway sends for a turn is audio, then its
  audio_end, then its cancel. `Downlink` says that nothing was sent for a turn yet to
  begin, and that the turn in flight is never past what its `closed` says.
* `CallProofs!NoTurnFromNoise`: a turn begins only on `SpeechFrames` loud frames in a row,
  and its audio ends only after `HangoverFrames` quiet ones. `RunsCount` bounds what the
  detector has counted by what was really heard.
* `CallProofs!GatewayKeepsTheFloor`: `Call` implements `Floor`, `floor` being `cur`:
  every step of the gateway takes, yields or speaks from the floor, or stutters.
* `FlowProofs!SanitizeIsTotal`, `SanitizeIsIdempotent`: whatever is asked for, a flow the
  hops can honour comes back, and such a flow resolves to itself against any base.
* `FlowProofs!TypeCorrect`, `HashAlwaysFollows`: the second is inductive once the answers on
  their way, the sessions and the turns are in it (`Paired`).
* `FlowProofs!CanvasDrawsWhatRuns`, `ButtonFollowsTheCall`: `PageInv` is TypeOK, that while no
  call was begun before the last was gone the status says how far the one call has come
  (`OneCallAtATime`), and that the last answer on its way to the call that is up tells
  what its session runs, or, with none on its way, that the canvas draws it
  (`LastAnswerIsTheFlow`). `OneCallAtATime` is why an answer of an older call cannot be the
  last one drawn.
* `FlowProofs!NumbersAreOfTheirTurn`: `PollInv` adds that a poll that ran into no other is for
  the turn the page names (`OnePollAtATime`).
* `GoldenProofs!TypeCorrect`, `UsableClipsAreHeard`: `HeardInv` says that the lines a build
  holds and the records on disk are of their language and in their order (`SourceInv`,
  `SetInv`, `LinesInv`), that what has been recorded so far vouches for the clips on disk
  (`RecordsInv`), and that the clip in QA is the one on disk (`HeldInv`). A clip is
  written only at the line at hand, so no record behind it loses its clip.
* `GoldenProofs!CalmBuildsRepair`: `RepairInv` adds that a calm build has recorded each line
  behind it, usable where its clip says it and only there (`CalmInv`, `OfLinesInv`), that
  a build at work on a repaired language has its lines as they are (`SameLinesInv`), and
  that a repaired language has all its clips (`FilesInv`), so that a build which is not
  forced never writes one of them (`FreshInv`).
* `GoldenProofs!SteadySetsScoreAlike`: `ScoreInv` adds that an evaluation which began after a
  repair has scored the usable records it no longer has to do, and that a steady
  language's baseline is the score of all of them (`EvalInv`, `SteadyInv`): another calm
  build leaves the same usable records and the same takes (`UsableStays`).
* `AudioProofs!AudioTypeCorrect`, `PumpsAreReached`, `HeardOnceInOrder`: the second is
  inductive with the first. For the third `OrderInv` says that whatever holds frames of
  a turn holds them in order, and that the pump's are before its queue's, and those
  before the wire's (`HeardInv`, `QueueInv`, `WireInv`), for the queue in the map as well
  as for the one being read, which may be another; and that no two turns share a queue
  (`OwnQueues`), without which one turn's frame could land in another's order.
* `AudioProofs!NothingIsMissed`, `FlushComesLast`: while nothing was lost, a pump hears the
  utterance from its first frame on, without holes, and asks for the final transcript
  behind its last. `WholeInv` says that the wire is dense (`WireIsDense`), that an end is
  behind the audio of its turn (`EndsAreLast`), that a queue goes on from what its pump has
  heard, and that what follows the queue is on the wire or was never said (`DenseInv`,
  `Fed`): for the pump that runs, and for the one that is still to start.
* `TraceSinkProofs!SinkTypeCorrect`, `CommittedIsHandled`, `RepairedByBackfill`:
  `SinkInv` is TypeOK, that the committed offset is at or behind the live sink
  (`PositionsInv`), that the live sink has handled what it has passed (`LiveHandled`),
  that a row shows an event of its own key (`RowsOfTheirKey`), and, once a backfill has
  begun, that every row has a reader that has passed no later event of its key than the
  row shows, except events missed since (`SomeoneIsUpToDate`: the reader that wrote the
  row last, whichever that is). At the end of the log that reader makes the row newest.
* `TraceSinkProofs!CalmLogIsExact`: until something fails, every event that was emitted is
  on its way or in the log, and in the log once. `CalmInv` says that only a connection that
  is being made has events waiting and only one that is up has them on the way (`LinkInv`),
  and that an event on its way is nowhere else (`InOnePlace`).
* `EvalProofs!EvalTypeCorrect`, `BaselinesAreComplete`, `ReportsAreRebuildable`,
  `RedBuildsAreWorse`: `EvalInv` says what a process's place in its program means for
  its row and scores (`RunInv`), that a diff with a failure in it, or between finished
  runs, is between two runs whose scores are fixed and is still what the tables say
  (`ReportInv`, `TaskInv`, through `SummaryIsSound` and `DiffStays`), that a gate works
  on its own run (`GateInv`), and that a red build has a better run of its own
  configuration (`RedInv`). It is needed because a diff outlives its reading: what was
  read of a run that still replays may be nothing, and only a run past its replay keeps
  what was read of it. No run fails against itself since the threshold is not negative.

* `ReplayProofs!ErrorRateIsMinimal`, `PercentilesStandAtTheirRank`,
  `ChrfIsAShareOfTheReference`, and of them `ScorersAgree`: for any texts and measurements,
  the walk back through the cost matrix counts as many edits as the cheapest alignment of
  the two texts has (`WalkOf`, `CostIsLeast`), a percentile lies between the two
  measurements its rank falls between and grows with it (`QuantileStands`,
  `QuantileGrows`), and chrF is a share (`OverlapLies`, `MeanOfShares`, `HarmonicMean`).
* `ReplayProofs!TypeSafety`, `EveryRecordCounts`, `DeafnessShows`, `SamplesAccountForScores`,
  for any golden set, replies and verdicts. `RunInv` says where the run of a language is
  (`InStep`: the records done are the results, in their order) and that no two records
  share an id. On it rest `ClassInv` (the confusion matrix has each classified record once,
  in the row of its intent), `DeafInv` (behind an empty transcript every hop has failed or was
  left out), `VerdictInv`, `TripInv` and `SampleInv` (the samples are those of the results,
  and a verdict that was given stays), `ScoreInv` (the rows sum the results up) and
  `RowTypes`. `SumRenamed` and `AggregateRenamed` carry a sum over the records into one over
  their samples: that is where ids that differ are needed.

A recursive function is reasoned about through the least place at which a statement about
it would not hold (`Least`, `LeastPlace`, from the well-foundedness of the numbers), and
`Recursion` shows from the same that the function exists: a step that looks only at places
below its own has a solution. The library's induction theorems take an operator, which the
provers cannot instantiate, and this needs none. Sums over sets are reasoned about in the
same way (`SumRecursion`, `SumTakes`).

Model-checked only: the liveness properties `TurnEnds`, `BargeInStopsSpeech`,
`HopsEndWithTheAudio`, `EveryTurnReported`, `BargeInSilences`, `PumpsEnd` and
`EveryEventIsRead`. They need fairness and ENABLED, which the prover does not handle.

## Plan

1. Turn and bus (done), with type correctness and five safety theorems.
2. Call, detector, Floor (done), with type correctness, two safety theorems, two of action
   properties and the refinement.
3. `AudioChannel` (done), with type correctness and four safety theorems. Left: that it
   implements one abstract queue a turn, delivered in order or not at all.
4. `TraceSink` (done), with type correctness and three safety theorems.
5. `EvalRun` (done), with type correctness and three safety theorems; `Replay` and
   `Metrics` (done), with type correctness, three theorems on the scorers and four safety
   theorems. Left: that a replay implements `ReplayLanguage`.
6. `Flow`, `FlowPage` (done), with type correctness, two lemmas on `sanitizeFlow` and four
   safety theorems; `Sentences` (done), with two theorems on the splitter.
7. `GoldenBuild` (done), with type correctness and three safety theorems.
8. More proofs: the two refinements above; which step of which process a liveness property
   waits for, as the safety half of it (`TurnEnds`: a turn that has not closed has a step
   to take).

## What is not modelled

The dashboard's other pages render what a query returns, and the schema, the REST calls
of `sarvam` and the infrastructure have no behaviour of their own beyond I/O and layout.
Prompts, text normalisation, synthetic noise, resampling and the Web Audio graph are data.
Two workers would split a turn's bus between two processes; the repository documents one
worker as a limit and the models keep it. `Turn` and `Call` are not one composition: each
takes the other as an environment that may do more than the other can (`WorkerSends`,
`AudioEnd`, `BargeIn`), because the product of their states is out of TLC's reach.
