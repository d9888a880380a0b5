-------------------------------- MODULE Replay --------------------------------
(***************************************************************************)
(* One language of an evaluation: its golden records are replayed through  *)
(* the hops one by one (packages/eval/src/pipeline.ts), classified and     *)
(* judged (intent.ts, judge.ts), and what came of them is made into the    *)
(* samples and the scores of the run (run.ts).  EvalRun takes it from      *)
(* there.                                                                  *)
(*                                                                         *)
(* A hop does not throw: it returns what it made, or an error and nothing. *)
(* The hops are in sequence, and each works on what the one before it has  *)
(* really produced.  What the clip's time to first byte is, when there is  *)
(* one, is a constant of the record.                                       *)
(*                                                                         *)
(* Left out: the transcription in `translit` mode, which nothing but its   *)
(* own score reads, and the character error rate, which is scored as the   *)
(* word error rate is.                                                     *)
(***************************************************************************)
EXTENDS Metrics

CONSTANTS
  Intent,      \* what a caller may want
  Tag,         \* the buckets that are scored apart
  Golden,      \* the file of the language: a sequence of records
  Answers,     \* what the model may reply
  Opinions,    \* what Number may make of a judge's score, in halves: of null, or of
               \* an empty string, 0
  NotANumber   \* Number makes nothing of it, or the judge has given none

GoldenRecord == [id : Nat, expected_transcript : Text, reference_translation : Text,
                 expected_intent : Intent, tags : SUBSET Tag, usable : BOOLEAN, pace : Nat]

Nobody == "unclassified"

ASSUME ReplayConstants ==
  /\ Golden \in Seq(GoldenRecord)
  /\ \A i, j \in DOMAIN Golden : Golden[i].id = Golden[j].id => i = j
  /\ Answers \subseteq Text
  /\ Opinions \subseteq Int /\ NotANumber \notin Opinions
  /\ IsFiniteSet(Intent) /\ Nobody \notin Intent
  /\ "all" \notin Tag

VARIABLES
  pc,         \* the hop, or what runEval is at
  judging,    \* the run was not asked to skip the judge
  records,    \* what loadGolden returned
  cur,        \* the ReplayResult in the making
  results,    \* the ReplayResults
  verdicts,   \* [id -> JudgeVerdict]
  confusion,  \* the ConfusionMatrix
  samples,    \* rows for eval_samples
  scores      \* rows for eval_scores

vars == <<pc, judging, records, cur, results, verdicts, confusion, samples, scores>>

-----------------------------------------------------------------------------
\* latency_ms, which every hop that ran has, is left out with its scores.
HopResult == [value : Text, ttfb : Nat \cup {Null}, failed : BOOLEAN]

NoResult == [value |-> << >>, ttfb |-> Null, failed |-> FALSE]

\* Opinions of a judge, both of them or neither.
Unparseable == [adequacy |-> Null, fluency |-> Null]
JudgeVerdict == {Unparseable} \cup [adequacy : 1..5, fluency : 1..5]

Metric == {"wer", "empty_transcript_rate", "chrf", "judge_adequacy", "judge_fluency",
           "judge_unparseable_rate", "chrf_judge_spearman", "chrf_judge_pearson",
           "intent_accuracy", "round_trip_wer", "ttfb_p50", "ttfb_p95", "ttfb_p99", "error_rate"}

Row == [hop : {"stt", "llm", "tts"}, metric : Metric, slice : Tag \cup {"all"},
        value : Int \X Int, n : Nat]

Sample == [id : Nat, metric : {"wer", "chrf", "judge", "round_trip_wer"},
           expected : Text, actual : Text, value : Int \X Int, failed : BOOLEAN]

NoValue == <<Null, 1>>

\* roundTrip is a set of one, or empty when there was no reply to speak.
ReplayResult == [record : GoldenRecord, stt : HopResult, translation : HopResult,
                 reply : HopResult, roundTrip : SUBSET HopResult]

EmptyConfusion == [matrix |-> [e \in Intent |-> [p \in Intent \cup {Nobody} |-> 0]],
                   correct |-> 0, total |-> 0]

TypeOK ==
  /\ pc \in {"load", "stt", "translation", "reply", "roundTrip", "intent", "judge",
             "samples", "scored", "skipped", "died"}
  /\ judging \in BOOLEAN
  /\ records \in Seq(GoldenRecord)
  /\ \A hop \in {"stt", "translation", "reply"} : cur[hop] \in HopResult
  /\ cur.roundTrip \subseteq HopResult
  /\ \A k \in DOMAIN results : results[k] \in ReplayResult
  /\ DOMAIN verdicts \subseteq {records[k].id : k \in DOMAIN records}
  /\ \A id \in DOMAIN verdicts : verdicts[id] \in JudgeVerdict
  /\ confusion.matrix \in [Intent -> [Intent \cup {Nobody} -> Nat]]
  /\ samples \subseteq Sample
  /\ scores \subseteq Row

NothingYet == [stt |-> NoResult, translation |-> NoResult, reply |-> NoResult, roundTrip |-> {}]

Init ==
  /\ pc = "load"
  /\ judging \in BOOLEAN
  /\ records = << >>
  /\ cur = NothingYet
  /\ results = << >>
  /\ verdicts = << >>
  /\ confusion = EmptyConfusion
  /\ samples = {}
  /\ scores = {}

-----------------------------------------------------------------------------
(* pipeline.ts *)

record == records[Len(results) + 1]

\* timed: of the values that a hop may come to.  The first byte is marked before there
\* is a value, and may have been when the hop fails.
Timed(values) ==
  {r \in [value : values \cup {<< >>}, ttfb : {Null, record.pace}, failed : BOOLEAN] :
     /\ r.failed => r.value = << >>
     /\ r.value # << >> => r.ttfb # Null
     /\ << >> \notin values /\ r.value = << >> => r.failed}

\* runStt: the last transcript.  A model may hear what was said, hear nothing, or babble.
Transcripts(said) == Timed({said, said \o said, << >>})

runEvalVars == <<judging, records, results, verdicts, confusion, samples, scores>>

\* Records whose synthesis has failed its check are not scored.
Usable == {k \in DOMAIN Golden : Golden[k].usable}

\* Where the n-th of those that are stands in the file.
Place(n) == CHOOSE k \in Usable : Cardinality({j \in Usable : j <= k}) = n

\* loadGolden
LoadGolden ==
  /\ pc = "load"
  /\ records' = [n \in 1..Cardinality(Usable) |-> Golden[Place(n)]]
  /\ pc' = IF records' = << >> THEN "skipped" ELSE "stt"
  /\ UNCHANGED <<judging, cur, results, verdicts, confusion, samples, scores>>

Transcribe ==
  /\ pc = "stt"
  /\ \E r \in Transcripts(record.expected_transcript) : cur' = [cur EXCEPT !.stt = r]
  /\ pc' = "translation"
  /\ UNCHANGED runEvalVars

Translate ==
  /\ pc = "translation"
  /\ \E r \in Transcripts(record.reference_translation) :
       /\ r.value = << >> => r.ttfb = Null    \* which nothing reads
       /\ cur' = [cur EXCEPT !.translation = r]
  /\ pc' = "reply"
  /\ UNCHANGED runEvalVars

\* (mutant) the model is asked about an empty transcript too
RepliesToNothing(heard) == Timed(Answers \cup {<< >>})

\* With no transcript there is nothing to respond to, and that is a failure.
Replies(heard) == IF heard = << >> THEN {[NoResult EXCEPT !.failed = TRUE]}
                  ELSE Timed(Answers \cup {<< >>})

Respond ==
  /\ pc = "reply"
  /\ \E r \in Replies(cur.stt.value) : cur' = [cur EXCEPT !.reply = r]
  /\ pc' = "roundTrip"
  /\ UNCHANGED runEvalVars

\* runRoundTrip: speak the reply and listen to it.  The mark is Bulbul's first audio:
\* without any there is nothing to listen to.
RoundTrip ==
  /\ pc = "roundTrip"
  /\ \/ /\ cur.reply.value = << >>
        /\ UNCHANGED cur
     \/ /\ cur.reply.value # << >>
        /\ \E r \in Timed({cur.reply.value, << >>}) :
             /\ r.ttfb = Null => r.failed
             /\ cur' = [cur EXCEPT !.roundTrip = {r}]
  /\ pc' = "intent"
  /\ UNCHANGED runEvalVars

-----------------------------------------------------------------------------
(* intent.ts and judge.ts *)

\* extractIntent: the first intent that the model names, if it names one.
Predictions(heard) == IF heard = << >> THEN {Nobody} ELSE Intent \cup {Nobody}

\* (mutant) a prediction that is missing is not counted
AddPredicted(c, expected, p) ==
  IF p = Nobody THEN [c EXCEPT !.matrix[expected][p] = @ + 1]
  ELSE [c EXCEPT !.matrix[expected][p] = @ + 1, !.total = @ + 1,
                 !.correct = @ + (IF p = expected THEN 1 ELSE 0)]

\* addToConfusion
AddToConfusion(c, expected, p) ==
  [c EXCEPT !.matrix[expected][p] = @ + 1, !.total = @ + 1,
            !.correct = @ + (IF p = expected THEN 1 ELSE 0)]

ClassifyIntent ==
  /\ pc = "intent"
  /\ \E p \in Predictions(cur.stt.value) :
       confusion' = AddToConfusion(confusion, record.expected_intent, p)
  /\ pc' = IF judging THEN "judge" ELSE "samples"
  /\ UNCHANGED <<judging, records, cur, results, verdicts, samples, scores>>

\* (mutant) what the judge says is taken as it is
TakenAsItIs(halves) == halves

\* Math.round
Rounded(halves) == (halves + 1) \div 2

\* clampScore, of what is a number
Clamp(halves) == Max({1, Min({5, Rounded(halves)})})

\* parseVerdict
Parsed(adequacy, fluency) ==
  IF NotANumber \in {adequacy, fluency} THEN Unparseable
  ELSE [adequacy |-> Clamp(adequacy), fluency |-> Clamp(fluency)]

\* An empty candidate needs no model to grade.
Verdicts(candidate) ==
  IF candidate = << >> THEN {[adequacy |-> 1, fluency |-> 1]}
  ELSE {Parsed(a, f) : a, f \in Opinions \cup {NotANumber}}

\* Map.set
Put(map, key, v) == [k \in DOMAIN map \cup {key} |-> IF k = key THEN v ELSE map[k]]

JudgeTranslation ==
  /\ pc = "judge"
  /\ \E v \in Verdicts(cur.translation.value) : verdicts' = Put(verdicts, record.id, v)
  /\ pc' = "samples"
  /\ UNCHANGED <<judging, records, cur, results, confusion, samples, scores>>

\* The clip is not there, or the classifier or the judge throws: the run is over.
Throws ==
  /\ pc \in {"load", "stt", "intent", "judge"}
  /\ pc' = "died"
  /\ UNCHANGED <<cur, runEvalVars>>

-----------------------------------------------------------------------------
(* scoreLanguage and sampleRows (run.ts) *)

InSlice(r, slice) == slice = "all" \/ slice \in r.tags

Slices == {"all"} \cup UNION {records[k].tags : k \in DOMAIN records}

Score(hop, metric, slice, value, n) ==
  [hop |-> hop, metric |-> metric, slice |-> slice, value |-> value, n |-> n]

\* The share of rs that has P.
ShareOf(P(_), rs) == <<Size(RestrictValues(rs, P)), Size(rs)>>

SttScores(rs) ==
  UNION { LET subset == RestrictValues(rs, LAMBDA r : InSlice(r.record, slice))
              wers   == Each(LAMBDA r : ErrorRate(r.record.expected_transcript, r.stt.value), subset)
              n      == Size(subset)
          IN { Score("stt", "wer", slice, AggregateErrorRate(wers), n),
               Score("stt", "empty_transcript_rate", slice,
                     ShareOf(LAMBDA r : r.stt.value = << >>, subset), n) } : slice \in Slices }

ChrfOf(r) == Chrf(r.record.reference_translation, r.translation.value)

\* Did the judge answer for this result?
IsJudged(r) == r.record.id \in DOMAIN verdicts /\ verdicts[r.record.id] # Unparseable

\* Verdicts that were not parsed are left out of the means, and counted, so long as
\* there is one that was.  The two correlations have a row and no value here.
TranslationScores(rs) ==
  LET judged    == RestrictValues(rs, IsJudged)
      n         == Size(judged)
      verdict(r) == verdicts[r.record.id]
      chrfs     == Each(ChrfOf, judged)
      opinions  == Each(LAMBDA r : <<verdict(r).adequacy + verdict(r).fluency, 2>>, judged)
      size      == Cardinality(DOMAIN verdicts)
  IN {Score("llm", "chrf", "all", Mean(Each(ChrfOf, rs)), Size(rs))}
     \cup (IF n = 0 THEN {} ELSE
            { Score("llm", "judge_adequacy", "all",
                    Mean(Each(LAMBDA r : <<verdict(r).adequacy, 1>>, judged)), n),
              Score("llm", "judge_fluency", "all",
                    Mean(Each(LAMBDA r : <<verdict(r).fluency, 1>>, judged)), n),
              Score("llm", "judge_unparseable_rate", "all", <<size - n, size>>, size) })
     \cup (IF ~Correlates(chrfs, opinions) THEN {}
           ELSE {Score("llm", metric, "all", NoValue, n) :
                   metric \in {"chrf_judge_spearman", "chrf_judge_pearson"}})

IntentScores ==
  {Score("llm", "intent_accuracy", "all", <<confusion.correct, confusion.total>>, confusion.total)}

\* (mutant) a trip that failed is scored with the others
WasSpoken(r) == r.roundTrip # {}

\* Was the reply spoken, and heard back?
CameRound(r) == \E trip \in r.roundTrip : ~trip.failed

RoundTripEdits(r) == ErrorRate(r.reply.value, (CHOOSE trip \in r.roundTrip : TRUE).value)

RoundTripScores(rs) ==
  LET trips == RestrictValues(rs, CameRound)
  IN IF Size(trips) = 0 THEN {}
     ELSE {Score("tts", "round_trip_wer", "all",
                 AggregateErrorRate(Each(RoundTripEdits, trips)), Size(trips))}

\* The result of a hop; the tts hop is the trip there and back, or a measurement of
\* nothing.
HopOf(hop, r) == CASE hop = "stt" -> r.stt
                   [] hop = "llm" -> r.reply
                   [] hop = "tts" -> IF r.roundTrip = {} THEN NoResult
                                     ELSE CHOOSE trip \in r.roundTrip : TRUE

LatencyScores(hop, rs) ==
  LET ttfb == Percentiles(Each(LAMBDA r : HopOf(hop, r).ttfb, rs))
      In100ths(p) == <<p, 100>>
  IN IF ttfb.n = 0 THEN {}
     ELSE { Score(hop, "ttfb_p50", "all", In100ths(ttfb.p50), ttfb.n),
            Score(hop, "ttfb_p95", "all", In100ths(ttfb.p95), ttfb.n),
            Score(hop, "ttfb_p99", "all", In100ths(ttfb.p99), ttfb.n) }

FailureScore(hop, rs) ==
  Score(hop, "error_rate", "all", ShareOf(LAMBDA r : HopOf(hop, r).failed, rs), Size(rs))

ScoreLanguage(rs) ==
  SttScores(rs) \cup TranslationScores(rs) \cup IntentScores \cup RoundTripScores(rs)
    \cup UNION {LatencyScores(hop, rs) \cup {FailureScore(hop, rs)} : hop \in {"stt", "llm", "tts"}}

\* The reason a number is arguable: its sample, if there is one.
JudgeSample(r) ==
  IF r.record.id \notin DOMAIN verdicts THEN {}
  ELSE {[id |-> r.record.id, metric |-> "judge",
         expected |-> r.record.reference_translation, actual |-> r.translation.value,
         value |-> IF IsJudged(r) THEN <<verdicts[r.record.id].adequacy
                                           + verdicts[r.record.id].fluency, 2>> ELSE NoValue,
         failed |-> ~IsJudged(r)]}

SampleRows(r) ==
  { [id |-> r.record.id, metric |-> "wer",
     expected |-> r.record.expected_transcript, actual |-> r.stt.value,
     value |-> Rate(r.record.expected_transcript, r.stt.value), failed |-> r.stt.failed],
    [id |-> r.record.id, metric |-> "chrf",
     expected |-> r.record.reference_translation, actual |-> r.translation.value,
     value |-> ChrfOf(r), failed |-> r.translation.failed] }
  \cup JudgeSample(r)
  \cup {[id |-> r.record.id, metric |-> "round_trip_wer",
         expected |-> r.reply.value, actual |-> trip.value,
         value |-> Rate(r.reply.value, trip.value), failed |-> trip.failed] : trip \in r.roundTrip}

\* The record is done; after the last one, the language is scored.
Record ==
  /\ pc = "samples"
  /\ LET r == [record |-> record, stt |-> cur.stt, translation |-> cur.translation,
               reply |-> cur.reply, roundTrip |-> cur.roundTrip]
     IN /\ results' = Append(results, r)
        /\ samples' = samples \cup SampleRows(r)
  /\ cur' = NothingYet
  /\ IF Len(results') < Len(records)
     THEN pc' = "stt" /\ UNCHANGED scores
     ELSE pc' = "scored" /\ scores' = ScoreLanguage(results')
  /\ UNCHANGED <<judging, records, verdicts, confusion>>

-----------------------------------------------------------------------------
Next == LoadGolden \/ Transcribe \/ Translate \/ Respond \/ RoundTrip
          \/ ClassifyIntent \/ JudgeTranslation \/ Throws \/ Record

Spec == Init /\ [][Next]_vars

-----------------------------------------------------------------------------
(* Properties. *)

EditsAreMinimal == \A ref, hyp \in Texts : MinimalEdits(ref, hyp)

PercentilesAreWellPlaced == \A values \in BoundedSeq({Null} \cup 0..MaxTime, MaxTime + 2) : WellPlaced(values)

ChrfIsAShare == \A ref, hyp \in Texts : IsAShare(ref, hyp)

\* The scorers do what they are for, over all bounded inputs (metrics/*.ts): the edits
\* of an error rate are as few as explain the hypothesis, a percentile is of the rank it
\* says, and chrF gives the reference itself full marks and nothing more than that.
\* They are looked at once, before a run has begun.
ScorersAgreeWithTheirDefinitions ==
  pc = "load" => EditsAreMinimal /\ PercentilesAreWellPlaced /\ ChrfIsAShare

ScoredAs(metric) == {s \in scores : s.metric = metric /\ s.slice = "all"}
SamplesOf(metric) == {s \in samples : s.metric = metric}

\* The dashboard's samples account for the scores beside them (schema.sql: "Per-record
\* detail behind the aggregates").  The n of wer and of chrf counts all the samples,
\* failed ones too; the error rate of the round trip is that of its samples which did
\* not fail, and its n and the judge's count those; and the judge's failures are the
\* samples without a value.
SamplesExplainScores ==
  LET Sound(metric) == {s \in SamplesOf(metric) : ~s.failed}
      Rebuilt(metric) == AggregateErrorRate([s \in Sound(metric) |-> ErrorRate(s.expected, s.actual)])
  IN pc = "scored" =>
       /\ \A s \in ScoredAs("wer") \cup ScoredAs("chrf") : s.n = Cardinality(SamplesOf(s.metric))
       /\ \A s \in ScoredAs("round_trip_wer") :
            s.n = Cardinality(Sound("round_trip_wer")) /\ SameAs(s.value, Rebuilt("round_trip_wer"))
       /\ ScoredAs("round_trip_wer") = {} => Sound("round_trip_wer") = {}
       /\ \A s \in ScoredAs("judge_adequacy") \cup ScoredAs("chrf_judge_spearman") :
            s.n = Cardinality(Sound("judge"))
       /\ \A s \in ScoredAs("judge_unparseable_rate") :
            SameAs(s.value, <<Cardinality(SamplesOf("judge") \ Sound("judge")), Len(records)>>)

\* Every record is in the confusion matrix once, under the intent it has, and right
\* only on the diagonal, whatever became of its hops.
EveryRecordIsClassified ==
  pc = "scored" =>
    /\ confusion.total = Len(records)
    /\ \A e \in Intent :
         SumFunction(confusion.matrix[e])
           = Cardinality({k \in DOMAIN records : records[k].expected_intent = e})
    /\ confusion.correct = SumFunction([e \in Intent |-> confusion.matrix[e][e]])

\* An outage of the ears shows in every score behind them, though no hop throws: the
\* records whose transcript is empty are failures of the model, no intent is right
\* for them, and none of them is spoken.
DeafnessShowsDownstream ==
  \A deaf \in ScoredAs("empty_transcript_rate") :
    LET hears == <<deaf.value[2] - deaf.value[1], deaf.value[2]>>
    IN /\ \A s \in ScoredAs("error_rate") : s.hop = "llm" => AtMost(deaf.value, s.value)
       /\ \A s \in ScoredAs("intent_accuracy") : AtMost(s.value, hears)
       /\ \A s \in ScoredAs("round_trip_wer") : AtMost(<<s.n, Len(records)>>, hears)
=============================================================================
