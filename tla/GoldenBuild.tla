----------------------------- MODULE GoldenBuild -----------------------------
(***************************************************************************)
(* The golden set on disk: `pnpm golden:build` (packages/eval/src/         *)
(* build-golden.ts) makes it from lines that authors write, clip by clip   *)
(* and language by language, and `pnpm eval` (golden.ts, pipeline.ts)      *)
(* reads it.  A build may be killed anywhere, Bulbul, Saaras and the disk  *)
(* may fail it, and authors go on editing.                                 *)
(*                                                                         *)
(* A text is a number, which also stands for its romanization, and the     *)
(* character error rate of two texts is how far they lie apart: it is not  *)
(* only the same text that passes.  A line has its text, which Bulbul says *)
(* and the record is scored with, and beside it a romanization that its    *)
(* author wrote, which the gate compares with what Saaras hears: nothing   *)
(* makes the two agree.  Of a clip the model has what was said to Bulbul,  *)
(* what Saaras hears, and which synthesis made it, since no two are the    *)
(* same audio.  One build runs at a time, and one evaluation; neither      *)
(* waits for the other.                                                    *)
(***************************************************************************)
EXTENDS Integers, Sequences

CONSTANTS
  Lang,         \* languages of the golden set
  MaxLines,     \* bound: lines of a language
  MaxText,      \* bound: texts are 0..MaxText
  QaThreshold,  \* how far from the script a clip may be heard (QA_CER_THRESHOLD)
  QaTries,      \* how often Saaras is asked about a clip (backoffMs.length)
  MaxBuilds,    \* bound: builds
  MaxEdits,     \* bound: edits of lines that are there
  MaxFaults     \* bound: empty transcripts, failed syntheses and writes, deaths

ASSUME GoldenConstants ==
  /\ Lang # {}
  /\ MaxLines \in Nat /\ MaxText \in Nat
  /\ QaThreshold \in Nat
  /\ QaTries \in Nat \ {0}
  /\ MaxBuilds \in Nat /\ MaxEdits \in Nat /\ MaxFaults \in Nat

VARIABLES
  source,     \* [Lang -> the authored lines, evals/golden/source/<lang>.jsonl]
  clip,       \* [Id -> the file evals/golden/audio/<id>.wav]
  golden,     \* [Lang -> the built set, evals/golden/<lang>.jsonl]
  build,      \* the process that builds: where it is and what it holds
  eval,       \* the evaluation that replays a language
  baseline,   \* [Lang -> what the last evaluation to finish has scored]
  unheard,    \* history: clips written since the set of their language was
  reworded,   \* history: lines whose text has been edited since their clip was
              \* made from it
  repaired,   \* history: languages whose set was last written by a calm build,
              \* from the lines and the clips as they are
  steady,     \* history: languages repaired since the baseline's evaluation began
  builds, edits, faults

vars == <<source, clip, golden, build, eval, baseline, unheard, reworded, repaired, steady,
          builds, edits, faults>>

-----------------------------------------------------------------------------
(* Lines, clips, records and the processes. *)

Id   == Lang \X (1..MaxLines)
Text == 0..MaxText

Babble == -1   \* what Saaras hears where Bulbul said something else
Empty  == -2   \* an empty transcript
Heard  == Text \cup {Babble, Empty}

\* What the author writes: the text, and its romanization.
Script == [text : Text, romanized : Text]
Line   == [id : Id, script : Script]

\* A file that is there may be too short to be a WAV.  fed (history) is the text
\* that Bulbul was given.
Clip   == [file : {"none", "headless", "readable"}, fed : Text, says : Heard, take : Nat]
NoClip == [file |-> "none", fed |-> 0, says |-> Empty, take |-> 0]

Record == [id : Id, script : Script, usable : BOOLEAN]

\* A file that ends in the middle of a record cannot be parsed at all.
Set  == [torn : BOOLEAN, records : Seq(Record)]
Torn == [torn |-> TRUE, records |-> <<>>]
Holds(records) == [torn |-> FALSE, records |-> records]

\* calm (history): has nothing gone wrong with the language so far that the
\* retries did not make good?
Build == [pc : {"idle", "language", "line", "write", "qa"}, force : BOOLEAN,
          langs : SUBSET Lang, lang : Lang, lines : Seq(Line), at : Nat \ {0},
          records : Seq(Record), pcm : Clip, tries : Nat, calm : BOOLEAN]

Idle == [pc |-> "idle", force |-> FALSE, langs |-> {}, lang |-> CHOOSE l \in Lang : TRUE,
         lines |-> <<>>, at |-> 1, records |-> <<>>, pcm |-> NoClip, tries |-> 0,
         calm |-> TRUE]

\* What an evaluation has scored: this line against that clip.
Sample == [id : Id, script : Script, take : Nat]

\* on is the language, as a set of at most one; since (history) is whether it has
\* been repaired ever since the evaluation began.
Eval   == [on : SUBSET Lang, todo : SUBSET Record, got : SUBSET Sample, since : BOOLEAN]
NoEval == [on |-> {}, todo |-> {}, got |-> {}, since |-> FALSE]

TypeOK ==
  /\ source \in [Lang -> Seq(Line)]
  /\ clip \in [Id -> Clip]
  /\ golden \in [Lang -> Set]
  /\ build \in Build
  /\ eval \in Eval
  /\ baseline \in [Lang -> SUBSET Sample]
  /\ unheard \subseteq Id /\ reworded \subseteq Id
  /\ repaired \subseteq Lang /\ steady \subseteq Lang
  /\ builds \in Nat /\ edits \in Nat /\ faults \in Nat

Init ==
  /\ source = [l \in Lang |-> <<>>]
  /\ clip = [i \in Id |-> NoClip]
  /\ golden = [l \in Lang |-> Holds(<<>>)]
  /\ build = Idle
  /\ eval = NoEval
  /\ baseline = [l \in Lang |-> {}]
  /\ unheard = {} /\ reworded = {} /\ repaired = {} /\ steady = {}
  /\ builds = 0 /\ edits = 0 /\ faults = 0

Fault == faults < MaxFaults /\ faults' = faults + 1

\* The lines or the clips of l, or its set, are no longer what a calm build left.
Disturbed(l) ==
  /\ repaired' = repaired \ {l}
  /\ steady' = steady \ {l}
  /\ eval' = [eval EXCEPT !.since = @ /\ l \notin eval.on]

-----------------------------------------------------------------------------
(* The authors. *)

\* "Grow the set when a real failure surfaces."
AddLine(l, script) ==
  /\ Len(source[l]) < MaxLines
  /\ source' = [source EXCEPT ![l] =
                  Append(@, [id |-> <<l, Len(@) + 1>>, script |-> script])]
  /\ Disturbed(l)
  /\ UNCHANGED <<clip, golden, build, baseline, unheard, reworded, builds, edits, faults>>

\* The text, its romanization, or both.
EditLine(l, i, script) ==
  /\ edits < MaxEdits /\ edits' = edits + 1
  /\ source' = [source EXCEPT ![l][i].script = script]
  /\ reworded' = IF script.text = source[l][i].script.text
                 THEN reworded ELSE reworded \cup {source[l][i].id}
  /\ Disturbed(l)
  /\ UNCHANGED <<clip, golden, build, baseline, unheard, builds, faults>>

-----------------------------------------------------------------------------
(* The build. *)

Current == build.lines[build.at]

\* The next line of the language, with what became of this one.
NextLine(made, calm) ==
  build' = [build EXCEPT !.pc = "line", !.at = @ + 1, !.records = @ \o made,
                         !.pcm = NoClip, !.tries = 0, !.calm = calm]

\* --lang and --force.
StartBuild(langs, force) ==
  /\ build.pc = "idle"
  /\ builds < MaxBuilds /\ builds' = builds + 1
  /\ build' = [Idle EXCEPT !.pc = "language", !.force = force, !.langs = langs]
  /\ UNCHANGED <<source, clip, golden, eval, baseline, unheard, reworded, repaired,
                 steady, edits, faults>>

LoadSource(l) ==
  /\ build.pc = "language" /\ l \in build.langs
  /\ build' = [Idle EXCEPT !.pc = "line", !.force = build.force,
                           !.langs = build.langs \ {l}, !.lang = l, !.lines = source[l]]
  /\ UNCHANGED <<source, clip, golden, eval, baseline, unheard, reworded, repaired,
                 steady, builds, edits, faults>>

\* (mutant) every build makes its clips anew
NeverCached(id) == FALSE

\* A clip that is there stays, unless the build is told to make all of them anew.
Cached(id) == clip[id].file # "none" /\ ~build.force

AtLine == build.pc = "line" /\ build.at <= Len(build.lines)

\* (mutant) a clip that is there passes: it was heard when it was made
UseCachedUnheard ==
  /\ AtLine /\ Cached(Current.id)
  /\ NextLine(<<[id |-> Current.id, script |-> Current.script, usable |-> TRUE]>>, build.calm)
  /\ UNCHANGED <<source, clip, golden, eval, baseline, unheard, reworded, repaired,
                 steady, builds, edits, faults>>

UseCached ==
  /\ AtLine /\ Cached(Current.id)
  /\ IF clip[Current.id].file = "readable"
     THEN build' = [build EXCEPT !.pc = "qa", !.pcm = clip[Current.id]]
     ELSE NextLine(<<>>, build.calm)
  /\ UNCHANGED <<source, clip, golden, eval, baseline, unheard, reworded, repaired,
                 steady, builds, edits, faults>>

\* Bulbul says the text, or something else.
SynthesizeClip(said) ==
  /\ AtLine /\ ~Cached(Current.id)
  /\ said \in {Current.script.text, Babble}
  /\ build' = [build EXCEPT !.pc = "write",
                            !.pcm = [file |-> "readable", fed |-> Current.script.text,
                                     says |-> said, take |-> clip[Current.id].take + 1]]
  /\ UNCHANGED <<source, clip, golden, eval, baseline, unheard, reworded, repaired,
                 steady, builds, edits, faults>>

\* A synthesis fails, or a file cannot be read.  One bad line does not cost the
\* build: it is left out of the set.
LineFails ==
  /\ AtLine
  /\ Fault
  /\ NextLine(<<>>, FALSE)
  /\ UNCHANGED <<source, clip, golden, eval, baseline, unheard, reworded, repaired,
                 steady, builds, edits>>

Puts(file) ==
  /\ clip' = [clip EXCEPT ![Current.id] = file]
  /\ unheard' = unheard \cup {Current.id}
  /\ reworded' = IF build.pcm.fed = source[build.lang][build.at].script.text
                 THEN reworded \ {Current.id} ELSE reworded
  /\ IF build.force THEN Disturbed(build.lang) ELSE UNCHANGED <<repaired, steady, eval>>

\* What a write that does not come to its end leaves: too little to be a WAV, or a
\* part of the clip, in which Saaras may still hear the whole text.
Remains == {[build.pcm EXCEPT !.file = "headless"], build.pcm, [build.pcm EXCEPT !.says = Babble]}

WriteClip ==
  /\ build.pc = "write"
  /\ Puts(build.pcm)
  /\ build' = [build EXCEPT !.pc = "qa"]
  /\ UNCHANGED <<source, golden, baseline, builds, edits, faults>>

WriteFails ==
  /\ build.pc = "write"
  /\ Fault
  /\ \E file \in Remains : Puts(file)
  /\ NextLine(<<>>, FALSE)
  /\ UNCHANGED <<source, golden, baseline, builds, edits>>

\* The gate: is what was heard near the author's romanization?
Near(romanized, heard) ==
  /\ heard \in Text
  /\ romanized - heard <= QaThreshold
  /\ heard - romanized <= QaThreshold

Verdict(heard) ==
  <<[id |-> Current.id, script |-> Current.script,
     usable |-> Near(Current.script.romanized, heard)]>>

Hears ==
  /\ build.pc = "qa"
  /\ NextLine(Verdict(build.pcm.says), build.calm)
  /\ UNCHANGED <<source, clip, golden, eval, baseline, unheard, reworded, repaired,
                 steady, builds, edits, faults>>

\* (mutant) no try follows the last wait
GivesUpEarly(tries) == tries + 1 >= QaTries

GivesUp(tries) == tries >= QaTries

\* An empty transcript: ask again, later; after the last try the line is quarantined.
HearsNothing ==
  /\ build.pc = "qa"
  /\ Fault
  /\ LET tries == build.tries + 1 IN
       IF GivesUp(tries)
       THEN NextLine(Verdict(Empty), build.calm /\ tries < QaTries)
       ELSE build' = [build EXCEPT !.tries = tries]
  /\ UNCHANGED <<source, clip, golden, eval, baseline, unheard, reworded, repaired,
                 steady, builds, edits>>

OfLang(l) == {i \in Id : i[1] = l}

SaveSet ==
  /\ build.pc = "line" /\ build.at > Len(build.lines)
  /\ golden' = [golden EXCEPT ![build.lang] = Holds(build.records)]
  /\ unheard' = unheard \ OfLang(build.lang)
  /\ IF build.calm /\ build.lines = source[build.lang]
     THEN repaired' = repaired \cup {build.lang} /\ UNCHANGED <<steady, eval>>
     ELSE Disturbed(build.lang)
  /\ build' = IF build.langs = {} THEN Idle ELSE [build EXCEPT !.pc = "language"]
  /\ UNCHANGED <<source, clip, baseline, reworded, builds, edits, faults>>

\* The process is killed, or an error ends it that nothing catches.
Dies ==
  /\ build.pc # "idle"
  /\ Fault
  /\ build' = Idle
  /\ UNCHANGED <<source, baseline, builds, edits>>

DiesBetween ==
  /\ Dies
  /\ UNCHANGED <<clip, golden, eval, unheard, reworded, repaired, steady>>

DiesWritingClip ==
  /\ build.pc = "write"
  /\ Dies
  /\ \E file \in Remains : Puts(file)
  /\ UNCHANGED golden

\* The file was emptied, and some of the records were written.
DiesWritingSet ==
  /\ build.pc = "line" /\ build.at > Len(build.lines)
  /\ Dies
  /\ \E file \in {Torn} \cup {Holds(SubSeq(build.records, 1, n)) : n \in 0..Len(build.records)} :
       golden' = [golden EXCEPT ![build.lang] = file]
  /\ unheard' = unheard \ OfLang(build.lang)
  /\ Disturbed(build.lang)
  /\ UNCHANGED <<clip, reworded>>

-----------------------------------------------------------------------------
(* The evaluation. *)

\* loadGolden; a language whose set is torn ends the run, and one that has nothing
\* usable is skipped.
LoadGolden(l) ==
  /\ eval.on = {}
  /\ ~golden[l].torn
  /\ LET todo == {r \in {golden[l].records[n] : n \in 1..Len(golden[l].records)} : r.usable} IN
       /\ todo # {}
       /\ eval' = [on |-> {l}, todo |-> todo, got |-> {}, since |-> l \in repaired]
  /\ UNCHANGED <<source, clip, golden, build, baseline, unheard, reworded, repaired,
                 steady, builds, edits, faults>>

\* The order of the records is left open: no score depends on it.
ReplayClip(r) ==
  /\ eval' = IF clip[r.id].file = "readable"
             THEN [eval EXCEPT !.todo = @ \ {r},
                               !.got = @ \cup {[id |-> r.id, script |-> r.script,
                                                take |-> clip[r.id].take]}]
             ELSE NoEval
  /\ UNCHANGED <<source, clip, golden, build, baseline, unheard, reworded, repaired,
                 steady, builds, edits, faults>>

FinishEval(l) ==
  /\ eval.on = {l} /\ eval.todo = {}
  /\ baseline' = [baseline EXCEPT ![l] = eval.got]
  /\ steady' = IF eval.since THEN steady \cup {l} ELSE steady \ {l}
  /\ eval' = NoEval
  /\ UNCHANGED <<source, clip, golden, build, unheard, reworded, repaired, builds, edits,
                 faults>>

-----------------------------------------------------------------------------
Next ==
  \/ \E l \in Lang, script \in Script :
       AddLine(l, script) \/ \E i \in 1..Len(source[l]) : EditLine(l, i, script)
  \/ \E langs \in {Lang} \cup {{l} : l \in Lang}, force \in BOOLEAN : StartBuild(langs, force)
  \/ \E l \in Lang : LoadSource(l)
  \/ UseCached
  \/ \E said \in Heard : SynthesizeClip(said)
  \/ LineFails \/ WriteClip \/ WriteFails
  \/ Hears \/ HearsNothing
  \/ SaveSet
  \/ DiesBetween \/ DiesWritingClip \/ DiesWritingSet
  \/ \E l \in Lang : LoadGolden(l) \/ FinishEval(l)
  \/ \E r \in eval.todo : ReplayClip(r)

Spec == Init /\ [][Next]_vars

-----------------------------------------------------------------------------
(* Properties. *)

\* Is what Saaras hears in the file that is there near this romanization?
Says(id, romanized) == clip[id].file = "readable" /\ Near(romanized, clip[id].says)

\* A usable record vouches for its clip: what Saaras hears in the file that is
\* there now is near the record's romanization, whatever was edited, killed,
\* throttled or built in part since, and the text that is scored against it is the
\* one that Bulbul was given, unless that text was edited after the clip was made:
\* no build looks at the text of a cached clip.  A file that has been written over
\* after the set was is excepted (buildRecord's gate; golden.ts on `usable`).
UsableIsHeard ==
  \A l \in Lang : \A n \in 1..Len(golden[l].records) :
    LET r == golden[l].records[n] IN
      r.usable /\ r.id \notin unheard =>
        /\ Says(r.id, r.script.romanized)
        /\ r.id \notin reworded => clip[r.id].fed = r.script.text

\* A build that meets no more empty transcripts for a clip than it has tries makes
\* good what earlier builds left out or in quarantine: the usable records are the
\* lines whose clip says their romanization, and no others (qaWithRetry, main).
CalmBuildRepairs ==
  \A l \in repaired : \A id \in OfLang(l), script \in Script :
    (\E n \in 1..Len(golden[l].records) :
        golden[l].records[n] = [id |-> id, script |-> script, usable |-> TRUE])
    <=> /\ \E n \in 1..Len(source[l]) : source[l][n] = [id |-> id, script |-> script]
        /\ Says(id, script.romanized)

\* Two evaluations of a language score the same texts against the same audio,
\* however many builds ran between them, as long as nobody edited the language,
\* forced a build of it, or saw one fail ("Cached audio is the stable answer key").
SteadySetScoresAlike ==
  \A l \in steady : eval.on = {l} /\ eval.todo = {} => eval.got = baseline[l]
=============================================================================
