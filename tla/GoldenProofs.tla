---------------------------- MODULE GoldenProofs ----------------------------
(* Theorems about GoldenBuild, for every set of languages, every gate and     *)
(* every number of lines, builds, edits and faults.                           *)
EXTENDS GoldenBuild, SequenceTheorems, TLAPS

-----------------------------------------------------------------------------
(* Type correctness. *)

LEMMA BuildIdle == Idle \in Build
<1>1. (CHOOSE l \in Lang : TRUE) \in Lang
  BY GoldenConstants
<1>2. NoClip \in Clip
  BY GoldenConstants DEF NoClip, Clip, Heard, Text
<1> QED
  BY <1>1, <1>2 DEF Idle, Build

\* Where a build is at a line, it has that line.
LEMMA CurrentLine ==
  ASSUME TypeOK, build.at <= Len(build.lines)
  PROVE  Current \in Line /\ Current.id \in Id /\ Current.script \in Script
<1>1. build.at \in 1..Len(build.lines) /\ build.lines \in Seq(Line)
  BY DEF TypeOK, Build
<1>2. Current \in Line
  BY <1>1, ElementOfSeq DEF Current
<1> QED
  BY <1>2 DEF Line

LEMMA NextLineType ==
  ASSUME TypeOK, NEW made \in Seq(Record), NEW calm \in BOOLEAN, NextLine(made, calm)
  PROVE  build' \in Build
<1>1. build.records \o made \in Seq(Record)
  BY ConcatProperties DEF TypeOK, Build
<1>2. NoClip \in Clip
  BY GoldenConstants DEF NoClip, Clip, Heard, Text
<1>3. build \in Build /\ build.at + 1 \in Nat \ {0}
  BY DEF TypeOK, Build
<1>4. build' = [build EXCEPT !.pc = "line", !.at = build.at + 1,
                             !.records = build.records \o made, !.pcm = NoClip,
                             !.tries = 0, !.calm = calm]
  BY DEF NextLine
<1> QED
  BY <1>1, <1>2, <1>3, <1>4 DEF Build

LEMMA NothingMade == <<>> \in Seq(Record)
OBVIOUS

LEMMA VerdictType ==
  ASSUME TypeOK, build.at <= Len(build.lines), NEW heard \in Heard
  PROVE  Verdict(heard) \in Seq(Record)
<1>1. Near(Current.script.romanized, heard) \in BOOLEAN
  BY DEF Near
<1>2. [id |-> Current.id, script |-> Current.script, usable |-> Near(Current.script.romanized, heard)] \in Record
  BY CurrentLine, <1>1 DEF Record
<1> QED
  BY <1>2 DEF Verdict

LEMMA DisturbedType ==
  ASSUME TypeOK, NEW l \in Lang, Disturbed(l)
  PROVE  eval' \in Eval /\ repaired' \subseteq Lang /\ steady' \subseteq Lang
BY DEF Disturbed, TypeOK, Eval

\* Whatever a write leaves is a clip.
LEMMA RemainsType ==
  ASSUME TypeOK
  PROVE  Remains \subseteq Clip /\ build.pcm \in Clip
BY DEF Remains, Clip, Heard, TypeOK, Build

LEMMA PutsType ==
  ASSUME TypeOK, build.at <= Len(build.lines), NEW file \in Clip, Puts(file)
  PROVE  /\ clip' \in [Id -> Clip] /\ unheard' \subseteq Id /\ reworded' \subseteq Id
         /\ eval' \in Eval /\ repaired' \subseteq Lang /\ steady' \subseteq Lang
<1>1. clip' \in [Id -> Clip] /\ unheard' \subseteq Id /\ reworded' \subseteq Id
  BY CurrentLine DEF Puts, TypeOK
<1>2. build.lang \in Lang
  BY DEF TypeOK, Build
<1>3. eval' \in Eval /\ repaired' \subseteq Lang /\ steady' \subseteq Lang
  BY <1>2, DisturbedType DEF Puts, TypeOK
<1> QED
  BY <1>1, <1>3

\* What the program counter says of the line the build is at.
AtInv ==
  /\ build.pc \in {"write", "qa"} => build.at <= Len(build.lines)

TypeInv == TypeOK /\ AtInv

LEMMA NextLineAt ==
  ASSUME NEW made, NEW calm, TypeOK, NextLine(made, calm)
  PROVE  AtInv'
BY DEF NextLine, AtInv, TypeOK, Build

LEMMA TypeInitially == Init => TypeInv
<1> SUFFICES ASSUME Init PROVE TypeInv
  OBVIOUS
<1>1. build \in Build
  BY BuildIdle DEF Init
<1>2. source \in [Lang -> Seq(Line)] /\ golden \in [Lang -> Set]
  BY DEF Init, Set, Holds
<1>3. clip \in [Id -> Clip]
  BY GoldenConstants DEF Init, NoClip, Clip, Heard, Text
<1>4. eval \in Eval
  BY DEF Init, NoEval, Eval
<1>5. AtInv
  BY DEF Init, Idle, AtInv
<1> QED
  BY <1>1, <1>2, <1>3, <1>4, <1>5 DEF Init, TypeInv, TypeOK

LEMMA TypePreserved == TypeInv /\ [Next]_vars => TypeInv'
<1> SUFFICES ASSUME TypeInv, [Next]_vars PROVE TypeInv'
  OBVIOUS
<1> USE DEF TypeInv
<1>1. ASSUME NEW l \in Lang, NEW script \in Script, AddLine(l, script) PROVE TypeInv'
  <2>1. Len(source[l]) + 1 \in 1..MaxLines
    BY <1>1, GoldenConstants DEF AddLine, TypeOK
  <2>2. [id |-> <<l, Len(source[l]) + 1>>, script |-> script] \in Line
    BY <2>1 DEF Line, Id
  <2>3. source' \in [Lang -> Seq(Line)]
    BY <1>1, <2>2, AppendProperties DEF AddLine, TypeOK
  <2> QED
    BY <1>1, <2>3, DisturbedType DEF AddLine, TypeOK, AtInv
<1>2. ASSUME NEW l \in Lang, NEW script \in Script, NEW i \in 1..Len(source[l]), EditLine(l, i, script)
      PROVE  TypeInv'
  <2>1. source[l] \in Seq(Line) /\ source[l][i] \in Line
    BY ElementOfSeq DEF TypeOK
  <2>2. [source[l][i] EXCEPT !.script = script] \in Line /\ source[l][i].id \in Id
    BY <2>1 DEF Line
  <2>3. [source[l] EXCEPT ![i].script = script] \in Seq(Line)
    BY <2>1, <2>2, ExceptSeq
  <2>4. source' \in [Lang -> Seq(Line)]
    BY <1>2, <2>3 DEF EditLine, TypeOK
  <2> QED
    BY <1>2, <2>2, <2>4, DisturbedType DEF EditLine, TypeOK, AtInv
<1>3. ASSUME NEW langs \in {Lang} \cup {{l} : l \in Lang}, NEW force \in BOOLEAN,
             StartBuild(langs, force)
      PROVE  TypeInv'
  <2>1. langs \subseteq Lang
    OBVIOUS
  <2>2. build' \in Build /\ build'.pc = "language"
    BY <1>3, <2>1, BuildIdle DEF StartBuild, Build
  <2> QED
    BY <1>3, <2>2 DEF StartBuild, TypeOK, AtInv
<1>4. ASSUME NEW l \in Lang, LoadSource(l) PROVE TypeInv'
  <2>1. build.force \in BOOLEAN /\ build.langs \ {l} \subseteq Lang /\ source[l] \in Seq(Line)
    BY DEF TypeOK, Build
  <2>2. build' \in Build /\ build'.pc = "line"
    BY <1>4, <2>1, BuildIdle DEF LoadSource, Build
  <2> QED
    BY <1>4, <2>2 DEF LoadSource, TypeOK, AtInv
<1>5. CASE UseCached
  <2>1. Current.id \in Id /\ build.at <= Len(build.lines)
    BY <1>5, CurrentLine DEF UseCached, AtLine
  <2>2. build' \in Build /\ AtInv'
    <3>1. CASE clip[Current.id].file = "readable"
      BY ZenonT(40), <1>5, <2>1, <3>1 DEF UseCached, TypeOK, Build, AtInv
    <3>2. CASE clip[Current.id].file # "readable"
      <4>1. NextLine(<<>>, build.calm) /\ build.calm \in BOOLEAN
        BY <1>5, <3>2 DEF UseCached, TypeOK, Build
      <4> QED
        BY <4>1, NextLineType, NextLineAt, NothingMade
    <3> QED
      BY <3>1, <3>2
  <2> QED
    BY <1>5, <2>2 DEF UseCached, TypeOK
<1>6. ASSUME NEW said \in Heard, SynthesizeClip(said) PROVE TypeInv'
  <2>1. Current.id \in Id /\ build.at <= Len(build.lines)
    BY <1>6, CurrentLine DEF SynthesizeClip, AtLine
  <2>2. [file |-> "readable", fed |-> Current.script.text, says |-> said,
         take |-> clip[Current.id].take + 1] \in Clip
    BY <1>6, <2>1, CurrentLine DEF SynthesizeClip, AtLine, Clip, Script, TypeOK
  <2>3. build' \in Build /\ AtInv'
    BY <1>6, <2>1, <2>2 DEF SynthesizeClip, TypeOK, Build, AtInv
  <2> QED
    BY <1>6, <2>3 DEF SynthesizeClip, TypeOK
<1>7. CASE LineFails
  <2>1. build' \in Build /\ AtInv'
    BY <1>7, NextLineType, NextLineAt, NothingMade DEF LineFails
  <2> QED
    BY <1>7, <2>1 DEF LineFails, Fault, TypeOK
<1>8. CASE WriteClip
  <2>1. build.at <= Len(build.lines) /\ build.pcm \in Clip
    BY <1>8, RemainsType DEF WriteClip, AtInv
  <2>2. build' \in Build /\ AtInv'
    BY <1>8, <2>1 DEF WriteClip, TypeOK, Build, AtInv
  <2> QED
    BY <1>8, <2>1, <2>2, PutsType DEF WriteClip, TypeOK
<1>9. CASE WriteFails
  <2>1. build.at <= Len(build.lines)
    BY <1>9 DEF WriteFails, AtInv
  <2>2. PICK file \in Remains : Puts(file)
    BY <1>9 DEF WriteFails
  <2>3. build' \in Build /\ AtInv'
    BY <1>9, NextLineType, NextLineAt, NothingMade DEF WriteFails
  <2> QED
    BY <1>9, <2>1, <2>2, <2>3, RemainsType, PutsType DEF WriteFails, Fault, TypeOK
<1>10. CASE Hears
  <2>1. build.at <= Len(build.lines) /\ build.pcm.says \in Heard /\ build.calm \in BOOLEAN
    BY <1>10 DEF Hears, AtInv, TypeOK, Build, Clip
  <2>2. build' \in Build /\ AtInv'
    BY <1>10, <2>1, VerdictType, NextLineType, NextLineAt DEF Hears
  <2> QED
    BY <1>10, <2>2 DEF Hears, TypeOK
<1>11. CASE HearsNothing
  <2> DEFINE tries == build.tries + 1
  <2>1. build.at <= Len(build.lines) /\ Empty \in Heard /\ tries \in Nat /\ build.calm \in BOOLEAN
    BY <1>11 DEF HearsNothing, AtInv, TypeOK, Build, Heard
  <2>2. build' \in Build /\ AtInv'
    <3>1. CASE GivesUp(tries)
      <4>1. NextLine(Verdict(Empty), build.calm /\ tries < QaTries)
        BY <1>11, <3>1 DEF HearsNothing
      <4> QED
        BY <2>1, <4>1, VerdictType, NextLineType, NextLineAt
    <3>2. CASE ~GivesUp(tries)
      BY <1>11, <2>1, <3>2 DEF HearsNothing, TypeOK, Build, AtInv
    <3> QED
      BY <3>1, <3>2
  <2> QED
    BY <1>11, <2>2 DEF HearsNothing, Fault, TypeOK
<1>12. CASE SaveSet
  <2>1. build.lang \in Lang /\ Holds(build.records) \in Set
    BY DEF TypeOK, Build, Holds, Set
  <2>2. build' \in Build /\ AtInv'
    BY <1>12, BuildIdle DEF SaveSet, TypeOK, Build, AtInv, Idle
  <2>3. eval' \in Eval /\ repaired' \subseteq Lang /\ steady' \subseteq Lang
    BY <1>12, <2>1, DisturbedType DEF SaveSet, TypeOK
  <2>4. golden' \in [Lang -> Set]
    BY <1>12, <2>1 DEF SaveSet, TypeOK
  <2> QED
    BY <1>12, <2>2, <2>3, <2>4 DEF SaveSet, TypeOK
<1>13. CASE DiesBetween
  <2>1. build' \in Build /\ AtInv'
    BY <1>13, BuildIdle DEF DiesBetween, Dies, AtInv, Idle
  <2> QED
    BY <1>13, <2>1 DEF DiesBetween, Dies, Fault, TypeOK
<1>14. CASE DiesWritingClip
  <2>1. build' \in Build /\ AtInv'
    BY <1>14, BuildIdle DEF DiesWritingClip, Dies, AtInv, Idle
  <2>2. build.at <= Len(build.lines)
    BY <1>14 DEF DiesWritingClip, AtInv
  <2>3. PICK file \in Remains : Puts(file)
    BY <1>14 DEF DiesWritingClip
  <2> QED
    BY <1>14, <2>1, <2>2, <2>3, RemainsType, PutsType DEF DiesWritingClip, Dies, Fault, TypeOK
<1>15. CASE DiesWritingSet
  <2>1. build' \in Build /\ AtInv'
    BY <1>15, BuildIdle DEF DiesWritingSet, Dies, AtInv, Idle
  <2>2. build.lang \in Lang /\ build.records \in Seq(Record)
    BY DEF TypeOK, Build
  <2>3. ASSUME NEW n \in 0..Len(build.records)
        PROVE  SubSeq(build.records, 1, n) \in Seq(Record)
    BY <2>2, SubSeqProperties
  <2>4. {Torn} \cup {Holds(SubSeq(build.records, 1, n)) : n \in 0..Len(build.records)} \subseteq Set
    <3>1. Torn \in Set
      BY DEF Torn, Set
    <3>2. ASSUME NEW n \in 0..Len(build.records)
          PROVE  Holds(SubSeq(build.records, 1, n)) \in Set
      BY <2>3 DEF Holds, Set
    <3> QED
      BY <3>1, <3>2
  <2>5. golden' \in [Lang -> Set]
    BY <1>15, <2>2, <2>4 DEF DiesWritingSet, TypeOK
  <2> QED
    BY <1>15, <2>1, <2>2, <2>5, DisturbedType DEF DiesWritingSet, Dies, Fault, TypeOK
<1>16. ASSUME NEW l \in Lang, LoadGolden(l) PROVE TypeInv'
  <2> DEFINE all  == {golden[l].records[n] : n \in 1..Len(golden[l].records)}
             todo == {r \in all : r.usable}
  <2>1. golden[l].records \in Seq(Record)
    BY DEF TypeOK, Set
  <2>2. todo \subseteq Record
    BY <2>1, ElementOfSeq
  <2>3. eval' = [on |-> {l}, todo |-> todo, got |-> {}, since |-> l \in repaired]
    BY <1>16 DEF LoadGolden
  <2>4. eval' \in Eval
    BY <2>2, <2>3 DEF Eval
  <2> QED
    BY <1>16, <2>4 DEF LoadGolden, TypeOK, AtInv
<1>17. ASSUME NEW l \in Lang, FinishEval(l) PROVE TypeInv'
  <2>1. eval' \in Eval
    BY <1>17 DEF FinishEval, NoEval, Eval
  <2>2. baseline' \in [Lang -> SUBSET Sample]
    BY <1>17 DEF FinishEval, TypeOK, Eval
  <2> QED
    BY <1>17, <2>1, <2>2 DEF FinishEval, TypeOK, AtInv
<1>18. ASSUME NEW r \in eval.todo, ReplayClip(r) PROVE TypeInv'
  <2>1. r \in Record /\ r.id \in Id
    BY DEF TypeOK, Eval, Record
  <2>2. [id |-> r.id, script |-> r.script, take |-> clip[r.id].take] \in Sample
    BY <2>1 DEF TypeOK, Record, Clip, Sample
  <2>3. eval' \in Eval
    BY <1>18, <2>1, <2>2 DEF ReplayClip, TypeOK, Eval, NoEval
  <2> QED
    BY <1>18, <2>3 DEF ReplayClip, TypeOK, AtInv
<1>19. CASE UNCHANGED vars
  BY <1>19 DEF vars, TypeOK, AtInv
<1> QED
  BY <1>1, <1>2, <1>3, <1>4, <1>5, <1>6, <1>7, <1>8, <1>9, <1>10, <1>11, <1>12, <1>13,
     <1>14, <1>15, <1>16, <1>17, <1>18, <1>19 DEF Next

\* Every state of the golden set is of its type.
THEOREM TypeCorrect == Spec => []TypeOK
<1>1. Init => TypeInv
  BY TypeInitially
<1>2. TypeInv /\ [Next]_vars => TypeInv'
  BY TypePreserved
<1>3. TypeInv => TypeOK
  BY DEF TypeInv
<1> QED
  BY <1>1, <1>2, <1>3, PTL DEF Spec

-----------------------------------------------------------------------------
(* A usable record vouches for its clip. *)

\* A line's id is its place in its language, so no two lines have the same.
SourceInv == \A l \in Lang : \A n \in 1..Len(source[l]) : source[l][n].id = <<l, n>>

SetInv == \A l \in Lang : \A n \in 1..Len(golden[l].records) : golden[l].records[n].id[1] = l

AtWork == build.pc \in {"line", "write", "qa"}

LinesInv ==
  AtWork => \A n \in 1..Len(build.lines) : build.lines[n].id = <<build.lang, n>>

\* The records of a sequence of them.
In(records) == {records[n] : n \in 1..Len(records)}

LEMMA InRecords == ASSUME NEW records \in Seq(Record) PROVE In(records) \subseteq Record
BY ElementOfSeq DEF In

LEMMA InNothing == In(<<>>) = {}
BY DEF In

LEMMA InConcat ==
  ASSUME NEW records \in Seq(Record), NEW made \in Seq(Record)
  PROVE  In(records \o made) = In(records) \cup In(made)
<1> DEFINE both == records \o made
<1>1. Len(both) = Len(records) + Len(made) /\ Len(records) \in Nat /\ Len(made) \in Nat
  BY ConcatProperties
<1>2. ASSUME NEW n \in 1..Len(both) PROVE both[n] \in In(records) \cup In(made)
  <2>1. CASE n <= Len(records)
    BY <1>1, <2>1, ConcatProperties DEF In
  <2>2. CASE n > Len(records)
    <3>1. both[n] = made[n - Len(records)] /\ n - Len(records) \in 1..Len(made)
      BY <1>1, <2>2, ConcatProperties
    <3> QED
      BY <3>1 DEF In
  <2> QED
    BY <1>1, <2>1, <2>2
<1>3. ASSUME NEW n \in 1..Len(records) PROVE records[n] \in In(both)
  BY <1>1, ConcatProperties DEF In
<1>4. ASSUME NEW n \in 1..Len(made) PROVE made[n] \in In(both)
  <2>1. n + Len(records) \in 1..Len(both) /\ both[n + Len(records)] = made[n]
    BY <1>1, ConcatProperties
  <2> QED
    BY <2>1 DEF In
<1> HIDE DEF both
<1>5. In(both) = In(records) \cup In(made)
  BY <1>2, <1>3, <1>4 DEF In
<1> QED
  BY <1>5 DEF both

\* The records so far are of earlier lines of the language, and vouch for their clips.
Vouched(r) ==
  /\ r.id[1] = build.lang /\ r.id[2] < build.at
  /\ r.usable => Says(r.id, r.script.romanized)

RecordsInv == AtWork => \A r \in In(build.records) : Vouched(r)

\* What a build's records say is still so after a step.
StillVouch ==
  \A r \in In(build.records) :
    r.id[1] = build.lang /\ r.id[2] < build.at /\ (r.usable => Says(r.id, r.script.romanized)')

\* What is held of the line at hand: the clip that is to be written, or that was.
HeldInv ==
  /\ build.pc \in {"write", "qa"} => build.pcm.file = "readable"
  /\ build.pc = "qa" => clip[Current.id] = build.pcm

\* UsableIsHeard, as far as it is about what Saaras hears.
UsableSays ==
  \A l \in Lang : \A r \in In(golden[l].records) :
    r.usable /\ r.id \notin unheard => Says(r.id, r.script.romanized)

HeardInv == TypeInv /\ SourceInv /\ SetInv /\ LinesInv /\ RecordsInv /\ HeldInv /\ UsableSays

SetVars == <<clip, golden, unheard>>

\* What a step has to leave alone so that the records on disk still vouch.
LEMMA SetsStay ==
  ASSUME HeardInv, UNCHANGED SetVars
  PROVE  SetInv' /\ UsableSays'
BY DEF HeardInv, SetInv, UsableSays, Says, Near, SetVars

\* The line at hand is the build's at-th of its language.
LEMMA CurrentId ==
  ASSUME HeardInv, AtWork, build.at <= Len(build.lines)
  PROVE  Current.id = <<build.lang, build.at>> /\ Current.id \in Id /\ Current.script \in Script
<1>1. build.at \in 1..Len(build.lines)
  BY DEF HeardInv, TypeInv, TypeOK, Build
<1>2. Current.id = <<build.lang, build.at>>
  BY <1>1 DEF HeardInv, LinesInv, Current
<1> QED
  BY <1>2, CurrentLine DEF HeardInv, TypeInv

\* A file put in place of the clip at hand touches no record of this build, and no
\* record on disk but those that it makes unheard.
LEMMA PutsKeeps ==
  ASSUME HeardInv, AtWork, build.at <= Len(build.lines), NEW file, Puts(file),
         UNCHANGED golden
  PROVE  SetInv' /\ UsableSays' /\ StillVouch
<1>1. Current.id = <<build.lang, build.at>> /\ Current.id \in Id
  BY CurrentId
<1>2. clip' = [clip EXCEPT ![Current.id] = file] /\ unheard' = unheard \cup {Current.id}
  BY DEF Puts
<1>3. clip \in [Id -> Clip]
  BY DEF HeardInv, TypeInv, TypeOK
<1>4. ASSUME NEW id \in Id, id # Current.id PROVE clip'[id] = clip[id]
  BY <1>2, <1>3, <1>4
<1>5. SetInv'
  BY DEF HeardInv, SetInv
<1>6. UsableSays'
  <2> SUFFICES ASSUME NEW l \in Lang, NEW r \in In(golden[l].records),
                      r.usable, r.id \notin unheard'
               PROVE  Says(r.id, r.script.romanized)'
    BY DEF UsableSays, In
  <2>1. golden[l].records \in Seq(Record)
    BY DEF HeardInv, TypeInv, TypeOK, Set
  <2>2. r \in Record
    BY <2>1, InRecords
  <2>3. r.id \in Id /\ r.id # Current.id
    BY <1>2, <2>2 DEF Record
  <2>4. Says(r.id, r.script.romanized)
    BY <1>2 DEF HeardInv, UsableSays, In
  <2> QED
    BY <1>4, <2>3, <2>4 DEF Says, Near
<1>7. StillVouch
  <2> SUFFICES ASSUME NEW r \in In(build.records)
               PROVE  /\ r.id[1] = build.lang /\ r.id[2] < build.at
                      /\ r.usable => Says(r.id, r.script.romanized)'
    BY DEF StillVouch
  <2>1. build.records \in Seq(Record) /\ build.at \in Nat
    BY DEF HeardInv, TypeInv, TypeOK, Build
  <2>2. r.id \in Id
    BY <2>1, InRecords DEF Record
  <2>3. Vouched(r)
    BY DEF HeardInv, RecordsInv
  <2>4. r.id # Current.id
    BY <1>1, <2>1, <2>2, <2>3 DEF Vouched, Id
  <2> QED
    BY <1>4, <2>2, <2>3, <2>4 DEF Vouched, Says, Near
<1> QED
  BY <1>5, <1>6, <1>7

\* Going on to the next line keeps what there is, and adds what vouches.
LEMMA NextLineKeeps ==
  ASSUME HeardInv, AtWork, build.at <= Len(build.lines),
         NEW made \in Seq(Record), NEW calm, NextLine(made, calm), StillVouch,
         \A r \in In(made) : r.id = Current.id /\ (r.usable => Says(r.id, r.script.romanized)')
  PROVE  LinesInv' /\ RecordsInv' /\ HeldInv'
<1>1. Current.id = <<build.lang, build.at>>
  BY CurrentId
<1>2. build \in Build
  BY DEF HeardInv, TypeInv, TypeOK
<1>3. /\ build'.pc = "line" /\ build'.lang = build.lang /\ build'.lines = build.lines
      /\ build'.at = build.at + 1 /\ build'.records = build.records \o made
  BY <1>2 DEF NextLine, Build
<1>4. LinesInv' /\ HeldInv'
  BY <1>3 DEF HeardInv, LinesInv, HeldInv, AtWork
<1>5. RecordsInv'
  <2> SUFFICES ASSUME NEW r \in In(build'.records) PROVE Vouched(r)'
    BY DEF RecordsInv
  <2>1. build.records \in Seq(Record) /\ build.at \in Nat
    BY <1>2 DEF Build
  <2>2. r \in In(build.records) \/ r \in In(made)
    BY <1>3, <2>1, InConcat
  <2>3. CASE r \in In(build.records)
    <3>1. r.id[2] \in Nat
      <4>1. r.id \in Id
        BY <2>1, <2>3, InRecords DEF Record
      <4> QED
        BY <4>1 DEF Id
    <3>2. /\ r.id[1] = build.lang /\ r.id[2] < build.at
          /\ r.usable => Says(r.id, r.script.romanized)'
      BY <2>3 DEF StillVouch
    <3> QED
      BY <1>3, <2>1, <3>1, <3>2 DEF Vouched
  <2>4. CASE r \in In(made)
    BY <1>1, <1>3, <2>1, <2>4 DEF Vouched
  <2> QED
    BY <2>2, <2>3, <2>4
<1> QED
  BY <1>4, <1>5

LEMMA RecordsStillVouch ==
  ASSUME HeardInv, AtWork, UNCHANGED clip
  PROVE  StillVouch
BY DEF HeardInv, RecordsInv, StillVouch, Vouched, Says, Near

\* A step of others than the build.
LEMMA BuildStays ==
  ASSUME HeardInv, UNCHANGED <<build, clip>>
  PROVE  LinesInv' /\ RecordsInv' /\ HeldInv'
BY DEF HeardInv, LinesInv, RecordsInv, HeldInv, Vouched, Says, Near, AtWork, Current

LEMMA BuildGone ==
  ASSUME build' = Idle
  PROVE  LinesInv' /\ RecordsInv' /\ HeldInv'
BY DEF Idle, LinesInv, RecordsInv, HeldInv, AtWork

\* A set that is written, whole or in part, vouches for the clips of its language.
LEMMA SetWritten ==
  ASSUME HeardInv, build.pc = "line", NEW records \in Seq(Record), NEW torn \in BOOLEAN,
         In(records) \subseteq In(build.records),
         golden' = [golden EXCEPT ![build.lang] = [torn |-> torn, records |-> records]],
         unheard' = unheard \ OfLang(build.lang),
         UNCHANGED clip
  PROVE  SetInv' /\ UsableSays'
<1> USE DEF HeardInv
<1>1. build.lang \in Lang /\ golden \in [Lang -> Set]
  BY DEF TypeInv, TypeOK, Build
<1>2. golden'[build.lang].records = records
  BY <1>1
<1>3. ASSUME NEW l \in Lang, l # build.lang PROVE golden'[l] = golden[l]
  BY <1>1, <1>3
<1>4. ASSUME NEW r \in In(records) PROVE Vouched(r)
  BY DEF RecordsInv, AtWork
<1>5. SetInv'
  <2> SUFFICES ASSUME NEW l \in Lang, NEW n \in 1..Len(golden'[l].records)
               PROVE  golden'[l].records[n].id[1] = l
    BY DEF SetInv
  <2>1. CASE l = build.lang
    BY <1>2, <1>4, <2>1 DEF Vouched, In
  <2>2. CASE l # build.lang
    BY <1>3, <2>2 DEF SetInv
  <2> QED
    BY <2>1, <2>2
<1>6. UsableSays'
  <2> SUFFICES ASSUME NEW l \in Lang, NEW r \in In(golden'[l].records),
                      r.usable, r.id \notin unheard'
               PROVE  Says(r.id, r.script.romanized)'
    BY DEF UsableSays, In
  <2>1. CASE l = build.lang
    <3>1. Says(r.id, r.script.romanized)
      BY <1>2, <1>4, <2>1 DEF Vouched
    <3> QED
      BY <3>1 DEF Says, Near
  <2>2. CASE l # build.lang
    <3>1. r \in In(golden[l].records)
      BY <1>3, <2>2
    <3>2. r.id \notin unheard
      BY <2>2, <3>1 DEF SetInv, OfLang, In
    <3>3. Says(r.id, r.script.romanized)
      BY <3>1, <3>2 DEF UsableSays, In
    <3> QED
      BY <3>3 DEF Says, Near
  <2> QED
    BY <2>1, <2>2
<1> QED
  BY <1>5, <1>6

LEMMA HeardPreserved == HeardInv /\ [Next]_vars => HeardInv'
<1> SUFFICES ASSUME HeardInv, [Next]_vars PROVE HeardInv'
  OBVIOUS
<1>0. TypeInv'
  BY TypePreserved DEF HeardInv
<1>t. build \in Build
  BY DEF HeardInv, TypeInv, TypeOK
<1>s. ASSUME UNCHANGED source PROVE SourceInv'
  BY <1>s DEF HeardInv, SourceInv
<1>1. ASSUME NEW l \in Lang, NEW script \in Script, AddLine(l, script) PROVE HeardInv'
  <2>1. SourceInv'
    <3> SUFFICES ASSUME NEW m \in Lang, NEW n \in 1..Len(source'[m])
                 PROVE  source'[m][n].id = <<m, n>>
      BY DEF SourceInv
    <3>1. source \in [Lang -> Seq(Line)]
      BY DEF HeardInv, TypeInv, TypeOK
    <3>2. CASE m # l
      BY <1>1, <3>1, <3>2 DEF AddLine, HeardInv, SourceInv
    <3>3. CASE m = l
      <4>1. source'[l] = Append(source[l], [id |-> <<l, Len(source[l]) + 1>>, script |-> script])
        BY <1>1, <3>1 DEF AddLine
      <4>2. CASE n <= Len(source[l])
        BY <3>1, <3>3, <4>1, <4>2 DEF HeardInv, SourceInv
      <4>3. CASE n = Len(source[l]) + 1
        BY <3>1, <3>3, <4>1, <4>3
      <4> QED
        BY <3>1, <3>3, <4>1, <4>2, <4>3
    <3> QED
      BY <3>2, <3>3
  <2> QED
    BY <1>0, <1>1, <2>1, SetsStay, BuildStays DEF AddLine, SetVars, HeardInv
<1>2. ASSUME NEW l \in Lang, NEW script \in Script, NEW i \in 1..Len(source[l]), EditLine(l, i, script)
      PROVE  HeardInv'
  <2>1. SourceInv'
    <3> SUFFICES ASSUME NEW m \in Lang, NEW n \in 1..Len(source'[m])
                 PROVE  source'[m][n].id = <<m, n>>
      BY DEF SourceInv
    <3>1. source \in [Lang -> Seq(Line)] /\ source[l] \in Seq(Line)
      BY DEF HeardInv, TypeInv, TypeOK
    <3>2. source'[m] = IF m = l THEN [source[l] EXCEPT ![i].script = script] ELSE source[m]
      BY <1>2, <3>1 DEF EditLine
    <3>3. n \in 1..Len(source[m]) /\ source'[m][n].id = source[m][n].id
      BY <3>1, <3>2, ElementOfSeq DEF Line
    <3> QED
      BY <3>3 DEF HeardInv, SourceInv
  <2> QED
    BY <1>0, <1>2, <2>1, SetsStay, BuildStays DEF EditLine, SetVars, HeardInv
<1>3. ASSUME NEW langs, NEW force, StartBuild(langs, force) PROVE HeardInv'
  <2>1. build'.pc = "language"
    BY <1>3 DEF StartBuild, Idle
  <2>2. LinesInv' /\ RecordsInv' /\ HeldInv'
    BY <2>1 DEF LinesInv, RecordsInv, HeldInv, AtWork
  <2> QED
    BY <1>0, <1>3, <1>s, <2>2, SetsStay DEF StartBuild, SetVars, HeardInv
<1>4. ASSUME NEW l \in Lang, LoadSource(l) PROVE HeardInv'
  <2>1. /\ build'.pc = "line" /\ build'.lines = source[l] /\ build'.lang = l
        /\ build'.records = <<>>
    BY <1>4 DEF LoadSource, Idle
  <2>2. LinesInv' /\ RecordsInv' /\ HeldInv'
    BY <2>1, InNothing DEF LinesInv, RecordsInv, HeldInv, AtWork, HeardInv, SourceInv
  <2> QED
    BY <1>0, <1>4, <1>s, <2>2, SetsStay DEF LoadSource, SetVars, HeardInv
<1>5. CASE UseCached
  <2>1. AtWork /\ build.at <= Len(build.lines)
    BY <1>5 DEF UseCached, AtLine, AtWork
  <2>2. LinesInv' /\ RecordsInv' /\ HeldInv'
    <3>1. CASE clip[Current.id].file = "readable"
      <4>1. build' = [build EXCEPT !.pc = "qa", !.pcm = clip[Current.id]] /\ UNCHANGED clip
        BY <1>5, <3>1 DEF UseCached
      <4>2. /\ build'.pc = "qa" /\ build'.pcm = clip[Current.id]
            /\ build'.lines = build.lines /\ build'.lang = build.lang /\ build'.at = build.at
            /\ build'.records = build.records
        BY <1>t, <4>1 DEF Build
      <4>3. LinesInv' /\ HeldInv'
        BY <2>1, <3>1, <4>1, <4>2 DEF HeardInv, LinesInv, HeldInv, AtWork, Current
      <4>4. RecordsInv'
        BY <2>1, <4>1, <4>2, RecordsStillVouch DEF RecordsInv, StillVouch, Vouched
      <4> QED
        BY <4>3, <4>4
    <3>2. CASE clip[Current.id].file # "readable"
      <4>1. NextLine(<<>>, build.calm) /\ UNCHANGED clip
        BY <1>5, <3>2 DEF UseCached
      <4> QED
        BY <2>1, <4>1, RecordsStillVouch, NextLineKeeps, NothingMade, InNothing
    <3> QED
      BY <3>1, <3>2
  <2> QED
    BY <1>0, <1>5, <1>s, <2>2, SetsStay DEF UseCached, SetVars, HeardInv
<1>6. ASSUME NEW said \in Heard, SynthesizeClip(said) PROVE HeardInv'
  <2>1. AtWork /\ UNCHANGED clip
    BY <1>6 DEF SynthesizeClip, AtLine, AtWork
  <2>2. /\ build'.pc = "write" /\ build'.pcm.file = "readable"
        /\ build'.lines = build.lines /\ build'.lang = build.lang /\ build'.at = build.at
        /\ build'.records = build.records
    BY <1>6, <1>t DEF SynthesizeClip, Build
  <2>3. LinesInv' /\ HeldInv'
    BY <2>1, <2>2 DEF HeardInv, LinesInv, HeldInv, AtWork
  <2>4. RecordsInv'
    BY <2>1, <2>2, RecordsStillVouch DEF RecordsInv, StillVouch, Vouched
  <2> QED
    BY <1>0, <1>6, <1>s, <2>3, <2>4, SetsStay DEF SynthesizeClip, SetVars, HeardInv
<1>7. CASE LineFails
  <2>1. AtWork /\ build.at <= Len(build.lines) /\ UNCHANGED clip
    BY <1>7 DEF LineFails, AtLine, AtWork
  <2>2. LinesInv' /\ RecordsInv' /\ HeldInv'
    BY <1>7, <2>1, RecordsStillVouch, NextLineKeeps, NothingMade, InNothing DEF LineFails
  <2> QED
    BY <1>0, <1>7, <1>s, <2>2, SetsStay DEF LineFails, SetVars, HeardInv
<1>8. CASE WriteClip
  <2>1. AtWork /\ build.at <= Len(build.lines) /\ build.pcm.file = "readable"
    BY <1>8 DEF WriteClip, AtWork, HeardInv, TypeInv, AtInv, HeldInv
  <2>2. Puts(build.pcm) /\ UNCHANGED golden
    BY <1>8 DEF WriteClip
  <2>3. /\ build'.pc = "qa" /\ build'.pcm = build.pcm
        /\ build'.lines = build.lines /\ build'.lang = build.lang /\ build'.at = build.at
        /\ build'.records = build.records
    BY <1>8, <1>t DEF WriteClip, Build
  <2>4. clip'[Current.id] = build.pcm
    BY <2>1, <2>2, CurrentId DEF Puts, HeardInv, TypeInv, TypeOK
  <2>5. LinesInv' /\ HeldInv'
    BY <2>1, <2>3, <2>4 DEF HeardInv, LinesInv, HeldInv, AtWork, Current
  <2>6. RecordsInv'
    BY <2>1, <2>2, <2>3, PutsKeeps DEF RecordsInv, StillVouch, Vouched
  <2> QED
    BY <1>0, <1>8, <1>s, <2>1, <2>2, <2>5, <2>6, PutsKeeps DEF WriteClip, HeardInv
<1>9. CASE WriteFails
  <2>1. AtWork /\ build.at <= Len(build.lines)
    BY <1>9 DEF WriteFails, AtWork, HeardInv, TypeInv, AtInv
  <2>2. PICK file \in Remains : Puts(file)
    BY <1>9 DEF WriteFails
  <2>3. NextLine(<<>>, FALSE) /\ UNCHANGED golden
    BY <1>9 DEF WriteFails
  <2>4. LinesInv' /\ RecordsInv' /\ HeldInv'
    BY <2>1, <2>2, <2>3, PutsKeeps, NextLineKeeps, NothingMade, InNothing
  <2> QED
    BY <1>0, <1>9, <1>s, <2>1, <2>2, <2>3, <2>4, PutsKeeps DEF WriteFails, HeardInv
<1>10. CASE Hears
  <2>1. /\ AtWork /\ build.at <= Len(build.lines) /\ UNCHANGED clip
        /\ clip[Current.id] = build.pcm /\ build.pcm.file = "readable"
    BY <1>10 DEF Hears, AtWork, HeardInv, TypeInv, AtInv, HeldInv
  <2> DEFINE made == Verdict(build.pcm.says)
  <2>2. NextLine(made, build.calm)
    BY <1>10 DEF Hears
  <2>3. made \in Seq(Record)
    BY <1>t, <2>1, VerdictType DEF HeardInv, TypeInv, Build, Clip
  <2>4. ASSUME NEW r \in In(made)
        PROVE  r.id = Current.id /\ (r.usable => Says(r.id, r.script.romanized)')
    <3>1. r = [id |-> Current.id, script |-> Current.script,
               usable |-> Near(Current.script.romanized, build.pcm.says)]
      BY DEF Verdict, In
    <3>2. r.usable => Near(r.script.romanized, clip'[r.id].says) /\ clip'[r.id].file = "readable"
      BY <2>1, <3>1
    <3> QED
      BY <3>1, <3>2 DEF Says, Near
  <2> HIDE DEF made
  <2>5. LinesInv' /\ RecordsInv' /\ HeldInv'
    BY <2>1, <2>2, <2>3, <2>4, RecordsStillVouch, NextLineKeeps
  <2> QED
    BY <1>0, <1>10, <1>s, <2>5, SetsStay DEF Hears, SetVars, HeardInv
<1>11. CASE HearsNothing
  <2> DEFINE tries == build.tries + 1
             made  == Verdict(Empty)
  <2>1. AtWork /\ build.at <= Len(build.lines) /\ UNCHANGED clip
    BY <1>11 DEF HearsNothing, AtWork, HeardInv, TypeInv, AtInv
  <2>2. LinesInv' /\ RecordsInv' /\ HeldInv'
    <3>1. CASE GivesUp(tries)
      <4>1. NextLine(made, build.calm /\ tries < QaTries)
        BY <1>11, <3>1 DEF HearsNothing
      <4>2. made \in Seq(Record)
        BY <2>1, VerdictType DEF HeardInv, TypeInv, Heard
      <4>3. ~Near(Current.script.romanized, Empty)
        BY DEF Near, Empty, Text
      <4>4. ASSUME NEW r \in In(made)
            PROVE  r.id = Current.id /\ ~r.usable
        BY <4>3 DEF Verdict, In
      <4> HIDE DEF made
      <4> QED
        BY <2>1, <4>1, <4>2, <4>4, RecordsStillVouch, NextLineKeeps
    <3>2. CASE ~GivesUp(tries)
      <4>1. build' = [build EXCEPT !.tries = tries]
        BY <1>11, <3>2 DEF HearsNothing
      <4>2. /\ build'.pc = build.pc /\ build'.pcm = build.pcm
            /\ build'.lines = build.lines /\ build'.lang = build.lang /\ build'.at = build.at
            /\ build'.records = build.records
        BY <1>t, <4>1 DEF Build
      <4>3. LinesInv' /\ HeldInv'
        BY <2>1, <4>2 DEF HeardInv, LinesInv, HeldInv, AtWork, Current
      <4>4. RecordsInv'
        BY <2>1, <4>2, RecordsStillVouch DEF RecordsInv, StillVouch, Vouched
      <4> QED
        BY <4>3, <4>4
    <3> QED
      BY <3>1, <3>2
  <2> QED
    BY <1>0, <1>11, <1>s, <2>2, SetsStay DEF HearsNothing, SetVars, HeardInv
<1>12. CASE SaveSet
  <2>1. build.records \in Seq(Record)
    BY <1>t DEF Build
  <2>2. SetInv' /\ UsableSays'
    BY <1>12, <2>1, SetWritten DEF SaveSet, Holds
  <2>3. build'.pc \in {"idle", "language"}
    BY <1>12, <1>t DEF SaveSet, Idle, Build
  <2>4. LinesInv' /\ RecordsInv' /\ HeldInv'
    BY <2>3 DEF LinesInv, RecordsInv, HeldInv, AtWork
  <2> QED
    BY <1>0, <1>12, <1>s, <2>2, <2>4 DEF SaveSet, HeardInv
<1>13. CASE DiesBetween
  BY <1>0, <1>13, <1>s, SetsStay, BuildGone DEF DiesBetween, Dies, SetVars, HeardInv
<1>14. CASE DiesWritingClip
  <2>1. AtWork /\ build.at <= Len(build.lines) /\ UNCHANGED golden
    BY <1>14 DEF DiesWritingClip, AtWork, HeardInv, TypeInv, AtInv
  <2>2. PICK file \in Remains : Puts(file)
    BY <1>14 DEF DiesWritingClip
  <2> QED
    BY <1>0, <1>14, <1>s, <2>1, <2>2, PutsKeeps, BuildGone DEF DiesWritingClip, Dies, HeardInv
<1>15. CASE DiesWritingSet
  <2>1. build.records \in Seq(Record)
    BY <1>t DEF Build
  <2>2. SetInv' /\ UsableSays'
    <3>1. CASE golden' = [golden EXCEPT ![build.lang] = Torn]
      BY <1>15, <3>1, SetWritten, NothingMade, InNothing DEF DiesWritingSet, Torn
    <3>2. ASSUME NEW n \in 0..Len(build.records),
                 golden' = [golden EXCEPT ![build.lang] = Holds(SubSeq(build.records, 1, n))]
          PROVE  SetInv' /\ UsableSays'
      <4> DEFINE part == SubSeq(build.records, 1, n)
      <4>1. /\ part \in Seq(Record)
            /\ In(part) \subseteq In(build.records)
        BY <2>1, SubSeqProperties DEF In
      <4> HIDE DEF part
      <4> QED
        BY <1>15, <3>2, <4>1, SetWritten DEF DiesWritingSet, Holds, part
    <3> QED
      BY <1>15, <3>1, <3>2 DEF DiesWritingSet
  <2> QED
    BY <1>0, <1>15, <1>s, <2>2, BuildGone DEF DiesWritingSet, Dies, HeardInv
<1>16. ASSUME NEW l \in Lang, LoadGolden(l) \/ FinishEval(l) PROVE HeardInv'
  BY <1>0, <1>16, <1>s, SetsStay, BuildStays DEF LoadGolden, FinishEval, SetVars, HeardInv
<1>17. ASSUME NEW r \in eval.todo, ReplayClip(r) PROVE HeardInv'
  BY <1>0, <1>17, <1>s, SetsStay, BuildStays DEF ReplayClip, SetVars, HeardInv
<1>18. CASE UNCHANGED vars
  BY <1>0, <1>18, <1>s, SetsStay, BuildStays DEF vars, SetVars, HeardInv
<1> QED
  BY <1>1, <1>2, <1>3, <1>4, <1>5, <1>6, <1>7, <1>8, <1>9, <1>10, <1>11, <1>12, <1>13,
     <1>14, <1>15, <1>16, <1>17, <1>18 DEF Next

LEMMA HeardInitially == Init => HeardInv
<1> SUFFICES ASSUME Init PROVE HeardInv
  OBVIOUS
<1>1. TypeInv
  BY TypeInitially
<1> QED
  BY <1>1 DEF Init, Idle, Holds, HeardInv, SourceInv, SetInv, LinesInv, RecordsInv, HeldInv,
              UsableSays, In, AtWork

-----------------------------------------------------------------------------
(* Bulbul was given the text that is scored, unless it was edited since. *)

HasLine(id) == id[2] <= Len(source[id[1]])

\* The text of a line, as its author has it now.
TextOf(id) == source[id[1]][id[2]].script.text

\* Of a line that is not reworded, the clip, the build's copy of the line, and the
\* records have the text that its author has.
ClipTextInv ==
  \A id \in Id : clip[id].file # "none" =>
    HasLine(id) /\ (id \notin reworded => clip[id].fed = TextOf(id))

LinesTextInv ==
  AtWork => \A n \in 1..Len(build.lines) :
    LET line == build.lines[n] IN
      HasLine(line.id) /\ (line.id \notin reworded => line.script.text = TextOf(line.id))

RecordsTextInv ==
  AtWork => \A r \in In(build.records) :
    HasLine(r.id) /\ (r.id \notin reworded => r.script.text = TextOf(r.id))

SetTextInv ==
  \A l \in Lang : \A r \in In(golden[l].records) :
    HasLine(r.id) /\ (r.id \notin unheard /\ r.id \notin reworded => r.script.text = TextOf(r.id))

PcmTextInv == build.pc = "write" => build.pcm.fed = Current.script.text

TextInv ==
  HeardInv /\ ClipTextInv /\ LinesTextInv /\ RecordsTextInv /\ SetTextInv /\ PcmTextInv

\* No line goes, and one that is not reworded has the text that it had.
TextsKeep ==
  \A id \in Id : HasLine(id) =>
    /\ HasLine(id)'
    /\ id \notin reworded' => id \notin reworded /\ TextOf(id)' = TextOf(id)

LEMMA TextsStay ==
  ASSUME UNCHANGED <<source, reworded>>
  PROVE  TextsKeep
BY DEF TextsKeep, HasLine, TextOf

LEMMA RecordIds ==
  ASSUME TypeOK
  PROVE  /\ \A l \in Lang : \A r \in In(golden[l].records) : r \in Record /\ r.id \in Id
         /\ \A r \in In(build.records) : r \in Record /\ r.id \in Id
         /\ \A n \in 1..Len(build.lines) : build.lines[n] \in Line /\ build.lines[n].id \in Id
<1>1. /\ \A l \in Lang : golden[l].records \in Seq(Record)
      /\ build.records \in Seq(Record) /\ build.lines \in Seq(Line)
  BY DEF TypeOK, Set, Build
<1>2. \A r \in Record : r.id \in Id
  BY DEF Record
<1>3. \A n \in 1..Len(build.lines) : build.lines[n] \in Line
  BY <1>1, ElementOfSeq
<1>4. \A line \in Line : line.id \in Id
  BY DEF Line
<1> QED
  BY <1>1, <1>2, <1>3, <1>4, InRecords

\* What a step that leaves the disk alone does to what is there.
LEMMA DiskTextStays ==
  ASSUME TextInv, TextsKeep, UNCHANGED <<clip, golden, unheard>>
  PROVE  ClipTextInv' /\ SetTextInv'
<1>1. ClipTextInv'
  <2> SUFFICES ASSUME NEW id \in Id, clip[id].file # "none"
               PROVE  HasLine(id)' /\ (id \notin reworded' => clip[id].fed = TextOf(id)')
    BY DEF ClipTextInv
  <2> QED
    BY DEF TextInv, ClipTextInv, TextsKeep
<1>2. SetTextInv'
  <2> SUFFICES ASSUME NEW l \in Lang, NEW r \in In(golden[l].records)
               PROVE  /\ HasLine(r.id)'
                      /\ r.id \notin unheard /\ r.id \notin reworded'
                           => r.script.text = TextOf(r.id)'
    BY DEF SetTextInv, In
  <2>1. r.id \in Id
    BY RecordIds DEF TextInv, HeardInv, TypeInv
  <2> QED
    BY <2>1 DEF TextInv, SetTextInv, TextsKeep
<1> QED
  BY <1>1, <1>2

\* The same of the lines that a build has, and of the records it has made.
LEMMA WorkTextStays ==
  ASSUME TextInv, TextsKeep, AtWork, build'.lines = build.lines, build'.records = build.records
  PROVE  LinesTextInv' /\ RecordsTextInv'
<1>1. LinesTextInv'
  <2> SUFFICES ASSUME NEW n \in 1..Len(build.lines), NEW line, line = build.lines[n]
               PROVE  /\ HasLine(line.id)'
                      /\ line.id \notin reworded' => line.script.text = TextOf(line.id)'
    BY DEF LinesTextInv
  <2>1. line.id \in Id
    BY RecordIds DEF TextInv, HeardInv, TypeInv
  <2> QED
    BY <2>1 DEF TextInv, LinesTextInv, TextsKeep
<1>2. RecordsTextInv'
  <2> SUFFICES ASSUME NEW r \in In(build.records)
               PROVE  /\ HasLine(r.id)'
                      /\ r.id \notin reworded' => r.script.text = TextOf(r.id)'
    BY DEF RecordsTextInv, In
  <2>1. r.id \in Id
    BY RecordIds DEF TextInv, HeardInv, TypeInv
  <2> QED
    BY <2>1 DEF TextInv, RecordsTextInv, TextsKeep
<1> QED
  BY <1>1, <1>2

LEMMA IdleText ==
  ASSUME build'.pc \in {"idle", "language"}
  PROVE  LinesTextInv' /\ RecordsTextInv' /\ PcmTextInv'
BY DEF LinesTextInv, RecordsTextInv, PcmTextInv, AtWork

\* Going on to the next line, with records of this one or none.
LEMMA NextLineText ==
  ASSUME TextInv, AtWork, build.at <= Len(build.lines), NEW made \in Seq(Record), NEW calm,
         NextLine(made, calm), LinesTextInv',
         \A r \in In(build.records) :
           HasLine(r.id)' /\ (r.id \notin reworded' => r.script.text = TextOf(r.id)'),
         \A r \in In(made) : r.id = Current.id /\ r.script = Current.script
  PROVE  RecordsTextInv' /\ PcmTextInv'
<1>1. build \in Build /\ build.records \in Seq(Record) /\ build.at \in 1..Len(build.lines)
  BY DEF TextInv, HeardInv, TypeInv, TypeOK, Build
<1>2. /\ build'.pc = "line" /\ build'.lines = build.lines
      /\ build'.records = build.records \o made
  BY <1>1 DEF NextLine, Build
<1>3. PcmTextInv'
  BY <1>2 DEF PcmTextInv
<1>4. In(build'.records) = In(build.records) \cup In(made)
  BY <1>1, <1>2, InConcat
<1>5. PICK line : line = build.lines[build.at]
  OBVIOUS
<1>6. HasLine(line.id)' /\ (line.id \notin reworded' => line.script.text = TextOf(line.id)')
  BY <1>1, <1>2, <1>5 DEF LinesTextInv, AtWork
<1>7. ASSUME NEW r \in In(made)
      PROVE  HasLine(r.id)' /\ (r.id \notin reworded' => r.script.text = TextOf(r.id)')
  <2>1. r.id = line.id /\ r.script = line.script
    BY <1>5 DEF Current
  <2>2. r.id[1] = line.id[1] /\ r.id[2] = line.id[2] /\ r.script.text = line.script.text
    BY <2>1
  <2> QED
    BY <1>6, <2>1, <2>2 DEF HasLine, TextOf
<1>8. RecordsTextInv'
  <2> SUFFICES ASSUME NEW r \in In(build'.records)
               PROVE  /\ HasLine(r.id)'
                      /\ r.id \notin reworded' => r.script.text = TextOf(r.id)'
    BY DEF RecordsTextInv, In
  <2> QED
    BY <1>4, <1>7
<1> QED
  BY <1>3, <1>8

\* A file put in place of the clip at hand, with the text that Bulbul was given.
LEMMA PutsText ==
  ASSUME TextInv, build.pc = "write", NEW file, file.fed = build.pcm.fed, Puts(file),
         UNCHANGED <<source, golden>>
  PROVE  /\ ClipTextInv' /\ SetTextInv'
         /\ \A r \in In(build.records) :
              HasLine(r.id)' /\ (r.id \notin reworded' => r.script.text = TextOf(r.id)')
         /\ build'.lines = build.lines => LinesTextInv'
<1> USE DEF TextInv, HeardInv, TypeInv
<1>1. /\ AtWork /\ build.at \in 1..Len(build.lines)
      /\ Current.id = <<build.lang, build.at>> /\ Current.id \in Id
  BY CurrentId DEF AtWork, AtInv, TypeOK, Build
<1>2. /\ clip \in [Id -> Clip] /\ clip' = [clip EXCEPT ![Current.id] = file]
      /\ unheard' = unheard \cup {Current.id}
      /\ reworded' = IF build.pcm.fed = source[build.lang][build.at].script.text
                     THEN reworded \ {Current.id} ELSE reworded
  BY DEF Puts, TypeOK
<1>3. TextOf(Current.id) = source[build.lang][build.at].script.text
  BY <1>1 DEF TextOf
<1>4. /\ HasLine(Current.id) /\ build.pcm.fed = Current.script.text
      /\ Current.id \notin reworded' => Current.script.text = TextOf(Current.id)
  <2>1. /\ HasLine(Current.id)
        /\ Current.id \notin reworded => Current.script.text = TextOf(Current.id)
    BY <1>1 DEF LinesTextInv, Current
  <2>2. build.pcm.fed = Current.script.text
    BY DEF PcmTextInv
  <2> QED
    BY <1>2, <1>3, <2>1, <2>2
<1>5. ASSUME NEW id \in Id PROVE HasLine(id)' = HasLine(id) /\ TextOf(id)' = TextOf(id)
  BY DEF HasLine, TextOf
<1>6. ASSUME NEW id \in Id, id # Current.id, id \notin reworded' PROVE id \notin reworded
  BY <1>2, <1>6
<1>7. ClipTextInv'
  <2> SUFFICES ASSUME NEW id \in Id, clip'[id].file # "none"
               PROVE  HasLine(id) /\ (id \notin reworded' => clip'[id].fed = TextOf(id))
    BY <1>5 DEF ClipTextInv
  <2>1. CASE id = Current.id
    BY <1>2, <1>4, <2>1
  <2>2. CASE id # Current.id
    BY <1>2, <1>6, <2>2 DEF ClipTextInv
  <2> QED
    BY <2>1, <2>2
<1>8. SetTextInv'
  <2> SUFFICES ASSUME NEW l \in Lang, NEW r \in In(golden[l].records)
               PROVE  /\ HasLine(r.id)'
                      /\ r.id \notin unheard' /\ r.id \notin reworded'
                           => r.script.text = TextOf(r.id)'
    BY DEF SetTextInv, In
  <2>1. r.id \in Id
    BY RecordIds
  <2> QED
    BY <1>2, <1>5, <1>6, <2>1 DEF SetTextInv
<1>9. ASSUME NEW r \in In(build.records)
      PROVE  HasLine(r.id)' /\ (r.id \notin reworded' => r.script.text = TextOf(r.id)')
  <2>1. r.id \in Id /\ Vouched(r)
    BY <1>1, RecordIds DEF RecordsInv
  <2>2. r.id # Current.id
    BY <1>1, <2>1 DEF Vouched, Id
  <2> QED
    BY <1>1, <1>5, <1>6, <2>1, <2>2 DEF RecordsTextInv
<1>10. ASSUME build'.lines = build.lines PROVE LinesTextInv'
  <2> SUFFICES ASSUME NEW n \in 1..Len(build.lines), NEW line, line = build.lines[n]
               PROVE  /\ HasLine(line.id)'
                      /\ line.id \notin reworded' => line.script.text = TextOf(line.id)'
    BY <1>10 DEF LinesTextInv
  <2>1. line.id \in Id
    BY RecordIds
  <2>2. CASE n = build.at
    BY <1>4, <1>5, <2>1, <2>2 DEF Current
  <2>3. CASE n # build.at
    <3>1. line.id = <<build.lang, n>>
      BY <1>1 DEF LinesInv
    <3>2. line.id # Current.id
      BY <1>1, <2>3, <3>1
    <3> QED
      BY <1>1, <1>5, <1>6, <2>1, <3>2 DEF LinesTextInv
  <2> QED
    BY <2>2, <2>3
<1> QED
  BY <1>7, <1>8, <1>9, <1>10

\* A set that is written, whole or in part, has the texts of the build.
LEMMA SetTextWritten ==
  ASSUME TextInv, build.pc = "line", NEW records \in Seq(Record), NEW torn \in BOOLEAN,
         In(records) \subseteq In(build.records),
         golden' = [golden EXCEPT ![build.lang] = [torn |-> torn, records |-> records]],
         unheard' = unheard \ OfLang(build.lang),
         UNCHANGED <<source, clip, reworded>>
  PROVE  ClipTextInv' /\ SetTextInv'
<1> USE DEF TextInv, HeardInv, TypeInv
<1>1. ClipTextInv'
  BY DEF ClipTextInv, HasLine, TextOf
<1>2. build.lang \in Lang /\ golden \in [Lang -> Set] /\ AtWork
  BY DEF TypeOK, Build, AtWork
<1>3. SetTextInv'
  <2> SUFFICES ASSUME NEW l \in Lang, NEW r \in In(golden'[l].records)
               PROVE  /\ HasLine(r.id)
                      /\ r.id \notin unheard' /\ r.id \notin reworded
                           => r.script.text = TextOf(r.id)
    BY DEF SetTextInv, In, HasLine, TextOf
  <2>1. CASE l = build.lang
    <3>1. r \in In(build.records)
      BY <1>2, <2>1
    <3> QED
      BY <1>2, <3>1 DEF RecordsTextInv
  <2>2. CASE l # build.lang
    <3>1. r \in In(golden[l].records)
      BY <1>2, <2>2
    <3>2. r.id[1] = l
      BY <3>1 DEF SetInv, In
    <3>3. r.id \notin unheard' => r.id \notin unheard
      BY <2>2, <3>2 DEF OfLang
    <3> QED
      BY <3>1, <3>3 DEF SetTextInv
  <2> QED
    BY <2>1, <2>2
<1> QED
  BY <1>1, <1>3

LEMMA AddLineText ==
  ASSUME TextInv, NEW l \in Lang, NEW script \in Script, AddLine(l, script)
  PROVE  TextsKeep
<1> SUFFICES ASSUME NEW id \in Id, HasLine(id)
             PROVE  /\ HasLine(id)'
                    /\ id \notin reworded' => id \notin reworded /\ TextOf(id)' = TextOf(id)
  BY DEF TextsKeep
<1>1. source \in [Lang -> Seq(Line)] /\ id[1] \in Lang /\ id[2] \in Nat \ {0}
  BY DEF TextInv, HeardInv, TypeInv, TypeOK, Id
<1>2. PICK line : source' = [source EXCEPT ![l] = Append(source[l], line)]
  BY DEF AddLine
<1>3. reworded' = reworded
  BY DEF AddLine
<1>4. CASE id[1] = l
  <2>1. source'[id[1]] = Append(source[id[1]], line) /\ id[2] \in 1..Len(source[id[1]])
    BY <1>1, <1>2, <1>4 DEF HasLine
  <2>2. PICK lines \in Seq(Line) : lines = source[id[1]]
    BY <1>1
  <2>3. Len(Append(lines, line)) = Len(lines) + 1 /\ Append(lines, line)[id[2]] = lines[id[2]]
    BY <2>1, <2>2
  <2> QED
    BY <1>1, <1>3, <2>1, <2>2, <2>3 DEF HasLine, TextOf
<1>5. CASE id[1] # l
  BY <1>1, <1>2, <1>3, <1>5 DEF HasLine, TextOf
<1> QED
  BY <1>4, <1>5

LEMMA EditLineText ==
  ASSUME TextInv, NEW l \in Lang, NEW script \in Script, NEW i \in 1..Len(source[l]),
         EditLine(l, i, script)
  PROVE  TextsKeep
<1> SUFFICES ASSUME NEW id \in Id, HasLine(id)
             PROVE  /\ HasLine(id)'
                    /\ id \notin reworded' => id \notin reworded /\ TextOf(id)' = TextOf(id)
  BY DEF TextsKeep
<1>1. /\ source \in [Lang -> Seq(Line)] /\ source[l] \in Seq(Line)
      /\ source[l][i] \in Line /\ source[l][i].id = <<l, i>>
  BY ElementOfSeq DEF TextInv, HeardInv, TypeInv, TypeOK, SourceInv
<1>2. id[1] \in Lang /\ id[2] \in Nat \ {0} /\ id = <<id[1], id[2]>>
  BY DEF Id
<1>3. /\ source' = [source EXCEPT ![l] = [source[l] EXCEPT ![i].script = script]]
      /\ reworded' = IF script.text = source[l][i].script.text
                     THEN reworded ELSE reworded \cup {<<l, i>>}
  BY <1>1 DEF EditLine
<1>4. CASE id = <<l, i>>
  <2>0. id[1] = l /\ id[2] = i /\ i \in DOMAIN source[l]
    BY <1>1, <1>4
  <2>1. source'[id[1]][id[2]] = [source[l][i] EXCEPT !.script = script]
    <3>1. source'[l] = [source[l] EXCEPT ![i].script = script]
      BY <1>1, <1>3
    <3>2. source'[l][i] = [source[l][i] EXCEPT !.script = script]
      BY <2>0, <3>1
    <3> QED
      BY <2>0, <3>2
  <2>2. TextOf(id)' = script.text /\ TextOf(id) = source[l][i].script.text
    BY <1>1, <1>4, <2>1 DEF TextOf, Line
  <2>3. HasLine(id)'
    BY <1>1, <1>3, <1>4 DEF HasLine
  <2> QED
    BY <1>3, <1>4, <2>2, <2>3
<1>5. CASE id # <<l, i>>
  <2>1. id[1] # l \/ id[2] # i
    BY <1>2, <1>5
  <2>2. CASE id[1] # l
    BY <1>1, <1>2, <1>3, <1>5, <2>2 DEF HasLine, TextOf
  <2>3. CASE id[1] = l /\ id[2] # i
    BY <1>1, <1>2, <1>3, <1>5, <2>3 DEF HasLine, TextOf
  <2> QED
    BY <2>1, <2>2, <2>3
<1> QED
  BY <1>4, <1>5

LEMMA TextPreserved == TextInv /\ [Next]_vars => TextInv'
<1> SUFFICES ASSUME TextInv, [Next]_vars PROVE TextInv'
  OBVIOUS
<1>h. HeardInv' /\ HeardInv
  BY HeardPreserved DEF TextInv
<1>t. build \in Build
  BY <1>h DEF HeardInv, TypeInv, TypeOK
\* The step is not the build's.
<1>o. ASSUME TextsKeep, UNCHANGED <<build, clip, golden, unheard>> PROVE TextInv'
  <2>1. LinesTextInv' /\ RecordsTextInv'
    <3>1. CASE AtWork
      BY <1>o, <3>1, WorkTextStays
    <3>2. CASE ~AtWork
      BY <1>o, <3>2 DEF LinesTextInv, RecordsTextInv, AtWork
    <3> QED
      BY <3>1, <3>2
  <2>2. PcmTextInv'
    BY <1>o DEF TextInv, PcmTextInv, Current
  <2> QED
    BY <1>h, <1>o, <2>1, <2>2, DiskTextStays DEF TextInv
\* The step leaves the lines and the disk alone.
<1>w. ASSUME UNCHANGED <<source, reworded, clip, golden, unheard>>,
             LinesTextInv' /\ RecordsTextInv' /\ PcmTextInv'
      PROVE  TextInv'
  BY <1>h, <1>w, TextsStay, DiskTextStays DEF TextInv
<1>n. ASSUME UNCHANGED <<source, reworded, clip, golden, unheard>>, AtWork,
             build.at <= Len(build.lines), NEW made \in Seq(Record), NEW calm,
             NextLine(made, calm),
             \A r \in In(made) : r.id = Current.id /\ r.script = Current.script
      PROVE  TextInv'
  <2>1. build'.lines = build.lines
    BY <1>n, <1>t DEF NextLine, Build
  <2>2. LinesTextInv'
    BY <1>n, <2>1 DEF TextInv, LinesTextInv, HasLine, TextOf
  <2>3. \A r \in In(build.records) :
          HasLine(r.id)' /\ (r.id \notin reworded' => r.script.text = TextOf(r.id)')
    BY <1>n DEF TextInv, RecordsTextInv, HasLine, TextOf
  <2> QED
    BY <1>n, <1>w, <2>2, <2>3, NextLineText
<1>1. ASSUME NEW l \in Lang, NEW script \in Script, AddLine(l, script) PROVE TextInv'
  BY <1>1, <1>o, AddLineText DEF AddLine
<1>2. ASSUME NEW l \in Lang, NEW script \in Script, NEW i \in 1..Len(source[l]),
             EditLine(l, i, script)
      PROVE  TextInv'
  BY <1>2, <1>o, EditLineText DEF EditLine
<1>3. ASSUME NEW langs, NEW force, StartBuild(langs, force) PROVE TextInv'
  BY <1>3, <1>w, IdleText DEF StartBuild, Idle
<1>4. ASSUME NEW l \in Lang, LoadSource(l) PROVE TextInv'
  <2>1. /\ build'.pc = "line" /\ build'.lines = source[l] /\ build'.records = <<>>
        /\ UNCHANGED <<source, reworded, clip, golden, unheard>>
    BY <1>4 DEF LoadSource, Idle
  <2>2. LinesTextInv'
    <3> SUFFICES ASSUME NEW n \in 1..Len(source[l]), NEW line, line = source[l][n]
                 PROVE  HasLine(line.id) /\ line.script.text = TextOf(line.id)
      BY <2>1 DEF LinesTextInv, HasLine, TextOf
    <3>1. line.id = <<l, n>>
      BY <1>h DEF HeardInv, SourceInv
    <3>2. source[l] \in Seq(Line)
      BY <1>h DEF HeardInv, TypeInv, TypeOK
    <3> QED
      BY <3>1, <3>2 DEF HasLine, TextOf
  <2>3. RecordsTextInv' /\ PcmTextInv'
    BY <2>1, InNothing DEF RecordsTextInv, PcmTextInv
  <2> QED
    BY <1>w, <2>1, <2>2, <2>3
<1>5. CASE UseCached
  <2>1. /\ AtWork /\ build.at <= Len(build.lines)
        /\ UNCHANGED <<source, reworded, clip, golden, unheard>>
    BY <1>5 DEF UseCached, AtLine, AtWork
  <2>2. CASE clip[Current.id].file = "readable"
    <3>1. build'.pc = "qa" /\ build'.lines = build.lines /\ build'.records = build.records
      BY <1>5, <1>t, <2>2 DEF UseCached, Build
    <3> QED
      BY <1>w, <2>1, <3>1, TextsStay, WorkTextStays DEF PcmTextInv
  <2>3. CASE clip[Current.id].file # "readable"
    BY <1>5, <1>n, <2>1, <2>3, NothingMade, InNothing DEF UseCached
  <2> QED
    BY <2>2, <2>3
<1>6. ASSUME NEW said \in Heard, SynthesizeClip(said) PROVE TextInv'
  <2>1. AtWork /\ UNCHANGED <<source, reworded, clip, golden, unheard>>
    BY <1>6 DEF SynthesizeClip, AtLine, AtWork
  <2>2. /\ build'.lines = build.lines /\ build'.records = build.records /\ build'.at = build.at
        /\ build'.pcm.fed = Current.script.text
    BY <1>6, <1>t DEF SynthesizeClip, Build
  <2>3. PcmTextInv'
    BY <2>2 DEF PcmTextInv, Current
  <2> QED
    BY <1>w, <2>1, <2>2, <2>3, TextsStay, WorkTextStays
<1>7. CASE LineFails
  <2>1. /\ AtWork /\ build.at <= Len(build.lines) /\ NextLine(<<>>, FALSE)
        /\ UNCHANGED <<source, reworded, clip, golden, unheard>>
    BY <1>7 DEF LineFails, AtLine, AtWork
  <2> QED
    BY <1>n, <2>1, NothingMade, InNothing
<1>8. CASE WriteClip
  <2>1. build.pc = "write" /\ Puts(build.pcm) /\ UNCHANGED <<source, golden>>
    BY <1>8 DEF WriteClip
  <2>2. build'.pc = "qa" /\ build'.lines = build.lines /\ build'.records = build.records
    BY <1>8, <1>t DEF WriteClip, Build
  <2>3. RecordsTextInv'
    BY <2>1, <2>2, PutsText DEF RecordsTextInv
  <2> QED
    BY <1>h, <2>1, <2>2, <2>3, PutsText DEF TextInv, PcmTextInv
<1>9. CASE WriteFails
  <2>1. /\ build.pc = "write" /\ AtWork /\ build.at <= Len(build.lines)
        /\ NextLine(<<>>, FALSE) /\ UNCHANGED <<source, golden>>
    BY <1>9, <1>h DEF WriteFails, AtWork, HeardInv, TypeInv, AtInv
  <2>2. PICK file \in Remains : Puts(file)
    BY <1>9 DEF WriteFails
  <2>3. file.fed = build.pcm.fed
    BY <1>t DEF Remains, Build, Clip
  <2>4. build'.lines = build.lines
    BY <2>1, <1>t DEF NextLine, Build
  <2>5. RecordsTextInv' /\ PcmTextInv'
    BY <2>1, <2>2, <2>3, <2>4, PutsText, NextLineText, NothingMade, InNothing
  <2> QED
    BY <1>h, <2>1, <2>2, <2>3, <2>4, <2>5, PutsText DEF TextInv
<1>10. CASE Hears \/ HearsNothing
  <2>1. /\ AtWork /\ build.at <= Len(build.lines) /\ build.pc = "qa"
        /\ UNCHANGED <<source, reworded, clip, golden, unheard>>
    BY <1>10, <1>h DEF Hears, HearsNothing, AtWork, HeardInv, TypeInv, AtInv
  <2>2. ASSUME NEW heard \in Heard, NEW calm, NextLine(Verdict(heard), calm) PROVE TextInv'
    <3> DEFINE made == Verdict(heard)
    <3>1. made \in Seq(Record)
      BY <1>h, <2>1, VerdictType DEF HeardInv, TypeInv
    <3>2. \A r \in In(made) : r.id = Current.id /\ r.script = Current.script
      BY DEF Verdict, In
    <3>3. NextLine(made, calm)
      BY <2>2
    <3> HIDE DEF made
    <3> QED
      BY <1>n, <2>1, <3>1, <3>2, <3>3
  <2>3. build.pcm.says \in Heard /\ Empty \in Heard
    BY <1>t DEF Build, Clip, Heard
  <2>4. CASE \E heard \in Heard : \E calm : NextLine(Verdict(heard), calm)
    BY <2>2, <2>4
  <2>5. CASE build' = [build EXCEPT !.tries = build.tries + 1]
    <3>1. build'.pc = "qa" /\ build'.lines = build.lines /\ build'.records = build.records
      BY <1>t, <2>1, <2>5 DEF Build
    <3> QED
      BY <1>w, <2>1, <3>1, TextsStay, WorkTextStays DEF PcmTextInv
  <2> QED
    BY <1>10, <2>3, <2>4, <2>5 DEF Hears, HearsNothing
<1>11. CASE SaveSet
  <2>1. build'.pc \in {"idle", "language"} /\ build.records \in Seq(Record)
    BY <1>11, <1>t DEF SaveSet, Idle, Build
  <2>2. ClipTextInv' /\ SetTextInv'
    BY <1>11, <2>1, SetTextWritten DEF SaveSet, Holds
  <2> QED
    BY <1>h, <2>1, <2>2, IdleText DEF TextInv
<1>12. CASE DiesBetween
  BY <1>12, <1>w, IdleText DEF DiesBetween, Dies, Idle
<1>13. CASE DiesWritingClip
  <2>1. build.pc = "write" /\ build'.pc = "idle" /\ UNCHANGED <<source, golden>>
    BY <1>13 DEF DiesWritingClip, Dies, Idle
  <2>2. PICK file \in Remains : Puts(file)
    BY <1>13 DEF DiesWritingClip
  <2>3. file.fed = build.pcm.fed
    BY <1>t DEF Remains, Build, Clip
  <2> QED
    BY <1>h, <2>1, <2>2, <2>3, PutsText, IdleText DEF TextInv
<1>14. CASE DiesWritingSet
  <2>1. /\ build'.pc = "idle" /\ build.records \in Seq(Record) /\ build.pc = "line"
        /\ UNCHANGED <<source, clip, reworded>> /\ unheard' = unheard \ OfLang(build.lang)
    BY <1>14, <1>t DEF DiesWritingSet, Dies, Idle, Build
  <2>2. ClipTextInv' /\ SetTextInv'
    <3>1. CASE golden' = [golden EXCEPT ![build.lang] = Torn]
      BY <2>1, <3>1, SetTextWritten, NothingMade, InNothing DEF Torn
    <3>2. ASSUME NEW n \in 0..Len(build.records),
                 golden' = [golden EXCEPT ![build.lang] = Holds(SubSeq(build.records, 1, n))]
          PROVE  ClipTextInv' /\ SetTextInv'
      <4> DEFINE part == SubSeq(build.records, 1, n)
      <4>1. part \in Seq(Record) /\ In(part) \subseteq In(build.records)
        BY <2>1, SubSeqProperties DEF In
      <4> HIDE DEF part
      <4> QED
        BY <2>1, <3>2, <4>1, SetTextWritten DEF Holds, part
    <3> QED
      BY <1>14, <3>1, <3>2 DEF DiesWritingSet
  <2> QED
    BY <1>h, <2>1, <2>2, IdleText DEF TextInv
<1>15. ASSUME NEW l \in Lang, LoadGolden(l) \/ FinishEval(l) PROVE TextInv'
  BY <1>15, <1>o, TextsStay DEF LoadGolden, FinishEval
<1>16. ASSUME NEW r \in eval.todo, ReplayClip(r) PROVE TextInv'
  BY <1>16, <1>o, TextsStay DEF ReplayClip
<1>17. CASE UNCHANGED vars
  BY <1>17, <1>o, TextsStay DEF vars
<1> QED
  BY <1>1, <1>2, <1>3, <1>4, <1>5, <1>6, <1>7, <1>8, <1>9, <1>10, <1>11, <1>12, <1>13,
     <1>14, <1>15, <1>16, <1>17 DEF Next

LEMMA TextInitially == Init => TextInv
<1> SUFFICES ASSUME Init PROVE TextInv
  OBVIOUS
<1> QED
  BY HeardInitially DEF Init, Idle, NoClip, Holds, In, AtWork, TextInv, ClipTextInv, LinesTextInv,
                        RecordsTextInv, SetTextInv, PcmTextInv

\* Whatever is edited, killed, throttled or built in part, a usable record's clip is
\* heard near its romanization, and was made from the text that is scored against it
\* unless that text was edited after; a clip written over since the set was is excepted
\* (buildRecord's gate, which looks at the romanization only).
THEOREM UsableClipsAreHeard == Spec => []UsableIsHeard
<1>1. Init => TextInv
  BY TextInitially
<1>2. TextInv /\ [Next]_vars => TextInv'
  BY TextPreserved
<1>3. TextInv => UsableIsHeard
  <2> SUFFICES ASSUME TextInv, NEW l \in Lang, NEW r \in In(golden[l].records),
                      r.usable, r.id \notin unheard
               PROVE  /\ Says(r.id, r.script.romanized)
                      /\ r.id \notin reworded => clip[r.id].fed = r.script.text
    BY DEF UsableIsHeard, In
  <2>1. Says(r.id, r.script.romanized)
    BY DEF TextInv, HeardInv, UsableSays
  <2>2. r.id \in Id
    BY RecordIds DEF TextInv, HeardInv, TypeInv
  <2>3. r.id \notin reworded => clip[r.id].fed = TextOf(r.id)
    BY <2>1, <2>2 DEF TextInv, ClipTextInv, Says
  <2>4. r.id \notin reworded => r.script.text = TextOf(r.id)
    BY DEF TextInv, SetTextInv
  <2> QED
    BY <2>1, <2>3, <2>4
<1> QED
  BY <1>1, <1>2, <1>3, PTL DEF Spec

-----------------------------------------------------------------------------
(* A calm build repairs. *)

\* As long as a build is calm, every line it has passed has a clip, and a usable
\* record if the clip says its romanization.
CalmInv ==
  AtWork /\ build.calm =>
    \A n \in 1..Len(build.lines) : n < build.at =>
      LET line == build.lines[n] IN
        /\ clip[line.id].file # "none"
        /\ Says(line.id, line.script.romanized) =>
             [id |-> line.id, script |-> line.script, usable |-> TRUE] \in In(build.records)

\* A record is of one of the build's lines.
OfLinesInv ==
  AtWork => \A r \in In(build.records) : \E n \in 1..Len(build.lines) :
              build.lines[n] = [id |-> r.id, script |-> r.script]

\* A language is repaired only as long as the lines a build has of it are its source's.
SameLinesInv == AtWork /\ build.lang \in repaired => build.lines = source[build.lang]

FilesInv == \A l \in repaired : \A n \in 1..Len(source[l]) : clip[source[l][n].id].file # "none"

\* A build that is not forced writes no clip that is there.
FreshInv == build.pc = "write" /\ ~build.force => clip[Current.id].file = "none"

RepairInv ==
  /\ HeardInv
  /\ CalmInv /\ OfLinesInv /\ SameLinesInv /\ FilesInv /\ FreshInv
  /\ CalmBuildRepairs

\* A clip that is written is not one of a repaired language, or its language is no
\* longer repaired.
LEMMA PutsUntouched ==
  ASSUME RepairInv, build.pc = "write", NEW file, Puts(file), NEW l \in repaired', l \in Lang
  PROVE  /\ l \in repaired
         /\ \A id \in OfLang(l) : clip'[id] = clip[id]
<1> USE DEF RepairInv
<1>1. AtWork /\ build.at \in 1..Len(build.lines)
  BY DEF AtWork, HeardInv, TypeInv, AtInv, TypeOK, Build
<1>2. Current.id = <<build.lang, build.at>> /\ Current.id \in Id
  BY <1>1, CurrentId
<1>3. clip \in [Id -> Clip] /\ clip' = [clip EXCEPT ![Current.id] = file]
  BY DEF Puts, HeardInv, TypeInv, TypeOK
<1>4. l \in repaired /\ (build.force => l # build.lang)
  BY DEF Puts, Disturbed
<1>5. l # build.lang
  <2> SUFFICES ASSUME ~build.force, l = build.lang PROVE FALSE
    BY <1>4
  <2>1. build.lines = source[l]
    BY <1>1, <1>4 DEF SameLinesInv
  <2>2. clip[source[l][build.at].id].file # "none"
    BY <1>1, <1>4, <2>1 DEF FilesInv
  <2> QED
    BY <2>1, <2>2 DEF FreshInv, Current
<1> QED
  BY <1>2, <1>3, <1>4, <1>5 DEF OfLang

\* Whatever happens to the lines or the clips of a language ends its being repaired.
LEMMA RepairedIsUntouched ==
  ASSUME RepairInv, [Next]_vars, NEW l \in repaired'
  PROVE  source'[l] = source[l] /\ \A id \in OfLang(l) : clip'[id] = clip[id]
<1> USE DEF RepairInv
<1>0. l \in Lang /\ source \in [Lang -> Seq(Line)]
  <2>1. TypeInv'
    BY TypePreserved DEF HeardInv
  <2> QED
    BY <2>1 DEF TypeInv, TypeOK, HeardInv
<1>1. ASSUME NEW m \in Lang, NEW script \in Script, AddLine(m, script) PROVE source'[l] = source[l] /\ UNCHANGED clip
  BY <1>0, <1>1 DEF AddLine, Disturbed
<1>2. ASSUME NEW m \in Lang, NEW i, NEW script, EditLine(m, i, script)
      PROVE  source'[l] = source[l] /\ UNCHANGED clip
  BY <1>0, <1>2 DEF EditLine, Disturbed
<1>3. CASE WriteClip \/ WriteFails \/ DiesWritingClip
  <2>1. build.pc = "write" /\ UNCHANGED source
    BY <1>3 DEF WriteClip, WriteFails, DiesWritingClip, Dies
  <2>2. \E file : Puts(file)
    BY <1>3 DEF WriteClip, WriteFails, DiesWritingClip
  <2> QED
    BY <1>0, <2>1, <2>2, PutsUntouched
<1>4. ASSUME NEW langs, NEW force, StartBuild(langs, force) PROVE UNCHANGED <<source, clip>>
  BY <1>4 DEF StartBuild
<1>5. ASSUME NEW m, LoadSource(m) \/ LoadGolden(m) \/ FinishEval(m) PROVE UNCHANGED <<source, clip>>
  BY <1>5 DEF LoadSource, LoadGolden, FinishEval
<1>6. ASSUME NEW said, SynthesizeClip(said) PROVE UNCHANGED <<source, clip>>
  BY <1>6 DEF SynthesizeClip
<1>7. ASSUME NEW r, ReplayClip(r) PROVE UNCHANGED <<source, clip>>
  BY <1>7 DEF ReplayClip
<1>8. CASE UseCached \/ LineFails \/ Hears \/ HearsNothing \/ SaveSet \/ DiesBetween \/ DiesWritingSet
  BY <1>8 DEF UseCached, LineFails, Hears, HearsNothing, SaveSet, DiesBetween, DiesWritingSet, Dies
<1>9. CASE UNCHANGED vars
  BY <1>9 DEF vars
<1> QED
  BY <1>1, <1>2, <1>3, <1>4, <1>5, <1>6, <1>7, <1>8, <1>9 DEF Next

\* A language that stays repaired, with its set as it was, stays so for good reason.
LEMMA RepairedStays ==
  ASSUME RepairInv, [Next]_vars, UNCHANGED golden, repaired' \subseteq repaired
  PROVE  CalmBuildRepairs' /\ FilesInv'
<1> USE DEF RepairInv
<1>1. CalmBuildRepairs'
  <2> SUFFICES ASSUME NEW l \in repaired', NEW id \in OfLang(l), NEW script \in Script
               PROVE  (\E n \in 1..Len(golden'[l].records) :
                          golden'[l].records[n] = [id |-> id, script |-> script, usable |-> TRUE])
                      <=> /\ \E n \in 1..Len(source'[l]) : source'[l][n] = [id |-> id, script |-> script]
                          /\ Says(id, script.romanized)'
    BY DEF CalmBuildRepairs, OfLang
  <2>1. source'[l] = source[l] /\ clip'[id] = clip[id]
    BY RepairedIsUntouched
  <2>2. Says(id, script.romanized)' <=> Says(id, script.romanized)
    BY <2>1 DEF Says, Near
  <2> QED
    BY <2>1, <2>2 DEF CalmBuildRepairs
<1>2. FilesInv'
  <2> SUFFICES ASSUME NEW l \in repaired', NEW n \in 1..Len(source'[l])
               PROVE  clip'[source'[l][n].id].file # "none"
    BY DEF FilesInv
  <2>1. source'[l] = source[l] /\ \A id \in OfLang(l) : clip'[id] = clip[id]
    BY RepairedIsUntouched
  <2>2. source[l][n] \in Line /\ source[l][n].id = <<l, n>>
    BY <2>1, ElementOfSeq DEF HeardInv, TypeInv, TypeOK, SourceInv
  <2>3. source[l][n].id \in OfLang(l)
    BY <2>2 DEF Line, OfLang
  <2> QED
    BY <2>1, <2>3 DEF FilesInv
<1> QED
  BY <1>1, <1>2

\* A step of others than the build, or one that keeps the build where it is.
LEMMA WorkStays ==
  ASSUME RepairInv, [Next]_vars, UNCHANGED <<build, clip>>, repaired' \subseteq repaired
  PROVE  CalmInv' /\ OfLinesInv' /\ SameLinesInv' /\ FreshInv'
<1> USE DEF RepairInv
<1>1. CalmInv' /\ OfLinesInv' /\ FreshInv'
  BY DEF CalmInv, OfLinesInv, FreshInv, AtWork, Says, Near, Current
<1>2. SameLinesInv'
  BY RepairedIsUntouched DEF SameLinesInv, AtWork
<1> QED
  BY <1>1, <1>2

LEMMA NotAtWork ==
  ASSUME build'.pc \in {"idle", "language"}
  PROVE  CalmInv' /\ OfLinesInv' /\ SameLinesInv' /\ FreshInv'
BY DEF CalmInv, OfLinesInv, SameLinesInv, FreshInv, AtWork

\* The clips of the lines that a build has passed are not touched by a write at hand.
PassedStay == \A n \in 1..Len(build.lines) : n < build.at =>
                 clip'[build.lines[n].id] = clip[build.lines[n].id]

LEMMA PutsLeavesPassed ==
  ASSUME RepairInv, AtWork, build.at <= Len(build.lines), NEW file, Puts(file)
  PROVE  PassedStay
<1> SUFFICES ASSUME NEW n \in 1..Len(build.lines), n < build.at
             PROVE  clip'[build.lines[n].id] = clip[build.lines[n].id]
  BY DEF PassedStay
<1>1. Current.id = <<build.lang, build.at>> /\ build.lines[n].id = <<build.lang, n>>
  BY CurrentId DEF RepairInv, HeardInv, LinesInv
<1>2. build.lines \in Seq(Line) /\ clip \in [Id -> Clip]
  BY DEF RepairInv, HeardInv, TypeInv, TypeOK, Build
<1>3. build.lines[n].id \in Id
  <2>1. build.lines[n] \in Line
    BY <1>2, ElementOfSeq
  <2> QED
    BY <2>1 DEF Line
<1>4. build.lines[n].id # Current.id
  BY <1>1 DEF RepairInv, HeardInv, TypeInv, TypeOK, Build
<1> QED
  BY <1>2, <1>3, <1>4 DEF Puts

\* A step within a line.
LEMMA WithinLine ==
  ASSUME RepairInv, [Next]_vars, AtWork, PassedStay, repaired' \subseteq repaired,
         build'.lang = build.lang, build'.lines = build.lines, build'.at = build.at,
         build'.records = build.records, build'.calm = build.calm
  PROVE  CalmInv' /\ OfLinesInv' /\ SameLinesInv'
<1> USE DEF RepairInv
<1>1. CalmInv'
  <2> SUFFICES ASSUME build.calm, NEW n \in 1..Len(build.lines), n < build.at,
                      NEW line, line = build.lines[n]
               PROVE  /\ clip'[line.id].file # "none"
                      /\ Says(line.id, line.script.romanized)' =>
                           [id |-> line.id, script |-> line.script, usable |-> TRUE]
                              \in In(build.records)
    BY DEF CalmInv
  <2>1. clip'[line.id] = clip[line.id]
    BY DEF PassedStay
  <2> QED
    BY <2>1 DEF CalmInv, Says, Near
<1>2. OfLinesInv'
  BY DEF OfLinesInv
<1>3. SameLinesInv'
  BY RepairedIsUntouched DEF SameLinesInv
<1> QED
  BY <1>1, <1>2, <1>3

\* Going on to the next line: what was made of this one has to account for it.
LEMMA LinePassed ==
  ASSUME RepairInv, [Next]_vars, AtWork, build.at <= Len(build.lines), PassedStay,
         repaired' \subseteq repaired,
         NEW made \in Seq(Record), NEW calm, NextLine(made, calm),
         NEW this, this = Current,
         \A r \in In(made) : r.id = this.id /\ r.script = this.script,
         calm => /\ build.calm
                 /\ clip'[this.id].file # "none"
                 /\ Says(this.id, this.script.romanized)' =>
                      [id |-> this.id, script |-> this.script, usable |-> TRUE] \in In(made)
  PROVE  CalmInv' /\ OfLinesInv' /\ SameLinesInv' /\ FreshInv'
<1> USE DEF RepairInv
<1>1. build \in Build /\ build.at \in 1..Len(build.lines) /\ build.records \in Seq(Record)
  BY DEF HeardInv, TypeInv, TypeOK, Build
<1>2. /\ build'.pc = "line" /\ build'.lang = build.lang /\ build'.lines = build.lines
      /\ build'.at = build.at + 1 /\ build'.records = build.records \o made
      /\ build'.calm = calm
  BY <1>1 DEF NextLine, Build
<1>3. In(build'.records) = In(build.records) \cup In(made)
  BY <1>1, <1>2, InConcat
<1>4. CalmInv'
  <2> SUFFICES ASSUME calm, NEW n \in 1..Len(build.lines), n < build.at + 1,
                      NEW line, line = build.lines[n]
               PROVE  /\ clip'[line.id].file # "none"
                      /\ Says(line.id, line.script.romanized)' =>
                           [id |-> line.id, script |-> line.script, usable |-> TRUE]
                              \in In(build'.records)
    BY <1>2 DEF CalmInv
  <2>1. CASE n = build.at
    BY <1>3, <2>1 DEF Current
  <2>2. CASE n # build.at
    <3>1. n < build.at
      BY <1>1, <2>2
    <3>2. clip'[line.id] = clip[line.id]
      BY <3>1 DEF PassedStay
    <3> QED
      BY <1>3, <3>1, <3>2 DEF CalmInv, Says, Near
  <2> QED
    BY <2>1, <2>2
<1>5. OfLinesInv'
  <2> SUFFICES ASSUME NEW r \in In(build'.records)
               PROVE  \E n \in 1..Len(build.lines) : build.lines[n] = [id |-> r.id, script |-> r.script]
    BY <1>2 DEF OfLinesInv
  <2>1. CASE r \in In(build.records)
    BY <2>1 DEF OfLinesInv
  <2>2. CASE r \in In(made)
    <3>1. build.lines[build.at] \in Line
      BY <1>1, ElementOfSeq DEF Build
    <3>2. build.lines[build.at] = [id |-> r.id, script |-> r.script]
      BY <2>2, <3>1 DEF Current, Line
    <3> QED
      BY <1>1, <3>2
  <2> QED
    BY <1>3, <2>1, <2>2
<1>6. SameLinesInv'
  BY <1>2, RepairedIsUntouched DEF SameLinesInv
<1>7. FreshInv'
  BY <1>2 DEF FreshInv
<1> QED
  BY <1>4, <1>5, <1>6, <1>7

\* What a calm build has made of the lines of a language is their set.
LEMMA SetOfLines ==
  ASSUME RepairInv, build.pc = "line", build.at > Len(build.lines), build.calm,
         build.lines = source[build.lang], NEW id \in OfLang(build.lang), NEW script \in Script
  PROVE  (\E n \in 1..Len(build.records) :
             build.records[n] = [id |-> id, script |-> script, usable |-> TRUE])
         <=> /\ \E n \in 1..Len(build.lines) : build.lines[n] = [id |-> id, script |-> script]
             /\ Says(id, script.romanized)
<1> USE DEF RepairInv
<1> DEFINE rec == [id |-> id, script |-> script, usable |-> TRUE]
<1>1. AtWork /\ build.at \in Nat
  BY DEF AtWork, HeardInv, TypeInv, TypeOK, Build
<1>2. ASSUME rec \in In(build.records)
      PROVE  /\ \E n \in 1..Len(build.lines) : build.lines[n] = [id |-> id, script |-> script]
             /\ Says(id, script.romanized)
  <2>1. \E n \in 1..Len(build.lines) : build.lines[n] = [id |-> rec.id, script |-> rec.script]
    BY <1>1, <1>2 DEF OfLinesInv
  <2>2. Vouched(rec)
    BY <1>1, <1>2 DEF HeardInv, RecordsInv
  <2> QED
    BY <2>1, <2>2 DEF Vouched
<1>3. ASSUME NEW n \in 1..Len(build.lines), build.lines[n] = [id |-> id, script |-> script], Says(id, script.romanized)
      PROVE  rec \in In(build.records)
  <2>1. n < build.at
    BY <1>1
  <2> QED
    BY <1>1, <1>3, <2>1 DEF CalmInv
<1> QED
  BY <1>2, <1>3 DEF In

LEMMA SaveRepairs ==
  ASSUME RepairInv, [Next]_vars, SaveSet
  PROVE  CalmBuildRepairs' /\ FilesInv'
<1> USE DEF RepairInv
<1>0. build.lang \in Lang /\ golden \in [Lang -> Set] /\ repaired \subseteq Lang
  BY DEF HeardInv, TypeInv, TypeOK, Build
<1>1. /\ golden' = [golden EXCEPT ![build.lang] = Holds(build.records)]
      /\ UNCHANGED <<source, clip>>
      /\ build.pc = "line" /\ build.at > Len(build.lines)
  BY DEF SaveSet
<1>2. golden'[build.lang].records = build.records
  BY <1>0, <1>1 DEF Holds
<1>3. ASSUME NEW l \in Lang, l # build.lang PROVE golden'[l] = golden[l]
  BY <1>0, <1>1, <1>3
<1>4. \/ build.calm /\ build.lines = source[build.lang] /\ repaired' = repaired \cup {build.lang}
      \/ repaired' = repaired \ {build.lang}
  BY DEF SaveSet, Disturbed
<1>5. CalmBuildRepairs'
  <2> SUFFICES ASSUME NEW l \in repaired', NEW id \in OfLang(l), NEW script \in Script
               PROVE  (\E n \in 1..Len(golden'[l].records) :
                          golden'[l].records[n] = [id |-> id, script |-> script, usable |-> TRUE])
                      <=> /\ \E n \in 1..Len(source[l]) : source[l][n] = [id |-> id, script |-> script]
                          /\ Says(id, script.romanized)'
    BY <1>1 DEF CalmBuildRepairs, OfLang
  <2>1. Says(id, script.romanized)' <=> Says(id, script.romanized)
    BY <1>1 DEF Says, Near
  <2>2. CASE l = build.lang
    BY <1>1, <1>2, <1>4, <2>1, <2>2, SetOfLines
  <2>3. CASE l # build.lang
    BY <1>0, <1>3, <1>4, <2>1, <2>3 DEF CalmBuildRepairs
  <2> QED
    BY <2>2, <2>3
<1>6. FilesInv'
  <2> SUFFICES ASSUME NEW l \in repaired', NEW n \in 1..Len(source[l])
               PROVE  clip[source[l][n].id].file # "none"
    BY <1>1 DEF FilesInv
  <2>1. CASE l = build.lang
    <3>1. AtWork /\ build.calm /\ n \in 1..Len(build.lines) /\ n < build.at
          /\ source[l] = build.lines
      BY <1>1, <1>4, <2>1 DEF AtWork, HeardInv, TypeInv, TypeOK, Build
    <3> QED
      BY <3>1 DEF CalmInv
  <2>2. CASE l # build.lang
    BY <1>4, <2>2 DEF FilesInv
  <2> QED
    BY <2>1, <2>2
<1> QED
  BY <1>5, <1>6

LEMMA RepairPreserved == RepairInv /\ [Next]_vars => RepairInv'
<1> SUFFICES ASSUME RepairInv, [Next]_vars PROVE RepairInv'
  OBVIOUS
<1>h. HeardInv' /\ HeardInv
  BY HeardPreserved DEF RepairInv
<1>t. build \in Build
  BY <1>h DEF HeardInv, TypeInv, TypeOK
<1> DEFINE Work == CalmInv /\ OfLinesInv /\ SameLinesInv /\ FreshInv
<1>u. ASSUME UNCHANGED golden, repaired' \subseteq repaired, Work' PROVE RepairInv'
  BY <1>h, <1>u, RepairedStays DEF RepairInv
<1>p. ASSUME AtWork, UNCHANGED clip PROVE PassedStay
  BY <1>p DEF PassedStay
<1>1. ASSUME NEW l \in Lang, NEW script \in Script, AddLine(l, script) PROVE RepairInv'
  BY <1>1, <1>u, WorkStays DEF AddLine, Disturbed
<1>2. ASSUME NEW l \in Lang, NEW script \in Script, NEW i \in 1..Len(source[l]), EditLine(l, i, script)
      PROVE  RepairInv'
  BY <1>2, <1>u, WorkStays DEF EditLine, Disturbed
<1>3. ASSUME NEW langs, NEW force, StartBuild(langs, force) PROVE RepairInv'
  BY <1>3, <1>u, NotAtWork DEF StartBuild, Idle
<1>4. ASSUME NEW l \in Lang, LoadSource(l) PROVE RepairInv'
  <2>1. /\ build'.pc = "line" /\ build'.lines = source[l] /\ build'.lang = l
        /\ build'.records = <<>> /\ build'.at = 1 /\ UNCHANGED <<source, golden, repaired>>
    BY <1>4 DEF LoadSource, Idle
  <2>2. Work'
    BY <2>1, InNothing DEF CalmInv, OfLinesInv, SameLinesInv, FreshInv
  <2> QED
    BY <1>u, <2>1, <2>2
<1>5. CASE UseCached
  <2>1. /\ AtWork /\ build.at <= Len(build.lines) /\ UNCHANGED <<clip, golden, repaired>>
        /\ clip[Current.id].file # "none"
    BY <1>5 DEF UseCached, AtLine, AtWork, Cached
  <2>2. CASE clip[Current.id].file = "readable"
    <3>1. build' = [build EXCEPT !.pc = "qa", !.pcm = clip[Current.id]]
      BY <1>5, <2>2 DEF UseCached
    <3>2. /\ build'.pc = "qa" /\ build'.lines = build.lines /\ build'.lang = build.lang
          /\ build'.at = build.at /\ build'.records = build.records /\ build'.calm = build.calm
      BY <1>t, <3>1 DEF Build
    <3>3. FreshInv'
      BY <3>2 DEF FreshInv
    <3> QED
      BY <1>p, <1>u, <2>1, <3>2, <3>3, WithinLine
  <2>3. CASE clip[Current.id].file # "readable"
    <3>1. PICK this : this = Current
      OBVIOUS
    <3>2. NextLine(<<>>, build.calm)
      BY <1>5, <2>3 DEF UseCached
    <3>3. clip'[this.id].file # "none" /\ ~Says(this.id, this.script.romanized)'
      BY <2>1, <2>3, <3>1 DEF Says
    <3>4. /\ <<>> \in Seq(Record) /\ \A r \in In(<<>>) : r.id = this.id /\ r.script = this.script
          /\ build.calm => /\ build.calm /\ clip'[this.id].file # "none"
                           /\ Says(this.id, this.script.romanized)' =>
                                [id |-> this.id, script |-> this.script, usable |-> TRUE] \in In(<<>>)
      BY <3>3, NothingMade, InNothing
    <3>5. Work'
      <4>1. PICK made, calm : made = <<>> /\ calm = build.calm
        OBVIOUS
      <4>2. /\ made \in Seq(Record) /\ NextLine(made, calm)
            /\ \A r \in In(made) : r.id = this.id /\ r.script = this.script
            /\ calm => /\ build.calm /\ clip'[this.id].file # "none"
                       /\ Says(this.id, this.script.romanized)' =>
                            [id |-> this.id, script |-> this.script, usable |-> TRUE] \in In(made)
        BY <3>2, <3>4, <4>1
      <4> QED
        BY <1>p, <2>1, <3>1, <4>2, LinePassed
    <3> QED
      BY <1>u, <2>1, <3>5
  <2> QED
    BY <2>2, <2>3
<1>6. ASSUME NEW said \in Heard, SynthesizeClip(said) PROVE RepairInv'
  <2>1. AtWork /\ UNCHANGED <<clip, golden, repaired>>
    BY <1>6 DEF SynthesizeClip, AtLine, AtWork
  <2>2. /\ build'.pc = "write" /\ build'.lines = build.lines /\ build'.lang = build.lang
        /\ build'.at = build.at /\ build'.records = build.records /\ build'.calm = build.calm
        /\ build'.force = build.force
    BY <1>6, <1>t DEF SynthesizeClip, Build
  <2>3. FreshInv'
    BY <1>6, <2>1, <2>2 DEF FreshInv, SynthesizeClip, Cached, Current
  <2> QED
    BY <1>p, <1>u, <2>1, <2>2, <2>3, WithinLine
<1>7. CASE LineFails
  <2>1. /\ AtWork /\ build.at <= Len(build.lines) /\ UNCHANGED <<clip, golden, repaired>>
        /\ NextLine(<<>>, FALSE)
    BY <1>7 DEF LineFails, AtLine, AtWork
  <2>2. Work'
    BY <1>p, <2>1, LinePassed, NothingMade, InNothing
  <2> QED
    BY <1>u, <2>1, <2>2
<1>8. CASE WriteClip
  <2>1. AtWork /\ build.at <= Len(build.lines) /\ Puts(build.pcm) /\ UNCHANGED golden
    BY <1>8, <1>h DEF WriteClip, AtWork, HeardInv, TypeInv, AtInv
  <2>2. repaired' \subseteq repaired
    BY <2>1 DEF Puts, Disturbed
  <2>3. /\ build'.pc = "qa" /\ build'.lines = build.lines /\ build'.lang = build.lang
        /\ build'.at = build.at /\ build'.records = build.records /\ build'.calm = build.calm
    BY <1>8, <1>t DEF WriteClip, Build
  <2>4. FreshInv'
    BY <2>3 DEF FreshInv
  <2> QED
    BY <1>u, <2>1, <2>2, <2>3, <2>4, PutsLeavesPassed, WithinLine
<1>9. CASE WriteFails
  <2>1. /\ AtWork /\ build.at <= Len(build.lines) /\ UNCHANGED golden
        /\ NextLine(<<>>, FALSE)
    BY <1>9, <1>h DEF WriteFails, AtWork, HeardInv, TypeInv, AtInv
  <2>2. PICK file \in Remains : Puts(file)
    BY <1>9 DEF WriteFails
  <2>3. repaired' \subseteq repaired
    BY <2>2 DEF Puts, Disturbed
  <2>4. Work'
    BY <2>1, <2>2, <2>3, PutsLeavesPassed, LinePassed, NothingMade, InNothing
  <2> QED
    BY <1>u, <2>1, <2>3, <2>4
<1>10. CASE Hears
  <2> DEFINE made == Verdict(build.pcm.says)
  <2>1. /\ AtWork /\ build.at <= Len(build.lines) /\ UNCHANGED <<clip, golden, repaired>>
        /\ clip[Current.id] = build.pcm /\ build.pcm.file = "readable"
        /\ NextLine(made, build.calm)
    BY <1>10, <1>h DEF Hears, AtWork, HeardInv, TypeInv, AtInv, HeldInv
  <2>2. made \in Seq(Record)
    BY <1>h, <1>t, <2>1, VerdictType DEF HeardInv, TypeInv, Build, Clip
  <2>3. PICK this : this = Current
    OBVIOUS
  <2>4. In(made) = {[id |-> this.id, script |-> this.script,
                     usable |-> Near(this.script.romanized, build.pcm.says)]}
    BY <2>3 DEF Verdict, In
  <2>5. Says(this.id, this.script.romanized)' => Near(this.script.romanized, build.pcm.says)
    BY <2>1, <2>3 DEF Says, Near
  <2>6. Near(this.script.romanized, build.pcm.says) \in BOOLEAN /\ clip'[this.id].file # "none"
    BY <2>1, <2>3 DEF Near
  <2> HIDE DEF made
  <2>7. /\ \A r \in In(made) : r.id = this.id /\ r.script = this.script
        /\ Says(this.id, this.script.romanized)' =>
              [id |-> this.id, script |-> this.script, usable |-> TRUE] \in In(made)
    <3>1. PICK near \in BOOLEAN : near = Near(this.script.romanized, build.pcm.says)
      BY <2>6
    <3>2. In(made) = {[id |-> this.id, script |-> this.script, usable |-> near]}
      BY <2>4, <3>1
    <3>3. Says(this.id, this.script.romanized)' => near = TRUE
      BY <2>5, <3>1
    <3>4. \A r \in In(made) : r.id = this.id /\ r.script = this.script
      BY <3>2
    <3>5. near = TRUE => [id |-> this.id, script |-> this.script, usable |-> TRUE] \in In(made)
      BY <3>2
    <3> QED
      BY <3>3, <3>4, <3>5
  <2>8. Work'
    BY <1>p, <2>1, <2>2, <2>3, <2>6, <2>7, LinePassed
  <2> QED
    BY <1>u, <2>1, <2>8
<1>11. CASE HearsNothing
  <2> DEFINE tries == build.tries + 1
             made  == Verdict(Empty)
  <2>1. AtWork /\ build.at <= Len(build.lines) /\ UNCHANGED <<clip, golden, repaired>>
    BY <1>11, <1>h DEF HearsNothing, AtWork, HeardInv, TypeInv, AtInv
  <2>2. CASE GivesUp(tries)
    <3>1. ~(build.calm /\ tries < QaTries)
      BY <1>t, <2>2, GoldenConstants DEF GivesUp, Build
    <3>2. NextLine(made, build.calm /\ tries < QaTries)
      BY <1>11, <2>2 DEF HearsNothing
    <3>3. made \in Seq(Record)
      BY <1>h, <2>1, VerdictType DEF HeardInv, TypeInv, Heard
    <3>4. PICK this : this = Current
      OBVIOUS
    <3>5. \A r \in In(made) : r.id = this.id /\ r.script = this.script
      BY <3>4 DEF Verdict, In
    <3> HIDE DEF made
    <3>6. Work'
      BY <1>p, <2>1, <3>1, <3>2, <3>3, <3>4, <3>5, LinePassed
    <3> QED
      BY <1>u, <2>1, <3>6
  <2>3. CASE ~GivesUp(tries)
    <3>1. build' = [build EXCEPT !.tries = tries] /\ build.pc = "qa"
      BY <1>11, <2>3 DEF HearsNothing
    <3>2. /\ build'.pc = "qa" /\ build'.lines = build.lines /\ build'.lang = build.lang
          /\ build'.at = build.at /\ build'.records = build.records /\ build'.calm = build.calm
      BY <1>t, <3>1 DEF Build
    <3>3. FreshInv'
      BY <3>2 DEF FreshInv
    <3> QED
      BY <1>p, <1>u, <2>1, <3>2, <3>3, WithinLine
  <2> QED
    BY <2>2, <2>3
<1>12. CASE SaveSet
  <2>1. build'.pc \in {"idle", "language"}
    BY <1>12, <1>t DEF SaveSet, Idle, Build
  <2> QED
    BY <1>h, <1>12, <2>1, SaveRepairs, NotAtWork DEF RepairInv
<1>13. CASE DiesBetween
  BY <1>13, <1>u, NotAtWork DEF DiesBetween, Dies, Idle
<1>14. CASE DiesWritingClip
  <2>1. build'.pc = "idle" /\ UNCHANGED golden
    BY <1>14 DEF DiesWritingClip, Dies, Idle
  <2>2. repaired' \subseteq repaired
    BY <1>14 DEF DiesWritingClip, Puts, Disturbed
  <2> QED
    BY <1>u, <2>1, <2>2, NotAtWork
<1>15. CASE DiesWritingSet
  <2>1. /\ build'.pc = "idle" /\ repaired' = repaired \ {build.lang}
        /\ UNCHANGED <<source, clip>>
    BY <1>15 DEF DiesWritingSet, Dies, Idle, Disturbed
  <2>2. \A l \in repaired' : golden'[l] = golden[l] /\ l \in Lang
    BY <1>15, <1>h, <2>1 DEF DiesWritingSet, HeardInv, TypeInv, TypeOK
  <2>3. CalmBuildRepairs'
    BY <2>1, <2>2 DEF RepairInv, CalmBuildRepairs, OfLang, Says, Near
  <2>4. FilesInv'
    BY <2>1 DEF RepairInv, FilesInv
  <2> QED
    BY <1>h, <2>1, <2>3, <2>4, NotAtWork DEF RepairInv
<1>16. ASSUME NEW l \in Lang, LoadGolden(l) \/ FinishEval(l) PROVE RepairInv'
  BY <1>16, <1>u, WorkStays DEF LoadGolden, FinishEval
<1>17. ASSUME NEW r \in eval.todo, ReplayClip(r) PROVE RepairInv'
  BY <1>17, <1>u, WorkStays DEF ReplayClip
<1>18. CASE UNCHANGED vars
  BY <1>18, <1>u, WorkStays DEF vars
<1> QED
  BY <1>1, <1>2, <1>3, <1>4, <1>5, <1>6, <1>7, <1>8, <1>9, <1>10, <1>11, <1>12, <1>13,
     <1>14, <1>15, <1>16, <1>17, <1>18 DEF Next

LEMMA RepairInitially == Init => RepairInv
<1> SUFFICES ASSUME Init PROVE RepairInv
  OBVIOUS
<1> QED
  BY HeardInitially DEF Init, Idle, RepairInv, CalmInv, OfLinesInv, SameLinesInv, FilesInv,
                        FreshInv, AtWork, CalmBuildRepairs

\* What a throttled, failed or killed build left out of a set or in quarantine, a calm
\* one brings back, and after it the set is its lines that are heard (qaWithRetry).
THEOREM CalmBuildsRepair == Spec => []CalmBuildRepairs
<1>1. Init => RepairInv
  BY RepairInitially
<1>2. RepairInv /\ [Next]_vars => RepairInv'
  BY RepairPreserved
<1>3. RepairInv => CalmBuildRepairs
  BY DEF RepairInv
<1> QED
  BY <1>1, <1>2, <1>3, PTL DEF Spec
-----------------------------------------------------------------------------
(* Two evaluations of a language that is let be score the same. *)

Usable(l) == {r \in In(golden[l].records) : r.usable}

Score(r) == [id |-> r.id, script |-> r.script, take |-> clip[r.id].take]

\* What an evaluation has still to replay, and what it has scored, are the usable
\* records of the set, against the clips as they are.
EvalInv ==
  /\ \A l, m \in eval.on : l = m
  /\ eval.since => \A l \in eval.on :
       /\ l \in repaired
       /\ eval.todo \subseteq Usable(l)
       /\ eval.got = {Score(r) : r \in Usable(l) \ eval.todo}

SteadyInv ==
  \A l \in steady : /\ l \in repaired
                    /\ baseline[l] = {Score(r) : r \in Usable(l)}
                    /\ l \in eval.on => eval.since

ScoreInv == RepairInv /\ EvalInv /\ SteadyInv

\* A usable record, as CalmBuildRepairs speaks of it.
LEMMA UsableRecord ==
  ASSUME NEW l \in Lang, NEW records \in Seq(Record), NEW r,
         \A n \in 1..Len(records) : records[n].id[1] = l
  PROVE  r \in {s \in In(records) : s.usable} <=>
           \E id \in OfLang(l), script \in Script :
             /\ r = [id |-> id, script |-> script, usable |-> TRUE]
             /\ \E n \in 1..Len(records) : records[n] = r
<1>1. ASSUME NEW n \in 1..Len(records), records[n] = r, r.usable
      PROVE  /\ r.id \in OfLang(l) /\ r.script \in Script
             /\ r = [id |-> r.id, script |-> r.script, usable |-> TRUE]
  <2>1. r \in Record /\ r.id[1] = l
    BY <1>1, ElementOfSeq
  <2> QED
    BY <1>1, <2>1 DEF Record, OfLang
<1>2. ASSUME NEW id, NEW script, r = [id |-> id, script |-> script, usable |-> TRUE] PROVE r.usable
  BY <1>2
<1> QED
  BY <1>1, <1>2 DEF In

\* As long as a language is repaired its usable records and what they score are the
\* same, whatever builds come and go.
LEMMA UsableStays ==
  ASSUME RepairInv, RepairInv', [Next]_vars, NEW l \in repaired, l \in repaired'
  PROVE  /\ Usable(l)' = Usable(l)
         /\ \A r \in Usable(l) : Score(r)' = Score(r)
<1>h. HeardInv /\ HeardInv' /\ CalmBuildRepairs /\ CalmBuildRepairs' /\ l \in Lang
  BY DEF RepairInv, HeardInv, TypeInv, TypeOK
<1>1. source'[l] = source[l] /\ \A id \in OfLang(l) : clip'[id] = clip[id]
  BY RepairedIsUntouched
<1>2. ASSUME NEW id \in OfLang(l), NEW script \in Script
      PROVE  (\E n \in 1..Len(golden'[l].records) :
                 golden'[l].records[n] = [id |-> id, script |-> script, usable |-> TRUE])
             <=> \E n \in 1..Len(golden[l].records) :
                    golden[l].records[n] = [id |-> id, script |-> script, usable |-> TRUE]
  <2>1. (\E n \in 1..Len(golden[l].records) :
            golden[l].records[n] = [id |-> id, script |-> script, usable |-> TRUE])
        <=> (\E n \in 1..Len(source[l]) : source[l][n] = [id |-> id, script |-> script]) /\ Says(id, script.romanized)
    BY <1>h DEF CalmBuildRepairs
  <2>2. (\E n \in 1..Len(golden'[l].records) :
            golden'[l].records[n] = [id |-> id, script |-> script, usable |-> TRUE])
        <=> (\E n \in 1..Len(source'[l]) : source'[l][n] = [id |-> id, script |-> script]) /\ Says(id, script.romanized)'
    BY <1>h DEF CalmBuildRepairs, OfLang
  <2>3. Says(id, script.romanized)' <=> Says(id, script.romanized)
    BY <1>1 DEF Says, Near
  <2> QED
    BY <1>1, <2>1, <2>2, <2>3
<1>3. ASSUME NEW r PROVE r \in Usable(l)' <=> r \in Usable(l)
  <2>1. /\ golden[l].records \in Seq(Record)
        /\ \A n \in 1..Len(golden[l].records) : golden[l].records[n].id[1] = l
        /\ golden'[l].records \in Seq(Record)
        /\ \A n \in 1..Len(golden'[l].records) : golden'[l].records[n].id[1] = l
    BY <1>h DEF HeardInv, TypeInv, TypeOK, Set, SetInv
  <2>2. r \in Usable(l) <=>
           \E id \in OfLang(l), script \in Script :
             /\ r = [id |-> id, script |-> script, usable |-> TRUE]
             /\ \E n \in 1..Len(golden[l].records) : golden[l].records[n] = r
    BY <1>h, <2>1, UsableRecord DEF Usable
  <2>3. r \in Usable(l)' <=>
           \E id \in OfLang(l), script \in Script :
             /\ r = [id |-> id, script |-> script, usable |-> TRUE]
             /\ \E n \in 1..Len(golden'[l].records) : golden'[l].records[n] = r
    <3>1. PICK records \in Seq(Record) : records = golden'[l].records
      BY <2>1
    <3>2. Usable(l)' = {s \in In(records) : s.usable}
      BY <3>1 DEF Usable, In
    <3> QED
      BY <1>h, <2>1, <3>1, <3>2, UsableRecord
  <2> QED
    BY <1>2, <2>2, <2>3
<1>4. Usable(l)' = Usable(l)
  BY <1>3
<1>5. \A r \in Usable(l) : Score(r)' = Score(r)
  <2> SUFFICES ASSUME NEW r \in Usable(l) PROVE Score(r)' = Score(r)
    OBVIOUS
  <2>1. /\ golden[l].records \in Seq(Record)
        /\ \A n \in 1..Len(golden[l].records) : golden[l].records[n].id[1] = l
    BY <1>h DEF HeardInv, TypeInv, TypeOK, Set, SetInv
  <2>2. r.id \in OfLang(l)
    BY <1>h, <2>1, UsableRecord DEF Usable
  <2> QED
    BY <1>1, <2>2 DEF Score
<1> QED
  BY <1>4, <1>5

\* A step that is not the evaluation's own takes nothing from it but its being since.
LeavesScores ==
  /\ baseline' = baseline
  /\ eval'.on = eval.on /\ eval'.todo = eval.todo /\ eval'.got = eval.got
  /\ eval'.since => eval.since /\ eval.on \subseteq repaired'
  /\ steady' \subseteq steady \cap repaired'
  /\ \A l \in steady' : l \in eval.on => eval'.since

LEMMA DisturbedLeavesScores ==
  ASSUME ScoreInv, NEW l, Disturbed(l), UNCHANGED baseline
  PROVE  LeavesScores
<1>1. eval \in Eval
  BY DEF ScoreInv, RepairInv, HeardInv, TypeInv, TypeOK
<1>2. /\ eval'.on = eval.on /\ eval'.todo = eval.todo /\ eval'.got = eval.got
      /\ eval'.since = (eval.since /\ l \notin eval.on)
      /\ repaired' = repaired \ {l} /\ steady' = steady \ {l}
  BY <1>1 DEF Disturbed, Eval
<1>3. eval'.since => eval.since /\ eval.on \subseteq repaired'
  BY <1>2 DEF ScoreInv, EvalInv
<1>4. steady' \subseteq steady \cap repaired'
  BY <1>2 DEF ScoreInv, SteadyInv
<1>5. ASSUME NEW m \in steady', m \in eval.on PROVE eval'.since
  <2>1. eval.since /\ m # l
    BY <1>2, <1>5 DEF ScoreInv, SteadyInv
  <2>2. l \notin eval.on
    BY <1>5, <2>1 DEF ScoreInv, EvalInv
  <2> QED
    BY <1>2, <2>1, <2>2
<1> QED
  BY <1>2, <1>3, <1>4, <1>5 DEF LeavesScores

LEMMA CalmLeavesScores ==
  ASSUME ScoreInv, UNCHANGED <<baseline, steady, eval>>, repaired \subseteq repaired'
  PROVE  LeavesScores
BY DEF LeavesScores, ScoreInv, EvalInv, SteadyInv

LEMMA ScoresStay ==
  ASSUME ScoreInv, RepairInv', [Next]_vars, LeavesScores
  PROVE  EvalInv' /\ SteadyInv'
<1>1. ASSUME NEW l \in repaired, l \in repaired'
      PROVE  /\ Usable(l)' = Usable(l)
             /\ \A r \in Usable(l) : Score(r)' = Score(r)
  BY <1>1, UsableStays DEF ScoreInv
<1>2. EvalInv'
  <2> SUFFICES ASSUME eval'.since, NEW l \in eval.on
               PROVE  /\ l \in repaired'
                      /\ eval'.todo \subseteq Usable(l)'
                      /\ eval'.got = {Score(r)' : r \in Usable(l)' \ eval'.todo}
    BY DEF EvalInv, ScoreInv, LeavesScores
  <2>1. /\ l \in repaired /\ l \in repaired' /\ eval.todo \subseteq Usable(l)
        /\ eval.got = {Score(r) : r \in Usable(l) \ eval.todo}
    BY DEF LeavesScores, ScoreInv, EvalInv
  <2>2. {Score(r)' : r \in Usable(l) \ eval.todo} = {Score(r) : r \in Usable(l) \ eval.todo}
    BY <1>1, <2>1
  <2> QED
    BY <1>1, <2>1, <2>2 DEF LeavesScores
<1>3. SteadyInv'
  <2> SUFFICES ASSUME NEW l \in steady'
               PROVE  /\ l \in repaired'
                      /\ baseline'[l] = {Score(r)' : r \in Usable(l)'}
                      /\ l \in eval'.on => eval'.since
    BY DEF SteadyInv
  <2>1. l \in repaired /\ l \in repaired' /\ baseline[l] = {Score(r) : r \in Usable(l)}
    BY DEF LeavesScores, ScoreInv, SteadyInv
  <2>2. {Score(r)' : r \in Usable(l)} = {Score(r) : r \in Usable(l)}
    BY <1>1, <2>1
  <2> QED
    BY <1>1, <2>1, <2>2 DEF LeavesScores
<1> QED
  BY <1>2, <1>3

LEMMA ScorePreserved == ScoreInv /\ [Next]_vars => ScoreInv'
<1> SUFFICES ASSUME ScoreInv, [Next]_vars PROVE ScoreInv'
  OBVIOUS
<1>h. RepairInv /\ RepairInv'
  BY RepairPreserved DEF ScoreInv
<1>t. /\ eval \in Eval /\ repaired \subseteq Lang /\ steady \subseteq Lang
      /\ baseline \in [Lang -> SUBSET Sample]
  BY <1>h DEF RepairInv, HeardInv, TypeInv, TypeOK
<1>s. ASSUME LeavesScores PROVE ScoreInv'
  BY <1>h, <1>s, ScoresStay DEF ScoreInv
<1>c. ASSUME UNCHANGED <<baseline, steady, eval>>, repaired \subseteq repaired' PROVE ScoreInv'
  BY <1>c, <1>s, CalmLeavesScores
<1>d. ASSUME NEW l, Disturbed(l), UNCHANGED baseline PROVE ScoreInv'
  BY <1>d, <1>s, DisturbedLeavesScores
<1>p. ASSUME NEW file, Puts(file), UNCHANGED baseline PROVE ScoreInv'
  BY <1>c, <1>d, <1>p DEF Puts
<1>1. ASSUME NEW l \in Lang, NEW script \in Script, AddLine(l, script) PROVE ScoreInv'
  BY <1>1, <1>d DEF AddLine
<1>2. ASSUME NEW l \in Lang, NEW script \in Script, NEW i \in 1..Len(source[l]), EditLine(l, i, script)
      PROVE  ScoreInv'
  BY <1>2, <1>d DEF EditLine
<1>3. ASSUME NEW langs, NEW force, StartBuild(langs, force) PROVE ScoreInv'
  BY <1>3, <1>c DEF StartBuild
<1>4. ASSUME NEW l, LoadSource(l) PROVE ScoreInv'
  BY <1>4, <1>c DEF LoadSource
<1>5. CASE UseCached \/ LineFails \/ Hears \/ HearsNothing \/ DiesBetween
  BY <1>5, <1>c DEF UseCached, LineFails, Hears, HearsNothing, DiesBetween, Dies
<1>6. ASSUME NEW said, SynthesizeClip(said) PROVE ScoreInv'
  BY <1>6, <1>c DEF SynthesizeClip
<1>7. CASE WriteClip \/ WriteFails \/ DiesWritingClip
  BY <1>7, <1>p DEF WriteClip, WriteFails, DiesWritingClip, Dies
<1>8. CASE SaveSet
  BY <1>8, <1>c, <1>d DEF SaveSet
<1>9. CASE DiesWritingSet
  BY <1>9, <1>d DEF DiesWritingSet, Dies
<1>10. ASSUME NEW l \in Lang, LoadGolden(l) PROVE ScoreInv'
  <2>1. /\ UNCHANGED <<golden, clip, baseline, repaired, steady>> /\ eval.on = {}
        /\ eval' = [on |-> {l}, todo |-> Usable(l), got |-> {}, since |-> l \in repaired]
    BY <1>10 DEF LoadGolden, Usable, In
  <2>2. \A m : Usable(m)' = Usable(m) /\ \A r : Score(r)' = Score(r)
    BY <2>1 DEF Usable, In, Score
  <2>3. EvalInv'
    BY <2>1, <2>2 DEF EvalInv
  <2>4. SteadyInv'
    BY <2>1, <2>2 DEF SteadyInv, ScoreInv
  <2> QED
    BY <1>h, <2>3, <2>4 DEF ScoreInv
<1>11. ASSUME NEW l \in Lang, FinishEval(l) PROVE ScoreInv'
  <2>1. /\ UNCHANGED <<golden, clip, repaired>> /\ eval.on = {l} /\ eval.todo = {}
        /\ eval' = NoEval /\ baseline' = [baseline EXCEPT ![l] = eval.got]
        /\ steady' = IF eval.since THEN steady \cup {l} ELSE steady \ {l}
    BY <1>11 DEF FinishEval
  <2>2. \A m : Usable(m)' = Usable(m) /\ \A r : Score(r)' = Score(r)
    BY <2>1 DEF Usable, In, Score
  <2>3. EvalInv'
    BY <2>1 DEF EvalInv, NoEval
  <2>4. SteadyInv'
    <3> SUFFICES ASSUME NEW m \in steady'
                 PROVE  m \in repaired /\ baseline'[m] = {Score(r) : r \in Usable(m)}
      BY <2>1, <2>2 DEF SteadyInv, NoEval
    <3>1. CASE m = l
      <4>1. eval.since
        BY <2>1, <3>1
      <4>2. l \in repaired /\ eval.got = {Score(r) : r \in Usable(l)}
        BY <2>1, <4>1 DEF ScoreInv, EvalInv
      <4> QED
        BY <1>t, <2>1, <3>1, <4>2
    <3>2. CASE m # l
      <4>1. m \in steady /\ baseline'[m] = baseline[m]
        BY <1>t, <2>1, <3>2
      <4> QED
        BY <4>1 DEF ScoreInv, SteadyInv
    <3> QED
      BY <3>1, <3>2
  <2> QED
    BY <1>h, <2>3, <2>4 DEF ScoreInv
<1>12. ASSUME NEW r \in eval.todo, ReplayClip(r) PROVE ScoreInv'
  <2>1. UNCHANGED <<golden, clip, baseline, repaired, steady>>
    BY <1>12 DEF ReplayClip
  <2>2. \A m : Usable(m)' = Usable(m) /\ \A s : Score(s)' = Score(s)
    BY <2>1 DEF Usable, In, Score
  <2>3. CASE eval' = NoEval
    BY <1>h, <2>1, <2>2, <2>3 DEF ScoreInv, EvalInv, SteadyInv, NoEval
  <2>4. CASE eval' # NoEval
    <3>1. eval' = [eval EXCEPT !.todo = @ \ {r}, !.got = @ \cup {Score(r)}]
      BY <1>12, <2>4 DEF ReplayClip, Score
    <3>2. /\ eval'.on = eval.on /\ eval'.since = eval.since
          /\ eval'.todo = eval.todo \ {r} /\ eval'.got = eval.got \cup {Score(r)}
      BY <1>t, <3>1 DEF Eval
    <3>3. EvalInv'
      <4> SUFFICES ASSUME eval.since, NEW l \in eval.on
                   PROVE  /\ l \in repaired /\ eval.todo \ {r} \subseteq Usable(l)
                          /\ eval.got \cup {Score(r)}
                               = {Score(s) : s \in Usable(l) \ (eval.todo \ {r})}
        BY <2>1, <2>2, <3>2 DEF EvalInv, ScoreInv
      <4>1. /\ l \in repaired /\ eval.todo \subseteq Usable(l)
            /\ eval.got = {Score(s) : s \in Usable(l) \ eval.todo}
        BY DEF ScoreInv, EvalInv
      <4>2. Usable(l) \ (eval.todo \ {r}) = (Usable(l) \ eval.todo) \cup {r}
        BY <4>1
      <4> QED
        BY <4>1, <4>2
    <3>4. SteadyInv'
      BY <2>1, <2>2, <3>2 DEF ScoreInv, SteadyInv
    <3> QED
      BY <1>h, <3>3, <3>4 DEF ScoreInv
  <2> QED
    BY <2>3, <2>4
<1>13. CASE UNCHANGED vars
  BY <1>13, <1>c DEF vars
<1> QED
  BY <1>1, <1>2, <1>3, <1>4, <1>5, <1>6, <1>7, <1>8, <1>9, <1>10, <1>11, <1>12, <1>13 DEF Next

\* Two evaluations of a language score the same lines against the same audio, however
\* many builds ran between them, as long as nobody edited the language, forced a build
\* of it, or saw one fail ("Cached audio is the stable answer key").
THEOREM SteadySetsScoreAlike == Spec => []SteadySetScoresAlike
<1>1. Init => ScoreInv
  BY RepairInitially DEF Init, NoEval, ScoreInv, EvalInv, SteadyInv
<1>2. ScoreInv /\ [Next]_vars => ScoreInv'
  BY ScorePreserved
<1>3. ScoreInv => SteadySetScoresAlike
  <2> SUFFICES ASSUME ScoreInv, NEW l \in steady, eval.on = {l}, eval.todo = {}
               PROVE  eval.got = baseline[l]
    BY DEF SteadySetScoresAlike
  <2>1. eval.since /\ baseline[l] = {Score(r) : r \in Usable(l)}
    BY DEF ScoreInv, SteadyInv
  <2>2. eval.got = {Score(r) : r \in Usable(l)}
    BY <2>1 DEF ScoreInv, EvalInv
  <2> QED
    BY <2>1, <2>2
<1> QED
  BY <1>1, <1>2, <1>3, PTL DEF Spec
=============================================================================
