----------------------------- MODULE EvalProofs -----------------------------
(***************************************************************************)
(* Theorems about EvalRun, for any processes, languages, configurations    *)
(* and threshold: its types, that what the queries offer as a baseline is  *)
(* complete, that a stored report can be rebuilt, and that a red build is  *)
(* never noise.                                                            *)
(***************************************************************************)
EXTENDS EvalRun, TLAPS

-----------------------------------------------------------------------------
(* The inductive invariant. *)

\* The scores of run r will not change any more.
Fixed(r) == job[r].pc \notin {"idle", "replay"}

\* What a process holds in memory and what the tables say of its run.
RunOK(j) ==
  /\ row[j].finished => job[j].pc \in {"ran", "gate", "done"} /\ scores[j] = job[j].got
  /\ row[j].records_scored > 0 => row[j].finished /\ job[j].got # Nothing
  /\ job[j].recordsScored > 0 => job[j].got # Nothing
  /\ job[j].pc \in {"idle", "replay"} => scores[j] = Nothing
  /\ job[j].pc \in {"finish", "ran", "gate"} => scores[j] = job[j].got

RunInv == \A j \in Job : RunOK(j)

\* A diff between settled runs, or one with a failure in it, is between two runs that
\* have scores, and says what it would say now.
Sound(built, h) ==
  built.settled \/ built.failures # {} =>
    /\ built.failures # {} => built.base # {}
    /\ \A b \in built.base : /\ Fixed(b) /\ Fixed(h)
                             /\ built.failures = Failures(b, h)
                             /\ built.comparable = Comparable(b, h)

ReportInv == \A h \in reported : Sound(report[h], h)

TaskInv ==
  \A p \in Process :
    /\ Sound(task[p].built, task[p].head)
    /\ task[p].pc \in {"resolve", "diff"} =>
         ~task[p].built.settled /\ task[p].built.failures = {}

\* The gate of a run is about that run.
GateInv == \A j \in Job : task[j].pc \notin {"idle", "done"} => task[j].head = j

RedInv ==
  \A j \in Job : job[j].exit = "regressed" =>
    \E b \in Job \ {j} : Fixed(b) /\ Fixed(j) /\ Comparable(b, j) /\ Failures(b, j) # {}

EvalInv == TypeOK /\ RunInv /\ ReportInv /\ TaskInv /\ GateInv /\ RedInv

-----------------------------------------------------------------------------
(* The initial states, and the types. *)

LEMMA NoTaskType ==
  ASSUME NEW pc \in {"idle", "resolve", "diff", "save", "verdict", "done"}
  PROVE  NoTask(pc) \in Task /\ NoTask(pc).built = NoReport /\ NoTask(pc).pc = pc
  <1>1. (CHOOSE j \in Job : TRUE) \in Job
    BY EvalConstants
  <1>2. NoReport \in Report
    BY DEF NoReport, Report, Base
  <1> QED BY <1>1, <1>2 DEF NoTask, Task

LEMMA NothingType == Nothing \in Scores
  BY DEF Nothing, Scores

LEMMA InitInv == Init => EvalInv
  <1> SUFFICES ASSUME Init PROVE EvalInv
    OBVIOUS
  <1>1. (CHOOSE c \in Commit : TRUE) \in Commit /\ (CHOOSE s \in Setting : TRUE) \in Setting
    BY EvalConstants
  <1>2. NoReport \in Report /\ ~NoReport.settled /\ NoReport.failures = {}
    BY DEF NoReport, Report, Base
  <1>3. TypeOK
    <2>1. row \in [Job -> Row]
      BY <1>1, EvalConstants DEF Init, Row
    <2>2. job \in [Job -> JobState]
      BY NothingType DEF Init, JobState
    <2>3. task \in [Process -> Task]
      BY NoTaskType DEF Init
    <2> QED BY <1>2, <2>1, <2>2, <2>3, NothingType DEF Init, TypeOK
  <1>4. RunInv
    BY DEF Init, RunInv, RunOK
  <1>5. ReportInv
    BY DEF Init, ReportInv
  <1>6. TaskInv
    BY <1>2, NoTaskType DEF Init, TaskInv, Sound
  <1>7. GateInv
    BY NoTaskType DEF Init, GateInv, Process
  <1>8. RedInv
    BY DEF Init, RedInv
  <1> QED BY <1>3, <1>4, <1>5, <1>6, <1>7, <1>8 DEF EvalInv

\* What a reference resolves to is a run or nothing.
LEMMA BasesType ==
  ASSUME TypeOK, NEW p \in Process, NEW h \in Job,
         NEW by \in RefsOf(p), NEW base \in BasesOf(by, h)
  PROVE  base \in Base
  <1>1. by \in Ref
    BY DEF RefsOf, Ref
  <1>2. \A S \in SUBSET Job : Newest(S) \subseteq Base
    BY DEF Newest, Base
  <1>3. CASE by = "previous"
    BY <1>2, <1>3 DEF BasesOf, PreviousRun
  <1>4. CASE by = "run"
    BY <1>4 DEF BasesOf, Base, TypeOK
  <1>5. CASE by = "commit"
    BY <1>2, <1>5 DEF BasesOf, RunForGitSha
  <1> QED BY <1>1, <1>3, <1>4, <1>5 DEF Ref

LEMMA TypeStep == TypeOK /\ [Next]_vars => TypeOK'
  <1> SUFFICES ASSUME TypeOK, [Next]_vars PROVE TypeOK'
    OBVIOUS
  <1> USE DEF TypeOK
  <1>jobs. \A j \in Job : job[j] \in JobState /\ row[j] \in Row /\ j \in Process
    BY DEF Process
  <1>tasks. \A p \in Process : task[p] \in Task
    OBVIOUS
  <1>leave. \A p \in Process : Leave(p) => task' \in [Process -> Task]
    BY NoTaskType DEF Leave
  <1>exit. \A j \in Job : \A e \in {"green", "regressed", "fatal", "killed"} :
             Exit(j, e) => job' \in [Job -> JobState]
    <2> TAKE j \in Job
    <2> TAKE e \in {"green", "regressed", "fatal", "killed"}
    <2>1. [job[j] EXCEPT !.pc = "done", !.exit = e, !.todo = {}] \in JobState
      <3>1. job[j] \in JobState
        BY <1>jobs
      <3> QED BY <3>1 DEF JobState
    <2>2. HAVE Exit(j, e)
    <2>3. job' = [job EXCEPT ![j] = [job[j] EXCEPT !.pc = "done", !.exit = e, !.todo = {}]]
      BY <2>2, <1>jobs DEF Exit, JobState
    <2> QED BY <2>1, <2>3
  <1>goto. \A j \in Job : \A pc \in {"finish", "ran", "gate"} :
             Goto(j, pc) => job' \in [Job -> JobState]
    <2> TAKE j \in Job
    <2> TAKE pc \in {"finish", "ran", "gate"}
    <2>1. [job[j] EXCEPT !.pc = pc] \in JobState
      <3>1. job[j] \in JobState
        BY <1>jobs
      <3> QED BY <3>1 DEF JobState
    <2>2. HAVE Goto(j, pc)
    <2>3. job' = [job EXCEPT ![j] = [job[j] EXCEPT !.pc = pc]]
      BY <2>2, <1>jobs DEF Goto, JobState
    <2> QED BY <2>1, <2>3
  <1>begin. \A p \in Process, h \in Job : Begin(p, h) => task' \in [Process -> Task]
    <2> TAKE p \in Process, h \in Job
    <2>1. NoReport \in Report
      BY DEF NoReport, Report, Base
    <2>2. [pc |-> "resolve", head |-> h, built |-> NoReport] \in Task
      BY <2>1 DEF Task
    <2> QED BY <2>2 DEF Begin
  <1>1. ASSUME NEW j \in Job, StartRun(j) PROVE TypeOK'
    <2> USE <1>1 DEF StartRun
    <2>1. row' \in [Job -> Row]
      BY EvalConstants DEF Row
    <2>2. PICK langs \in SUBSET Lang \ {{}} :
            job' = [job EXCEPT ![j].pc = "replay", ![j].todo = langs]
      OBVIOUS
    <2>3. [job[j] EXCEPT !.pc = "replay", !.todo = langs] \in JobState
      <3>1. job[j] \in JobState
        BY <1>jobs
      <3> QED BY <3>1 DEF JobState
    <2>4. job' = [job EXCEPT ![j] = [job[j] EXCEPT !.pc = "replay", !.todo = langs]]
      BY <2>2, <1>jobs DEF JobState
    <2> QED BY <2>1, <2>3, <2>4
  <1>2. ASSUME NEW j \in Job, ReplayLanguage(j) PROVE TypeOK'
    <2> USE <1>2 DEF ReplayLanguage
    <2>1. PICK l \in job[j].todo, value \in 0..MaxValue :
            job' = [job EXCEPT ![j].todo = @ \ {l}, ![j].got[l] = value,
                               ![j].recordsScored = @ + 1]
      OBVIOUS
    <2>2. job[j].got \in Scores /\ [job[j].got EXCEPT ![l] = value] \in Scores
      BY <1>jobs DEF JobState, Scores
    <2>3. job[j].recordsScored + 1 \in Nat
      BY <1>jobs DEF JobState
    <2>4. [job[j] EXCEPT !.todo = @ \ {l}, !.got = [job[j].got EXCEPT ![l] = value],
                         !.recordsScored = @ + 1] \in JobState
      BY <1>jobs, <2>2, <2>3 DEF JobState
    <2>5. job' = [job EXCEPT ![j] =
                   [job[j] EXCEPT !.todo = @ \ {l}, !.got = [job[j].got EXCEPT ![l] = value],
                                  !.recordsScored = @ + 1]]
      BY <2>1, <2>2, <1>jobs DEF JobState
    <2>6. job' \in [Job -> JobState]
      BY <2>4, <2>5
    <2> QED BY <2>6
  <1>3. ASSUME NEW j \in Job, SkipLanguage(j) PROVE TypeOK'
    <2>1. job' \in [Job -> JobState]
      BY SMTT(30), <1>3, <1>jobs DEF SkipLanguage, JobState
    <2> QED BY <1>3, <2>1 DEF SkipLanguage
  <1>4. ASSUME NEW j \in Job, InsertScores(j) PROVE TypeOK'
    <2>1. job[j].got \in Scores
      BY <1>jobs DEF JobState
    <2> QED BY <1>4, <2>1, <1>goto DEF InsertScores
  <1>5. ASSUME NEW j \in Job, FinishRun(j) PROVE TypeOK'
    <2>1. job[j].recordsScored \in Nat
      BY <1>jobs DEF JobState
    <2>2. row' \in [Job -> Row]
      BY <1>5, <2>1, <1>jobs DEF FinishRun, Row
    <2> QED BY <1>5, <2>2, <1>goto DEF FinishRun
  <1>6. ASSUME NEW j \in Job, Dies(j) PROVE TypeOK'
    BY <1>6, <1>exit, <1>leave, <1>jobs DEF Dies
  <1>7. ASSUME NEW j \in Job, Refuses(j) PROVE TypeOK'
    BY <1>7, <1>exit DEF Refuses
  <1>8. ASSUME NEW j \in Job, Diffs(j) PROVE TypeOK'
    BY <1>8, <1>exit, <1>goto, <1>begin, <1>jobs DEF Diffs
  <1>9. ASSUME NEW j \in Job, Verdict(j) PROVE TypeOK'
    BY <1>9, <1>exit, <1>leave, <1>jobs DEF Verdict
  <1>10. ASSUME NEW r \in Reporter, StartReport(r) PROVE TypeOK'
    BY <1>10, <1>begin DEF StartReport, Process
  <1>11. ASSUME NEW p \in Process, ResolveBase(p) PROVE TypeOK'
    <2>1. PICK by \in RefsOf(p) : \E base \in BasesOf(by, task[p].head) :
            task' = [task EXCEPT ![p].pc = "diff", ![p].built.base = base]
      BY <1>11 DEF ResolveBase
    <2>2. PICK base \in BasesOf(by, task[p].head) :
            task' = [task EXCEPT ![p].pc = "diff", ![p].built.base = base]
      BY <2>1
    <2>3. base \in Base
      BY <1>tasks, BasesType DEF Task
    <2>4. [task[p].built EXCEPT !.base = base] \in Report
      <3>1. task[p].built \in Report
        BY <1>tasks DEF Task
      <3> QED BY <2>3, <3>1 DEF Report
    <2>5. task' \in [Process -> Task]
      BY <2>2, <2>4, <1>tasks DEF Task
    <2> QED BY <1>11, <2>5 DEF ResolveBase
  <1>12. ASSUME NEW p \in Process, ReadDiff(p) PROVE TypeOK'
    <2>1. task[p].built.base \subseteq Job /\ task[p].head \in Job
      BY <1>tasks DEF Task, Report, Base
    <2>2. ASSUME NEW base \in task[p].built.base,
                 task' = [task EXCEPT ![p] = [@ EXCEPT !.pc = "save",
                                                       !.built = Summarize(base, task[p].head)]]
          PROVE  task' \in [Process -> Task]
      <3>1. Summarize(base, task[p].head) \in Report
        BY <2>1 DEF Summarize, Report, Base, Comparable, Failures, Row
      <3>2. [task[p] EXCEPT !.pc = "save", !.built = Summarize(base, task[p].head)] \in Task
        BY <3>1, <1>tasks DEF Task
      <3> QED BY <2>2, <3>2
    <2>3. ASSUME task' = [task EXCEPT ![p].pc = "save"] PROVE task' \in [Process -> Task]
      BY <2>3, <1>tasks DEF Task
    <2> QED BY <1>12, <2>2, <2>3 DEF ReadDiff
  <1>13. ASSUME NEW p \in Process, SaveReport(p) PROVE TypeOK'
    <2> USE <1>13 DEF SaveReport
    <2>1. task[p].head \in Job /\ task[p].built \in Report
      BY <1>tasks DEF Task
    <2>2. task' \in [Process -> Task]
      <3>1. ASSUME task' = [task EXCEPT ![p].pc = "verdict"] PROVE task' \in [Process -> Task]
        <4>1. [task[p] EXCEPT !.pc = "verdict"] \in Task
          BY <1>tasks DEF Task
        <4> QED BY <3>1, <4>1
      <3> QED BY <1>leave, <3>1
    <2>3. report' \in [Job -> Report] /\ reported' \subseteq Job
      BY <2>1
    <2> QED BY <2>2, <2>3
  <1>14. CASE UNCHANGED vars
    BY <1>14 DEF vars
  <1> QED
    BY <1>1, <1>2, <1>3, <1>4, <1>5, <1>6, <1>7, <1>8, <1>9, <1>10, <1>11, <1>12, <1>13, <1>14
    DEF Next

-----------------------------------------------------------------------------
(* What a run's row and scores go through. *)

\* A step of j leaves the rest of the runs as they are, and none of j's steps
\* contradicts the tables.
LEMMA RunStep == TypeOK /\ RunInv /\ [Next]_vars => RunInv'
  <1> SUFFICES ASSUME TypeOK, RunInv, [Next]_vars, NEW i \in Job PROVE RunOK(i)'
    BY DEF RunInv
  <1>ok. RunOK(i)
    BY DEF RunInv
  <1>types. /\ row \in [Job -> Row] /\ scores \in [Job -> Scores]
            /\ job \in [Job -> JobState] /\ job[i] \in JobState /\ row[i] \in Row
    BY DEF TypeOK
  <1>same. row'[i] = row[i] /\ scores'[i] = scores[i] /\ job'[i] = job[i] => RunOK(i)'
    BY <1>ok DEF RunOK
  <1>1. ASSUME NEW j \in Job, StartRun(j) PROVE RunOK(i)'
    <2>1. CASE i # j
      BY <1>1, <2>1, <1>types, <1>same DEF StartRun
    <2>2. CASE i = j
      BY <1>1, <2>2, <1>types, <1>ok DEF StartRun, RunOK, JobState, Row
    <2> QED BY <2>1, <2>2
  <1>2. ASSUME NEW j \in Job, ReplayLanguage(j) PROVE RunOK(i)'
    <2>1. CASE i # j
      BY <1>2, <2>1, <1>types, <1>same DEF ReplayLanguage
    <2>2. CASE i = j
      <3>1. job'[i].got # Nothing
        <4>1. PICK l \in job[i].todo, value \in 0..MaxValue :
                job'[i].got = [job[i].got EXCEPT ![l] = value]
          BY <1>2, <2>2, <1>types DEF ReplayLanguage, JobState
        <4>2. l \in Lang /\ job[i].got \in Scores
          BY <1>types DEF JobState
        <4>3. job'[i].got[l] # NoScore
          BY <4>1, <4>2, EvalConstants DEF Scores, NoScore
        <4> QED BY <4>2, <4>3 DEF Nothing
      <3>2. job'[i].pc = "replay" /\ row' = row /\ scores' = scores
        BY <1>2, <2>2, <1>types DEF ReplayLanguage, JobState
      <3>3. job[i].pc = "replay"
        BY <1>2, <2>2 DEF ReplayLanguage
      <3> QED BY <1>ok, <3>1, <3>2, <3>3 DEF RunOK
    <2> QED BY <2>1, <2>2
  <1>3. ASSUME NEW j \in Job, SkipLanguage(j) PROVE RunOK(i)'
    <2>1. CASE i # j
      BY <1>3, <2>1, <1>types, <1>same DEF SkipLanguage
    <2>2. CASE i = j
      BY <1>3, <2>2, <1>types, <1>ok DEF SkipLanguage, RunOK, JobState, Row
    <2> QED BY <2>1, <2>2
  <1>4. ASSUME NEW j \in Job, InsertScores(j) PROVE RunOK(i)'
    <2>1. CASE i # j
      BY <1>4, <2>1, <1>types, <1>same DEF InsertScores, Goto
    <2>2. CASE i = j
      BY <1>4, <2>2, <1>types, <1>ok DEF InsertScores, Goto, RunOK, JobState, Row
    <2> QED BY <2>1, <2>2
  <1>5. ASSUME NEW j \in Job, FinishRun(j) PROVE RunOK(i)'
    <2>1. CASE i # j
      BY <1>5, <2>1, <1>types, <1>same DEF FinishRun, Goto
    <2>2. CASE i = j
      BY <1>5, <2>2, <1>types, <1>ok DEF FinishRun, Goto, RunOK, JobState, Row
    <2> QED BY <2>1, <2>2
  <1>6. ASSUME NEW j \in Job, \E e \in {"green", "regressed", "fatal", "killed"} : Exit(j, e),
               UNCHANGED <<row, scores>>
        PROVE  RunOK(i)'
    <2>1. CASE i # j
      BY <1>6, <2>1, <1>types, <1>same DEF Exit
    <2>2. CASE i = j
      BY <1>6, <2>2, <1>types, <1>ok DEF Exit, RunOK, JobState, Row
    <2> QED BY <2>1, <2>2
  <1>7. ASSUME NEW j \in Job, job[j].pc = "ran", Goto(j, "gate"), UNCHANGED <<row, scores>>
        PROVE  RunOK(i)'
    <2>1. CASE i # j
      BY <1>7, <2>1, <1>types, <1>same DEF Goto
    <2>2. CASE i = j
      BY <1>7, <2>2, <1>types, <1>ok DEF Goto, RunOK, JobState, Row
    <2> QED BY <2>1, <2>2
  <1>8. ASSUME NEW j \in Job, Dies(j) \/ Refuses(j) \/ Diffs(j) \/ Verdict(j) PROVE RunOK(i)'
    <2>1. Diffs(j) => RunOK(i)'
      BY <1>6, <1>7 DEF Diffs
    <2> QED BY <1>6, <1>8, <2>1 DEF Dies, Refuses, Verdict
  <1>9. ASSUME UNCHANGED <<row, scores, job>> PROVE RunOK(i)'
    BY <1>9, <1>same
  <1> QED
    BY <1>1, <1>2, <1>3, <1>4, <1>5, <1>8, <1>9
    DEF Next, vars, StartReport, ResolveBase, ReadDiff, SaveReport

\* The scores and the configuration of a run that is past its replay stay.
LEMMA FixedStays ==
  ASSUME TypeOK, [Next]_vars, NEW r \in Job, Fixed(r)
  PROVE  Fixed(r)' /\ scores'[r] = scores[r] /\ row'[r].setting = row[r].setting
  <1>types. /\ row \in [Job -> Row] /\ scores \in [Job -> Scores]
            /\ job \in [Job -> JobState] /\ job[r] \in JobState /\ row[r] \in Row
    BY DEF TypeOK
  <1>past. job[r].pc # "idle" /\ job[r].pc # "replay"
    BY DEF Fixed
  <1>kept. ASSUME UNCHANGED <<row, scores>>, job'[r].pc # "idle" /\ job'[r].pc # "replay"
           PROVE  Fixed(r)' /\ scores'[r] = scores[r] /\ row'[r].setting = row[r].setting
    BY <1>kept DEF Fixed
  <1>exit. \A j \in Job : \A e \in {"green", "regressed", "fatal", "killed"} :
             Exit(j, e) => job'[r].pc # "idle" /\ job'[r].pc # "replay"
    BY <1>types, <1>past DEF Exit, JobState
  <1>goto. \A j \in Job : Goto(j, "gate") => job'[r].pc # "idle" /\ job'[r].pc # "replay"
    BY <1>types, <1>past DEF Goto, JobState
  <1>2. ASSUME NEW j \in Job, StartRun(j) \/ ReplayLanguage(j) \/ SkipLanguage(j)
        PROVE  Fixed(r)' /\ scores'[r] = scores[r] /\ row'[r].setting = row[r].setting
    <2>1. j # r
      BY <1>2, <1>past DEF StartRun, ReplayLanguage, SkipLanguage
    <2> QED BY <1>2, <2>1, <1>types, <1>past DEF StartRun, ReplayLanguage, SkipLanguage, Fixed
  <1>3. ASSUME NEW j \in Job, InsertScores(j)
        PROVE  Fixed(r)' /\ scores'[r] = scores[r] /\ row'[r].setting = row[r].setting
    <2>1. j # r
      BY <1>3, <1>past DEF InsertScores
    <2> QED BY <1>3, <2>1, <1>types, <1>past DEF InsertScores, Goto, Fixed
  <1>4. ASSUME NEW j \in Job, FinishRun(j)
        PROVE  Fixed(r)' /\ scores'[r] = scores[r] /\ row'[r].setting = row[r].setting
    <2>1. CASE j # r
      BY <1>4, <2>1, <1>types, <1>past DEF FinishRun, Goto, Fixed
    <2>2. CASE j = r
      BY <1>4, <2>2, <1>types, <1>past DEF FinishRun, Goto, Fixed, JobState, Row
    <2> QED BY <2>1, <2>2
  <1>5. ASSUME NEW j \in Job, Dies(j) \/ Refuses(j) \/ Diffs(j) \/ Verdict(j)
        PROVE  Fixed(r)' /\ scores'[r] = scores[r] /\ row'[r].setting = row[r].setting
    BY <1>5, <1>kept, <1>exit, <1>goto DEF Dies, Refuses, Diffs, Verdict
  <1>6. ASSUME UNCHANGED <<row, scores, job>>
        PROVE  Fixed(r)' /\ scores'[r] = scores[r] /\ row'[r].setting = row[r].setting
    BY <1>6, <1>kept, <1>past
  <1> QED
    BY <1>2, <1>3, <1>4, <1>5, <1>6
    DEF Next, vars, StartReport, ResolveBase, ReadDiff, SaveReport

LEMMA DiffStays ==
  ASSUME TypeOK, [Next]_vars, NEW b \in Job, NEW h \in Job, Fixed(b), Fixed(h)
  PROVE  /\ Fixed(b)' /\ Fixed(h)'
         /\ Failures(b, h)' = Failures(b, h)
         /\ Comparable(b, h)' = Comparable(b, h)
  <1>1. Fixed(b)' /\ scores'[b] = scores[b] /\ row'[b].setting = row[b].setting
    BY FixedStays
  <1>2. Fixed(h)' /\ scores'[h] = scores[h] /\ row'[h].setting = row[h].setting
    BY FixedStays
  <1> QED BY <1>1, <1>2 DEF Failures, Comparable

\* A step that reads or keeps a built report does not make it unsound.
LEMMA SoundStays ==
  ASSUME TypeOK, [Next]_vars, NEW built \in Report, NEW h \in Job, Sound(built, h)
  PROVE  Sound(built, h)'
  <1>1. built.base \subseteq Job
    BY DEF Report, Base
  <1>2. ASSUME built.settled \/ built.failures # {}, NEW b \in built.base
        PROVE  Fixed(b)' /\ Fixed(h)' /\ built.failures = Failures(b, h)'
                 /\ built.comparable = Comparable(b, h)'
    <2>1. b \in Job /\ Fixed(b) /\ Fixed(h) /\ built.failures = Failures(b, h)
            /\ built.comparable = Comparable(b, h)
      BY <1>1, <1>2 DEF Sound
    <2> QED BY <2>1, DiffStays
  <1> QED BY <1>2 DEF Sound

\* What has a score, or has finished, is past its replay.
LEMMA SummaryIsSound ==
  ASSUME TypeOK, RunInv, NEW b \in Job, NEW h \in Job
  PROVE  Sound(Summarize(b, h), h)
  <1>1. ASSUME NEW r \in Job, row[r].finished \/ scores[r] # Nothing PROVE Fixed(r)
    BY <1>1 DEF RunInv, RunOK, Fixed
  <1>2. Failures(b, h) # {} => scores[b] # Nothing /\ scores[h] # Nothing
    BY DEF Failures, Nothing
  <1>3. Failures(b, h) # {} \/ (row[b].finished /\ row[h].finished) => Fixed(b) /\ Fixed(h)
    BY <1>1, <1>2
  <1> QED BY <1>3 DEF Sound, Summarize

-----------------------------------------------------------------------------
(* What is built, stored and said of a diff. *)

LEMMA ReportStep == TypeOK /\ ReportInv /\ TaskInv /\ [Next]_vars => ReportInv'
  <1> SUFFICES ASSUME TypeOK, ReportInv, TaskInv, [Next]_vars, NEW h \in reported'
               PROVE  Sound(report[h], h)'
    BY DEF ReportInv
  <1>1. ASSUME h \in reported, report'[h] = report[h] PROVE Sound(report[h], h)'
    <2>1. h \in Job /\ report[h] \in Report /\ Sound(report[h], h)
      BY <1>1 DEF ReportInv, TypeOK
    <2>2. PICK built \in Report : built = report[h]
      BY <2>1
    <2>3. Sound(built, h)'
      BY <2>1, <2>2, SoundStays
    <2> QED BY <1>1, <2>2, <2>3 DEF Sound
  <1>2. ASSUME NEW p \in Process, SaveReport(p) PROVE Sound(report[h], h)'
    <2>1. task[p].head \in Job /\ task[p].built \in Report
            /\ Sound(task[p].built, task[p].head)
      BY DEF TypeOK, TaskInv, Task
    <2>2. PICK built \in Report : built = task[p].built
      BY <2>1
    <2>3. CASE h = task[p].head
      <3>1. Sound(built, h)'
        BY <2>1, <2>2, <2>3, SoundStays
      <3>2. report'[h] = built
        BY <1>2, <2>1, <2>2, <2>3 DEF SaveReport, TypeOK
      <3> QED BY <3>1, <3>2 DEF Sound
    <2>4. CASE h # task[p].head
      BY <1>1, <1>2, <2>4 DEF SaveReport, TypeOK
    <2> QED BY <2>3, <2>4
  <1>3. ASSUME UNCHANGED <<reported, report>> PROVE Sound(report[h], h)'
    BY <1>1, <1>3
  <1> QED
    BY <1>2, <1>3
    DEF Next, vars, StartRun, ReplayLanguage, SkipLanguage, InsertScores, FinishRun, Dies,
        Refuses, Diffs, Verdict, StartReport, ResolveBase, ReadDiff

LEMMA TaskStep == TypeOK /\ RunInv /\ TaskInv /\ [Next]_vars => TaskInv'
  <1> SUFFICES ASSUME TypeOK, RunInv, TaskInv, [Next]_vars, NEW q \in Process
               PROVE  /\ Sound(task[q].built, task[q].head)'
                      /\ task'[q].pc \in {"resolve", "diff"} =>
                           ~task'[q].built.settled /\ task'[q].built.failures = {}
    BY DEF TaskInv
  <1> DEFINE Goal == /\ Sound(task[q].built, task[q].head)'
                     /\ task'[q].pc \in {"resolve", "diff"} =>
                          ~task'[q].built.settled /\ task'[q].built.failures = {}
  <1>q. /\ task \in [Process -> Task] /\ task[q] \in Task
        /\ task[q].head \in Job /\ task[q].built \in Report
        /\ Sound(task[q].built, task[q].head)
        /\ task[q].pc \in {"resolve", "diff"} =>
             ~task[q].built.settled /\ task[q].built.failures = {}
    BY DEF TypeOK, Task, TaskInv
  <1>0. ~NoReport.settled /\ NoReport.failures = {}
    BY DEF NoReport
  \* what q has built is as sound after the step as before it
  <1>keeps. ASSUME task'[q].built = task[q].built, task'[q].head = task[q].head,
                   task'[q].pc = task[q].pc \/ task'[q].pc \notin {"resolve", "diff"}
            PROVE  Goal
    <2>1. PICK built \in Report, h \in Job : built = task[q].built /\ h = task[q].head
      BY <1>q
    <2>2. Sound(built, h)'
      BY <1>q, <2>1, SoundStays
    <2> QED BY <1>keeps, <1>q, <2>1, <2>2 DEF Sound
  \* nothing is claimed of what has not been read
  <1>unread. ASSUME ~task'[q].built.settled, task'[q].built.failures = {} PROVE Goal
    BY <1>unread DEF Sound
  <1>leave. ASSUME NEW p \in Process, Leave(p) PROVE Goal
    <2>1. CASE p = q
      BY <1>leave, <2>1, <1>q, <1>0, <1>unread, NoTaskType DEF Leave
    <2>2. CASE p # q
      BY <1>leave, <2>2, <1>q, <1>keeps DEF Leave
    <2> QED BY <2>1, <2>2
  <1>begin. ASSUME NEW p \in Process, NEW h \in Job, Begin(p, h) PROVE Goal
    <2>1. CASE p = q
      BY <1>begin, <2>1, <1>q, <1>0, <1>unread DEF Begin
    <2>2. CASE p # q
      BY <1>begin, <2>2, <1>q, <1>keeps DEF Begin
    <2> QED BY <2>1, <2>2
  <1>1. ASSUME NEW p \in Process, ResolveBase(p) PROVE Goal
    <2>1. CASE p = q
      <3>1. PICK base : task' = [task EXCEPT ![q].pc = "diff", ![q].built.base = base]
        BY <1>1, <2>1 DEF ResolveBase
      <3>2. /\ task'[q].built.settled = task[q].built.settled
            /\ task'[q].built.failures = task[q].built.failures
        BY <3>1, <1>q DEF Task, Report
      <3> QED BY <1>1, <2>1, <3>2, <1>q, <1>unread DEF ResolveBase
    <2>2. CASE p # q
      BY <1>1, <2>2, <1>q, <1>keeps DEF ResolveBase
    <2> QED BY <2>1, <2>2
  <1>2. ASSUME NEW p \in Process, ReadDiff(p) PROVE Goal
    <2>1. CASE p = q /\ task' = [task EXCEPT ![q].pc = "save"]
      BY <2>1, <1>q, <1>keeps DEF Task
    <2>2. ASSUME p = q, NEW b \in task[q].built.base,
                 task' = [task EXCEPT ![q] = [@ EXCEPT !.pc = "save",
                                                       !.built = Summarize(b, task[q].head)]]
          PROVE  Goal
      <3>1. b \in Job
        BY <1>q DEF Report, Base
      <3>2. Sound(Summarize(b, task[q].head), task[q].head)
        BY <3>1, <1>q, SummaryIsSound
      <3>3. Summarize(b, task[q].head) \in Report
        BY <3>1, <1>q DEF TypeOK, Summarize, Report, Base, Comparable, Failures, Row
      <3>4. PICK built \in Report, h \in Job : built = Summarize(b, task[q].head) /\ h = task[q].head
        BY <3>3, <1>q
      <3>5. Sound(built, h)'
        BY <3>2, <3>4, SoundStays
      <3>6. task'[q].built = built /\ task'[q].head = h /\ task'[q].pc = "save"
        BY <2>2, <3>4, <1>q DEF Task
      <3> QED BY <3>5, <3>6 DEF Sound
    <2>3. CASE p # q
      BY <1>2, <2>3, <1>q, <1>keeps DEF ReadDiff
    <2> QED BY <1>2, <2>1, <2>2, <2>3 DEF ReadDiff
  <1>3. ASSUME NEW p \in Process, SaveReport(p) PROVE Goal
    <2>1. ASSUME task' = [task EXCEPT ![p].pc = "verdict"] PROVE Goal
      BY <2>1, <1>q, <1>keeps DEF Task
    <2> QED BY <1>3, <1>leave, <2>1 DEF SaveReport
  <1>4. ASSUME UNCHANGED task PROVE Goal
    BY <1>4, <1>keeps
  <1>5. ASSUME NEW j \in Job, Dies(j) \/ Verdict(j) \/ Diffs(j) PROVE Goal
    <2>1. j \in Process
      BY DEF Process
    <2> QED BY <1>5, <2>1, <1>leave, <1>begin, <1>4 DEF Dies, Verdict, Diffs
  <1>6. ASSUME NEW r \in Reporter, StartReport(r) PROVE Goal
    BY <1>6, <1>begin DEF StartReport, Process, TypeOK
  <1> HIDE DEF Goal
  <1>7. Goal
    BY <1>1, <1>2, <1>3, <1>4, <1>5, <1>6
    DEF Next, vars, StartRun, ReplayLanguage, SkipLanguage, InsertScores, FinishRun, Refuses
  <1> QED BY <1>7 DEF Goal

\* Only the gate of j works in task[j], and it builds the report of run j.
LEMMA GateStep == TypeOK /\ GateInv /\ [Next]_vars => GateInv'
  <1> SUFFICES ASSUME TypeOK, GateInv, [Next]_vars, NEW i \in Job,
                      task'[i].pc \notin {"idle", "done"}
               PROVE  task'[i].head = i
    BY DEF GateInv
  <1>i. /\ task \in [Process -> Task] /\ task[i] \in Task /\ i \in Process
        /\ task[i].pc \notin {"idle", "done"} => task[i].head = i
    BY DEF TypeOK, GateInv, Process
  <1>same. ASSUME task'[i] = task[i] PROVE task'[i].head = i
    BY <1>same, <1>i
  <1>leave. ASSUME NEW p \in Process, Leave(p) PROVE task'[i].head = i
    BY <1>leave, <1>i, <1>same, NoTaskType DEF Leave
  <1>1. ASSUME NEW j \in Job, Begin(j, j) PROVE task'[i].head = i
    BY <1>1, <1>i, <1>same DEF Begin, Process
  <1>2. ASSUME NEW r \in Reporter, StartReport(r) PROVE task'[i].head = i
    <2>1. r # i /\ r \in Process
      BY EvalConstants DEF Process
    <2> QED BY <1>2, <2>1, <1>i, <1>same DEF StartReport, Begin
  <1>3. ASSUME NEW p \in Process, ResolveBase(p) PROVE task'[i].head = i
    BY <1>3, <1>i, <1>same DEF ResolveBase, Task
  <1>4. ASSUME NEW p \in Process, ReadDiff(p) PROVE task'[i].head = i
    <2>1. CASE p = i
      <3>1. task[i].head = i
        BY <1>4, <2>1, <1>i DEF ReadDiff
      <3>2. CASE task' = [task EXCEPT ![i].pc = "save"]
        BY <3>1, <3>2, <1>i DEF Task
      <3>3. ASSUME NEW built, task' = [task EXCEPT ![i] = [@ EXCEPT !.pc = "save", !.built = built]]
            PROVE  task'[i].head = i
        BY <3>1, <3>3, <1>i DEF Task
      <3> QED BY <1>4, <2>1, <3>2, <3>3 DEF ReadDiff
    <2>2. CASE p # i
      BY <1>4, <2>2, <1>i, <1>same DEF ReadDiff
    <2> QED BY <2>1, <2>2
  <1>5. ASSUME NEW p \in Process, SaveReport(p) PROVE task'[i].head = i
    <2>1. ASSUME task' = [task EXCEPT ![p].pc = "verdict"], task[p].pc = "save"
          PROVE  task'[i].head = i
      BY <2>1, <1>i, <1>same DEF Task
    <2> QED BY <1>5, <1>leave, <2>1 DEF SaveReport
  <1>6. ASSUME UNCHANGED task PROVE task'[i].head = i
    BY <1>6, <1>same
  <1>7. ASSUME NEW j \in Job, Dies(j) \/ Verdict(j) \/ Diffs(j) PROVE task'[i].head = i
    <2>1. j \in Process
      BY DEF Process
    <2> QED BY <1>7, <2>1, <1>leave, <1>1, <1>6 DEF Dies, Verdict, Diffs
  <1> QED
    BY <1>2, <1>3, <1>4, <1>5, <1>6, <1>7
    DEF Next, vars, StartRun, ReplayLanguage, SkipLanguage, InsertScores, FinishRun, Refuses

\* A build is red for a failure in a sound report that its run is the head of, and no
\* run fails against itself.
LEMMA RedStep == EvalInv /\ [Next]_vars => RedInv'
  <1> SUFFICES ASSUME EvalInv, [Next]_vars, NEW i \in Job, job'[i].exit = "regressed"
               PROVE  \E b \in Job \ {i} : (Fixed(b) /\ Fixed(i) /\ Comparable(b, i)
                                            /\ Failures(b, i) # {})'
    BY DEF RedInv
  <1> DEFINE Worse(b) == Fixed(b) /\ Fixed(i) /\ Comparable(b, i) /\ Failures(b, i) # {}
  <1>inv. TypeOK /\ TaskInv /\ GateInv /\ RedInv /\ job \in [Job -> JobState] /\ i \in Process
    BY DEF EvalInv, TypeOK, Process
  <1>stays. ASSUME NEW b \in Job \ {i}, Worse(b) PROVE \E r \in Job \ {i} : Worse(r)'
    <2>1. Fixed(b)' /\ Fixed(i)' /\ Failures(b, i)' = Failures(b, i)
            /\ Comparable(b, i)' = Comparable(b, i)
      BY <1>inv, <1>stays, DiffStays
    <2> QED BY <1>stays, <2>1
  <1>1. CASE job[i].exit = "regressed"
    <2>1. PICK b \in Job \ {i} : Worse(b)
      BY <1>inv, <1>1 DEF RedInv
    <2> QED BY <2>1, <1>stays
  <1>2. CASE job[i].exit # "regressed"
    <2>1. Verdict(i) /\ ShouldFailBuild(task[i].built)
      <3>1. ASSUME NEW j \in Job, NEW e \in {"green", "fatal", "killed"}, Exit(j, e) PROVE FALSE
        BY <3>1, <1>2, <1>inv DEF Exit, JobState
      <3>2. ASSUME NEW j \in Job, NEW pc \in {"finish", "ran", "gate"}, Goto(j, pc) PROVE FALSE
        BY <3>2, <1>2, <1>inv DEF Goto, JobState
      <3>3. ASSUME UNCHANGED job PROVE FALSE
        BY <3>3, <1>2
      <3>4. ASSUME NEW j \in Job, StartRun(j) \/ ReplayLanguage(j) \/ SkipLanguage(j) PROVE FALSE
        <4>1. CASE StartRun(j)
          BY <4>1, <1>2, <1>inv DEF StartRun, JobState
        <4>2. CASE ReplayLanguage(j)
          BY <4>2, <1>2, <1>inv DEF ReplayLanguage, JobState
        <4>3. CASE SkipLanguage(j)
          BY <4>3, <1>2, <1>inv DEF SkipLanguage, JobState
        <4> QED BY <3>4, <4>1, <4>2, <4>3
      <3>5. ASSUME NEW j \in Job, Verdict(j) PROVE i = j /\ ShouldFailBuild(task[j].built)
        BY <3>5, <3>1, <1>2, <1>inv DEF Verdict, Exit, JobState
      <3> QED
        BY <3>1, <3>2, <3>3, <3>4, <3>5
        DEF Next, vars, InsertScores, FinishRun, Dies, Refuses, Diffs, StartReport,
            ResolveBase, ReadDiff, SaveReport
    <2>2. task[i].head = i /\ task[i].built \in Report /\ Sound(task[i].built, i)
      BY <1>inv, <2>1 DEF Verdict, GateInv, TaskInv, TypeOK, Task
    <2>3. PICK b \in task[i].built.base : Worse(b)
      BY <2>1, <2>2 DEF ShouldFailBuild, Sound
    <2>4. b \in Job
      BY <2>2 DEF Report, Base
    <2>5. Failures(i, i) = {}
      <3>1. \A l \in Lang : scores[i][l] \in Int
        BY <1>inv, EvalConstants DEF TypeOK, Scores, NoScore
      <3> QED BY <3>1, EvalConstants DEF Failures
    <2> QED BY <2>3, <2>4, <2>5, <1>stays
  <1> QED BY <1>1, <1>2

LEMMA InvStep == EvalInv /\ [Next]_vars => EvalInv'
  BY TypeStep, RunStep, ReportStep, TaskStep, GateStep, RedStep DEF EvalInv

LEMMA Invariant == Spec => []EvalInv
  BY InitInv, InvStep, PTL DEF Spec

-----------------------------------------------------------------------------
(* The theorems. *)

\* What the tables and the processes hold is what the code declares, through every
\* interleaving of runs, reports and deaths.
THEOREM EvalTypeCorrect == Spec => []TypeOK
  <1>1. EvalInv => TypeOK
    BY DEF EvalInv
  <1> QED BY <1>1, Invariant, PTL

\* What the queries of evals.ts offer as a baseline has all of its scores, whenever a
\* process has died.
THEOREM BaselinesAreComplete == Spec => []BaselineIsComplete
  <1>1. EvalInv => BaselineIsComplete
    BY DEF EvalInv, TypeOK, RunInv, RunOK, BaselineIsComplete, Scoring
  <1> QED BY <1>1, Invariant, PTL

\* A stored report about finished runs (report.ts) can be rebuilt from the scores at
\* any later time, with the same verdict in it.
THEOREM ReportsAreRebuildable == Spec => []ReportIsRebuildable
  <1>1. EvalInv => ReportIsRebuildable
    BY DEF EvalInv, ReportInv, Sound, ReportIsRebuildable
  <1> QED BY <1>1, Invariant, PTL

\* The gate of cli.ts fails a build only where another run under the same configuration
\* is better by more than the threshold.
THEOREM RedBuildsAreWorse == Spec => []RedMeansWorse
  <1>1. EvalInv => RedMeansWorse
    BY DEF EvalInv, RedInv, RedMeansWorse
  <1> QED BY <1>1, Invariant, PTL
=============================================================================
