------------------------------- MODULE EvalRun -------------------------------
(***************************************************************************)
(* The evaluation harness: processes that run `pnpm eval` and `pnpm        *)
(* eval:report` (packages/eval/src/cli.ts, run.ts, report.ts) against one  *)
(* shared Postgres (packages/db/src/evals.ts), as CI jobs and people do.   *)
(*                                                                         *)
(* A run belongs to the process that began it, and has its name.  Its      *)
(* scores are one gated metric per language, put so that more is better;   *)
(* the metrics that are not gated have no vote.  `setting` is what has to  *)
(* agree for two runs to be comparable: config hash and golden set         *)
(* version.  `started` is the clock of the machine that runs the process,  *)
(* and the clocks of two machines need not agree.                          *)
(*                                                                         *)
(* A command line flag is chosen where the code reads it.                  *)
(***************************************************************************)
EXTENDS Integers, FiniteSets

CONSTANTS
  Job,        \* processes that run `pnpm eval`, and their runs
  Reporter,   \* processes that run `pnpm eval:report`
  Lang,       \* languages of the golden set
  Commit,     \* git shas
  Setting,    \* config hash and golden set version
  MaxValue,   \* bound: scores are 0..MaxValue
  Threshold,  \* how much worse a score may get before the build fails
  MaxTime     \* bound: starts are 0..MaxTime

ASSUME EvalConstants ==
  /\ Job # {} /\ Commit # {} /\ Setting # {}
  /\ Job \cap Reporter = {}
  /\ MaxValue \in Nat
  /\ Threshold \in Nat
  /\ MaxTime \in Nat

VARIABLES
  runs,      \* the runs that have a row in eval_runs
  row,       \* [Job -> that row]
  scores,    \* [Job -> [Lang -> the score of the run in eval_scores, or NoScore]]
  reported,  \* the runs that have a row in eval_reports
  report,    \* [Job -> that row]
  job,       \* [Job -> the process: where it is and what it holds in memory]
  task       \* [Process -> the buildReport it is in]

vars == <<runs, row, scores, reported, report, job, task>>

-----------------------------------------------------------------------------
Process == Job \cup Reporter

NoScore == -1
Scores  == [Lang -> 0..MaxValue \cup {NoScore}]
Nothing == [l \in Lang |-> NoScore]

Row == [commit : Commit, setting : Setting, started : 0..MaxTime,
        finished : BOOLEAN, records_scored : Nat]

\* How the baseline was named: not at all, "auto" or "latest"; by run id; by sha.
Ref == {"previous", "run", "commit"}

\* A baseline is a set of one run, or empty.
Base == {{}} \cup {{r} : r \in Job}

\* settled (history): had both runs finished when the diff was read?
Report == [base : Base, comparable : BOOLEAN,
           failures : SUBSET Lang, settled : BOOLEAN]

NoReport == [base |-> {}, comparable |-> FALSE, failures |-> {}, settled |-> FALSE]

JobState == [pc : {"idle", "replay", "finish", "ran", "gate", "done"},
             todo : SUBSET Lang, got : Scores, recordsScored : Nat,
             exit : {"none", "green", "regressed", "fatal", "killed"}]

Task == [pc : {"idle", "resolve", "diff", "save", "verdict", "done"},
         head : Job, built : Report]

NoTask(pc) == [pc |-> pc, head |-> CHOOSE j \in Job : TRUE, built |-> NoReport]

TypeOK ==
  /\ runs \subseteq Job
  /\ row \in [Job -> Row]
  /\ scores \in [Job -> Scores]
  /\ reported \subseteq Job
  /\ report \in [Job -> Report]
  /\ job \in [Job -> JobState]
  /\ task \in [Process -> Task]

Init ==
  /\ runs = {}
  /\ row = [j \in Job |-> [commit |-> CHOOSE c \in Commit : TRUE,
                           setting |-> CHOOSE s \in Setting : TRUE,
                           started |-> 0, finished |-> FALSE, records_scored |-> 0]]
  /\ scores = [j \in Job |-> Nothing]
  /\ reported = {}
  /\ report = [j \in Job |-> NoReport]
  /\ job = [j \in Job |-> [pc |-> "idle", todo |-> {}, got |-> Nothing, recordsScored |-> 0,
                           exit |-> "none"]]
  /\ task = [p \in Process |-> NoTask("idle")]

-----------------------------------------------------------------------------
(* Queries (evals.ts). *)

\* A run that scored nothing is not a run you can diff against.
Scoring(r) == r \in runs /\ row[r].records_scored > 0

\* ORDER BY started_at DESC LIMIT 1: one of the newest, as a set of at most one.
Newest(S) == IF S = {} THEN {{}}
             ELSE {{r} : r \in {q \in S : \A o \in S : row[o].started <= row[q].started}}

PreviousRun(h) == Newest({r \in Job : Scoring(r) /\ row[r].started < row[h].started})

RunForGitSha(c) == Newest({r \in Job : Scoring(r) /\ row[r].commit = c})

\* The languages in which head is worse than base by more than the threshold; a
\* score that only one of them has fails nothing.
Failures(base, head) ==
  {l \in Lang : /\ scores[base][l] # NoScore
                /\ scores[head][l] # NoScore
                /\ scores[base][l] - scores[head][l] > Threshold}

Comparable(base, head) == row[base].setting = row[head].setting

-----------------------------------------------------------------------------
(* pnpm eval: runEval (run.ts) and doRun (cli.ts). *)

Goto(j, pc) == job' = [job EXCEPT ![j].pc = pc]
Exit(j, e)  == job' = [job EXCEPT ![j].pc = "done", ![j].exit = e, ![j].todo = {}]

\* buildReport begins, and the command has no more use for what it built.
Begin(p, head) == task' = [task EXCEPT ![p] = [pc |-> "resolve", head |-> head,
                                               built |-> NoReport]]
Leave(p) == task' = [task EXCEPT ![p] = NoTask("done")]

\* startRun
StartRun(j) ==
  /\ job[j].pc = "idle"
  /\ runs' = runs \cup {j}
  /\ \E c \in Commit, s \in Setting, t \in 0..MaxTime :
       row' = [row EXCEPT ![j] = [commit |-> c, setting |-> s, started |-> t,
                                  finished |-> FALSE, records_scored |-> 0]]
  /\ \E langs \in SUBSET Lang \ {{}} :
       job' = [job EXCEPT ![j].pc = "replay", ![j].todo = langs]
  /\ UNCHANGED <<scores, reported, report, task>>

\* The records of a language are replayed and scored (module Replay), whatever became
\* of their hops: each counts as scored.
ReplayLanguage(j) ==
  /\ job[j].pc = "replay"
  /\ \E l \in job[j].todo, value \in 0..MaxValue :
       job' = [job EXCEPT ![j].todo = @ \ {l},
                          ![j].got[l] = value,
                          ![j].recordsScored = @ + 1]
  /\ UNCHANGED <<runs, row, scores, reported, report, task>>

\* No usable golden records.
SkipLanguage(j) ==
  /\ job[j].pc = "replay"
  /\ \E l \in job[j].todo : job' = [job EXCEPT ![j].todo = @ \ {l}]
  /\ UNCHANGED <<runs, row, scores, reported, report, task>>

\* (mutant) an insert that fails is logged and forgotten
InsertScoresOrNot(j) ==
  /\ job[j].pc = "replay"
  /\ job[j].todo = {}
  /\ \E written \in {job[j].got, Nothing} : scores' = [scores EXCEPT ![j] = written]
  /\ Goto(j, "finish")
  /\ UNCHANGED <<runs, row, reported, report, task>>

\* insertScores: one statement for all of them.
InsertScores(j) ==
  /\ job[j].pc = "replay"
  /\ job[j].todo = {}
  /\ scores' = [scores EXCEPT ![j] = job[j].got]
  /\ Goto(j, "finish")
  /\ UNCHANGED <<runs, row, reported, report, task>>

\* (mutant) finishRun is called before the scores are inserted
FinishRunFirst(j) ==
  /\ job[j].pc = "replay"
  /\ job[j].todo = {}
  /\ row' = [row EXCEPT ![j].finished = TRUE, ![j].records_scored = job[j].recordsScored]
  /\ UNCHANGED <<runs, scores, reported, report, job, task>>

\* insertSamples, and then finishRun.
FinishRun(j) ==
  /\ job[j].pc = "finish"
  /\ row' = [row EXCEPT ![j].finished = TRUE, ![j].records_scored = job[j].recordsScored]
  /\ Goto(j, "ran")
  /\ UNCHANGED <<runs, scores, reported, report, task>>

\* The process is killed, or what it needs is not there: a statement, a golden file,
\* the intent classifier or the judge throws.
Dies(j) ==
  /\ job[j].pc \notin {"idle", "done"}
  /\ Exit(j, "killed")
  /\ Leave(j)
  /\ UNCHANGED <<runs, row, scores, reported, report>>

\* "Refusing to report a green run that measured nothing."
Refuses(j) ==
  /\ job[j].pc = "ran"
  /\ job[j].recordsScored = 0
  /\ Exit(j, "fatal")
  /\ UNCHANGED <<runs, row, scores, reported, report, task>>

\* The end of doRun: print the diff that --against asks for, then gate.
Diffs(j) ==
  /\ job[j].pc = "ran"
  /\ job[j].recordsScored > 0
  /\ \/ Goto(j, "gate") /\ Begin(j, j)       \* --fail-on-regression
     \/ Exit(j, "green") /\ UNCHANGED task    \* without it
     \/ Exit(j, "fatal") /\ UNCHANGED task    \* --against a sha: not an id
  /\ UNCHANGED <<runs, row, scores, reported, report>>

-----------------------------------------------------------------------------
(* buildReport (report.ts), for the gate of a run or for `pnpm eval:report`. *)

\* doReport: the latest scoring run, or the one asked for, whatever became of it.
StartReport(r) ==
  /\ task[r].pc = "idle"
  /\ \E head \in runs : Begin(r, head)
  /\ UNCHANGED <<runs, row, scores, reported, report, job>>

\* What --against may say.  The gate of a run never sees a sha: doDiff has looked it
\* up as a run id by then, and Postgres refuses it.
RefsOf(p) == IF p \in Job THEN {"previous", "run"} ELSE Ref

\* What a reference names now.
BasesOf(by, head) ==
  CASE by = "previous" -> PreviousRun(head)
    [] by = "run"      -> {{r} : r \in runs} \cup {{}}
    [] by = "commit"   -> UNION {RunForGitSha(c) : c \in Commit}

ResolveBase(p) ==
  /\ task[p].pc = "resolve"
  /\ \E by \in RefsOf(p) : \E base \in BasesOf(by, task[p].head) :
       task' = [task EXCEPT ![p].pc = "diff", ![p].built.base = base]
  /\ UNCHANGED <<runs, row, scores, reported, report, job>>

\* diffRuns and summarize.
Summarize(base, head) ==
  [base |-> {base}, comparable |-> Comparable(base, head), failures |-> Failures(base, head),
   settled |-> row[base].finished /\ row[head].finished]

ReadDiff(p) ==
  /\ task[p].pc = "diff"
  /\ \/ \E base \in task[p].built.base :
          task' = [task EXCEPT ![p] = [@ EXCEPT !.pc = "save",
                                                !.built = Summarize(base, task[p].head)]]
     \/ task[p].built.base = {} /\ task' = [task EXCEPT ![p].pc = "save"]
  /\ UNCHANGED <<runs, row, scores, reported, report, job>>

\* saveReport: overwrites.
SaveReport(p) ==
  /\ task[p].pc = "save"
  /\ reported' = reported \cup {task[p].head}
  /\ report' = [report EXCEPT ![task[p].head] = task[p].built]
  /\ IF p \in Job THEN task' = [task EXCEPT ![p].pc = "verdict"] ELSE Leave(p)
  /\ UNCHANGED <<runs, row, scores, job>>

\* (mutant) a regression fails the build whatever the configurations
FailsAnyway(built) == built.failures # {}

\* summarize: an incomparable diff never fails a build.
ShouldFailBuild(built) == built.comparable /\ built.failures # {}

\* gate: the verdict on the build.
Verdict(j) ==
  /\ job[j].pc = "gate"
  /\ task[j].pc = "verdict"
  /\ Exit(j, IF ShouldFailBuild(task[j].built) THEN "regressed" ELSE "green")
  /\ Leave(j)
  /\ UNCHANGED <<runs, row, scores, reported, report>>

-----------------------------------------------------------------------------
Next ==
  \/ \E j \in Job :
       \/ StartRun(j) \/ ReplayLanguage(j) \/ SkipLanguage(j) \/ InsertScores(j)
       \/ FinishRun(j) \/ Dies(j) \/ Refuses(j) \/ Diffs(j) \/ Verdict(j)
  \/ \E r \in Reporter : StartReport(r)
  \/ \E p \in Process : ResolveBase(p) \/ ReadDiff(p) \/ SaveReport(p)

Spec == Init /\ [][Next]_vars

-----------------------------------------------------------------------------
(* Properties. *)

\* A run that the queries offer as a baseline has all its scores in the table, however
\* a process died: records_scored is written after them (runEval's last statements).
BaselineIsComplete ==
  \A r \in Job : Scoring(r) => scores[r] = job[r].got /\ scores[r] # Nothing

\* A stored report about runs that had finished says what the diff of the two says
\* now (report.ts: "a cache of a pure function of eval_scores"): the dashboard and a
\* gate that compare the same two runs agree, whenever each of them looked.
ReportIsRebuildable ==
  \A h \in reported : report[h].settled =>
    \A b \in report[h].base : /\ report[h].failures = Failures(b, h)
                              /\ report[h].comparable = Comparable(b, h)

\* A red build is never noise of the harness: another run, under the same
\* configuration, scored some language better by more than the threshold.
RedMeansWorse ==
  \A j \in Job : job[j].exit = "regressed" =>
    \E b \in Job \ {j} : Comparable(b, j) /\ Failures(b, j) # {}

-----------------------------------------------------------------------------
(* Statements of the repository that the code does not keep. *)

\* cli.ts: when the gate fails a build "the scores are already written and the report
\* already stored".  A run that scored, was not killed, and is red has its report.
RedBuildHasItsReport ==
  \A j \in Job : Scoring(j) /\ job[j].exit \in {"regressed", "fatal"} => j \in reported
=============================================================================
