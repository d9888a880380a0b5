SPECIFICATION Spec
CONSTANTS
  a = a
  b = b
  ask = ask
  complain = complain
  noisy = noisy
  Word = {a, b}
  MaxWords = 3
  MaxTime = 2
  MaxN = 3
  MinPairs = 2
  Intent = {ask, complain}
  Tag = {noisy}
  Golden <- MCGolden
  Answers <- MCAnswers
  Opinions = {11}
  NotANumber = NotANumber
INVARIANTS TypeOK ScorersAgreeWithTheirDefinitions SamplesExplainScores EveryRecordIsClassified DeafnessShowsDownstream
CHECK_DEADLOCK FALSE
