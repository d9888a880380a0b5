------------------------------- MODULE MCReplay -------------------------------
(***************************************************************************)
(* A golden set of three records, one of them in quarantine, for TLC.      *)
(***************************************************************************)
EXTENDS Replay

CONSTANTS a, b, ask, complain, noisy

MCGolden ==
  << [id |-> 1, expected_transcript |-> <<a, b>>, reference_translation |-> <<a, b>>,
      expected_intent |-> ask, tags |-> {}, usable |-> TRUE, pace |-> 1],
     [id |-> 2, expected_transcript |-> <<b>>, reference_translation |-> <<a, b>>,
      expected_intent |-> ask, tags |-> {noisy}, usable |-> FALSE, pace |-> 1],
     [id |-> 3, expected_transcript |-> <<a>>, reference_translation |-> <<b>>,
      expected_intent |-> complain, tags |-> {noisy}, usable |-> TRUE, pace |-> 3] >>

MCAnswers == {<<b, a>>}
=============================================================================
