-------------------------------- MODULE Floor --------------------------------
(***************************************************************************)
(* What the voice gateway promises a caller, without its queues, sockets   *)
(* or workflows: turns take the floor one after another, a turn that lost  *)
(* it never has it again, and the caller is sent speech only from the turn *)
(* that holds it.                                                          *)
(***************************************************************************)
EXTENDS Naturals

CONSTANT MaxTurns

VARIABLES
  begun,   \* turns that have taken the floor so far
  floor,   \* the turn that holds it, 0 when nobody does
  aired    \* [Turn -> pieces of its speech sent to the caller]

vars == <<begun, floor, aired>>

Turn == 1..MaxTurns

Init ==
  /\ begun = 0
  /\ floor = 0
  /\ aired = [n \in Turn |-> 0]

\* The caller speaks: the next turn takes the floor, whoever holds it.
Take ==
  /\ begun < MaxTurns
  /\ begun' = begun + 1
  /\ floor' = begun + 1
  /\ UNCHANGED aired

\* The holder is done, or the caller has gone.
Yield ==
  /\ floor # 0
  /\ floor' = 0
  /\ UNCHANGED <<begun, aired>>

Speak ==
  /\ floor # 0
  /\ aired' = [aired EXCEPT ![floor] = @ + 1]
  /\ UNCHANGED <<begun, floor>>

Spec == Init /\ [][Take \/ Yield \/ Speak]_vars
=============================================================================
