--------------------------------- MODULE Vad ---------------------------------
(***************************************************************************)
(* The gateway's voice-activity detector (apps/gateway/src/vad.ts): energy *)
(* and hysteresis over frames of the caller's microphone.  A frame is only *)
(* loud or quiet here, and silence is counted in frames.                   *)
(***************************************************************************)
EXTENDS Naturals

CONSTANTS
  SpeechFrames,    \* loud frames in a row that make speech (2 in vad.ts)
  HangoverFrames   \* quiet frames in a row that end it (600 ms in vad.ts)

ASSUME VadConstants ==
  /\ SpeechFrames \in Nat \ {0}
  /\ HangoverFrames \in Nat \ {0}

\* #speaking, #loudFrames and #silenceMs.
VadState ==
  {v \in [speaking : BOOLEAN, loud : 0..SpeechFrames, quiet : 0..HangoverFrames - 1] :
     ~v.speaking => v.loud < SpeechFrames}

VadSilent == [speaking |-> FALSE, loud |-> 0, quiet |-> 0]

\* (mutant) an utterance that ends leaves its silence on the counter
VadEnds(v) == [v EXCEPT !.speaking = FALSE]

\* The utterance is over: everything starts again.
VadReset(v) == VadSilent

\* push(): the event of one frame, and the detector after it.
VadEvent(v, loud) ==
  IF v.speaking
    THEN IF ~loud /\ v.quiet + 1 >= HangoverFrames THEN "speech-end" ELSE "none"
    ELSE IF loud /\ v.loud + 1 >= SpeechFrames THEN "speech-start" ELSE "none"

VadNext(v, loud) ==
  CASE VadEvent(v, loud) = "speech-end" -> VadReset(v)
    [] VadEvent(v, loud) = "speech-start" ->
         [v EXCEPT !.speaking = TRUE, !.loud = v.loud + 1, !.quiet = 0]
    [] OTHER ->
         IF v.speaking THEN [v EXCEPT !.quiet = IF loud THEN 0 ELSE v.quiet + 1]
                       ELSE [v EXCEPT !.loud = IF loud THEN v.loud + 1 ELSE 0]
=============================================================================
