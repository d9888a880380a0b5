-------------------------------- MODULE Flow --------------------------------
(***************************************************************************)
(* The flow a call runs with (packages/shared/src/flow.ts), as data: its   *)
(* knobs, how a request for some of them is resolved against a base, and   *)
(* the fingerprint that every trace names its configuration by.            *)
(*                                                                         *)
(* A knob is chosen from a roster (mode, lang, model, thinking, speaker)   *)
(* or is a number within limits (temperature, maxTokens, pace).  One       *)
(* roster and one pair of limits stand for those of all the knobs.         *)
(***************************************************************************)
EXTENDS Integers

CONSTANTS
  Choice,         \* the knobs that are chosen from a roster
  Number,         \* the knobs that are numbers
  Option,         \* the roster
  Low, High,      \* FLOW_LIMITS
  Unhashed,       \* the knobs that are not fingerprinted: stt.lang
  DefaultOption,  \* DEFAULT_FLOW
  DefaultNumber,
  EnvKnob,        \* the knobs this deployment sets: LLM_MODEL, TTS_SPEAKER
  EnvSetting      \* what it sets them to, which may be a typo

ASSUME FlowConstants ==
  /\ Choice \cap Number = {}
  /\ Option \cap Int = {}
  /\ Low \in Int /\ High \in Int /\ DefaultNumber \in Low..High
  /\ DefaultOption \in Option
  /\ EnvKnob \subseteq Choice

Knob == Choice \cup Number
Setting(k) == IF k \in Choice THEN Option ELSE Low..High

FlowConfig ==
  {f \in [Knob -> Option \cup Low..High] : \A k \in Knob : f[k] \in Setting(k)}

\* A FlowPatch is a function on the knobs it mentions, to anything at all.
Move(k, v) == [x \in {k} |-> v]

Clamp(v) == IF v < Low THEN Low ELSE IF v > High THEN High ELSE v

\* The guards of flow.ts: what a knob is set to when it is asked to be v.
Resolved(k, v, fallback) ==
  IF k \in Choice THEN IF v \in Option THEN v ELSE fallback
                  ELSE IF v \in Int THEN Clamp(v) ELSE fallback

\* sanitizeFlow: what is not asked for, or cannot be had, is the base's.
Sanitize(patch, base) ==
  [k \in Knob |-> IF k \in DOMAIN patch THEN Resolved(k, patch[k], base[k]) ELSE base[k]]

DefaultFlow == [k \in Knob |-> IF k \in Choice THEN DefaultOption ELSE DefaultNumber]

\* serverDefaultFlow: the environment's word goes through the same guards.
ServerDefaultFlow == Sanitize([k \in EnvKnob |-> EnvSetting], DefaultFlow)

\* flowFingerprint, and configHashOf, which is taken to collide never.
Fingerprint(f) == [k \in Knob \ Unhashed |-> f[k]]
=============================================================================
