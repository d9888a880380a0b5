----------------------------- MODULE FlowProofs -----------------------------
(* Theorems about Flow and FlowPage, for every roster, limit and environment, *)
(* and every number of calls, moves, turns and tries.                         *)
EXTENDS FlowPage, SequenceTheorems, TLAPS

-----------------------------------------------------------------------------
(* The guards of flow.ts. *)

\* Whatever is asked for, a number stays within its limits.
LEMMA ClampWithin ==
  ASSUME NEW v \in Int
  PROVE  Clamp(v) \in Low..High /\ (v \in Low..High => Clamp(v) = v)
BY FlowConstants DEF Clamp

\* A knob is resolved to a setting of its own, whatever it is asked to be.
LEMMA ResolvedIsASetting ==
  ASSUME NEW k \in Knob, NEW v, NEW fallback \in Setting(k)
  PROVE  Resolved(k, v, fallback) \in Setting(k)
BY ClampWithin, FlowConstants DEF Resolved, Setting, Knob

\* A flow is a setting for every knob.
LEMMA FlowIsSettings ==
  ASSUME NEW f, f = [k \in Knob |-> f[k]], \A k \in Knob : f[k] \in Setting(k)
  PROVE  f \in FlowConfig
<1>1. \A k \in Knob : f[k] \in Option \cup Low..High
  BY DEF Setting
<1> QED
  BY <1>1 DEF FlowConfig

\* sanitizeFlow is total: from a base that the hops can honour, and from any
\* request at all, it makes a flow that the hops can honour.
THEOREM SanitizeIsTotal ==
  ASSUME NEW patch, NEW base \in FlowConfig
  PROVE  Sanitize(patch, base) \in FlowConfig
<1> DEFINE f == Sanitize(patch, base)
<1>1. ASSUME NEW k \in Knob PROVE f[k] \in Setting(k)
  BY ResolvedIsASetting DEF Sanitize, FlowConfig
<1>2. f = [k \in Knob |-> f[k]]
  BY DEF Sanitize
<1> QED
  BY <1>1, <1>2, FlowIsSettings

\* A whole flow that has been resolved once is resolved to itself, whatever the
\* base: what the gateway answered is what a call started with it will run.
THEOREM SanitizeIsIdempotent ==
  ASSUME NEW f \in FlowConfig, NEW base \in FlowConfig
  PROVE  Sanitize(f, base) = f
<1>1. ASSUME NEW k \in Knob PROVE Sanitize(f, base)[k] = f[k]
  <2>1. f[k] \in Setting(k) /\ k \in DOMAIN f
    BY DEF FlowConfig
  <2>2. CASE k \in Choice
    BY <2>1, <2>2 DEF Sanitize, Resolved, Setting
  <2>3. CASE k \notin Choice
    <3>1. f[k] \in Low..High /\ f[k] \in Int
      BY <2>1, <2>3, FlowConstants DEF Setting
    <3> QED
      BY <2>1, <2>3, <3>1, ClampWithin DEF Sanitize, Resolved
  <2> QED
    BY <2>2, <2>3
<1>2. f = [k \in Knob |-> f[k]]
  BY DEF FlowConfig
<1> QED
  BY <1>1, <1>2 DEF Sanitize

LEMMA ServerFlow == DefaultFlow \in FlowConfig /\ ServerDefaultFlow \in FlowConfig
<1>1. \A k \in Knob : DefaultFlow[k] \in Setting(k)
  BY FlowConstants DEF DefaultFlow, Setting, Knob
<1>2. DefaultFlow = [k \in Knob |-> DefaultFlow[k]]
  BY DEF DefaultFlow
<1>3. DefaultFlow \in FlowConfig
  BY <1>1, <1>2, FlowIsSettings
<1> QED
  BY <1>3, SanitizeIsTotal DEF ServerDefaultFlow

LEMMA HashOfAFlow == \A f \in FlowConfig : Fingerprint(f) \in Hash
BY DEF Hash

-----------------------------------------------------------------------------
(* The wire. *)

\* A message is a flow with its hash, or a turn.
LEMMA MessageKinds ==
  ASSUME NEW m \in Message
  PROVE  /\ "flow" \in DOMAIN m => m.flow \in FlowConfig /\ m.hash \in Hash
         /\ "turn" \in DOMAIN m => m.turn \in Turn
BY DEF Message

\* The first of a queue is one of it, and the others keep their order.
LEMMA QueueTaken ==
  ASSUME NEW S, NEW q \in Seq(S), q # << >>
  PROVE  /\ Head(q) \in S /\ Tail(q) \in Seq(S)
         /\ Head(q) = q[1] /\ 1 \in DOMAIN q
         /\ \A i \in DOMAIN Tail(q) : i + 1 \in DOMAIN q /\ Tail(q)[i] = q[i + 1]
<1>1. Len(q) \in Nat /\ Len(q) > 0 /\ DOMAIN q = 1..Len(q)
  BY EmptySeq
<1>2. Len(Tail(q)) = Len(q) - 1 /\ Tail(q) \in Seq(S) /\ Head(q) = q[1] /\ Head(q) \in S
  BY HeadTailProperties, <1>1
<1>3. DOMAIN Tail(q) = 1..(Len(q) - 1)
  BY <1>1, <1>2
<1>4. \A i \in 1..(Len(q) - 1) : Tail(q)[i] = q[i + 1]
  BY <1>1
<1> QED
  BY <1>1, <1>2, <1>3, <1>4

\* A queue with one more at its end.
LEMMA QueueGrown ==
  ASSUME NEW S, NEW q \in Seq(S), NEW m \in S
  PROVE  /\ Append(q, m) \in Seq(S)
         /\ \A i \in DOMAIN Append(q, m) :
             (i \in DOMAIN q /\ Append(q, m)[i] = q[i]) \/ Append(q, m)[i] = m
BY AppendProperties

\* A knob moved is a request, and so is a flow.
LEMMA RequestsArePatches ==
  /\ FlowConfig \subseteq Patch
  /\ \A k \in Knob : \A v \in Setting(k) : Move(k, v) \in Patch
BY DEF Patch

\* What a session makes of a request is a pair that belongs together.
LEMMA AppliedIsAPair ==
  ASSUME NEW patch
  PROVE  /\ ApplyFlow(patch) \in Session
         /\ ApplyFlow(patch) \in Message
         /\ "flow" \in DOMAIN ApplyFlow(patch)
         /\ ApplyFlow(patch).hash = Fingerprint(ApplyFlow(patch).flow)
<1>1. Sanitize(patch, ServerDefaultFlow) \in FlowConfig
  BY ServerFlow, SanitizeIsTotal
<1> QED
  BY <1>1, HashOfAFlow DEF ApplyFlow, Session, Message

-----------------------------------------------------------------------------
(* Types. *)

LEMMA InitType == Init => TypeOK
<1> SUFFICES ASSUME Init PROVE TypeOK
  OBVIOUS
<1>1. NewSession \in Session
  BY ServerFlow, HashOfAFlow DEF NewSession, Session
<1>2. flow \in FlowConfig /\ hash \in Hash \cup {NoHash}
  BY ServerFlow DEF Init
<1>3. /\ made \in 0..MaxCalls /\ moves \in 0..MaxMoves
      /\ polls \in [Turn -> 0..MaxTries]
  BY PageConstants DEF Init
<1>4. /\ up \in [Call -> Seq(Patch)] /\ down \in [Call -> Seq(Message)]
      /\ turns \in Seq(ActiveTurn)
  BY DEF Init
<1>5. session \in [Call -> Session]
  BY <1>1 DEF Init
<1> QED
  BY <1>2, <1>3, <1>4, <1>5 DEF Init, TypeOK, NoCall, NoTurn, Phase

LEMMA SeedType ==
  ASSUME TypeOK, SeedLands \/ SeedFails
  PROVE  TypeOK'
<1>1. CASE SeedLands
  BY <1>1, ServerFlow, HashOfAFlow
     DEF TypeOK, SeedLands, Draw, callVars, wireVars, traceVars
<1>2. CASE SeedFails
  BY <1>2 DEF TypeOK, SeedFails, canvasVars, callVars, wireVars, traceVars
<1> QED
  BY <1>1, <1>2

LEMMA MoveKnobType ==
  ASSUME TypeOK, NEW k \in Knob, NEW v \in Setting(k), MoveKnob(k, v)
  PROVE  TypeOK'
<1>1. moves' \in 0..MaxMoves
  BY PageConstants DEF TypeOK, MoveKnob
<1>2. flow' \in FlowConfig /\ hash' \in Hash \cup {NoHash}
  BY SanitizeIsTotal DEF TypeOK, MoveKnob, Preview, Draw, canvasVars
<1>3. up' \in [Call -> Seq(Patch)]
  <2>1. CASE current # NoCall /\ up' = [up EXCEPT ![current] = Append(@, Move(k, v))]
    <3>1. current \in Call /\ up[current] \in Seq(Patch)
      BY <2>1 DEF TypeOK
    <3>2. Append(up[current], Move(k, v)) \in Seq(Patch)
      BY <3>1, RequestsArePatches, QueueGrown
    <3> QED
      BY <2>1, <3>2 DEF TypeOK
  <2>2. CASE up' = up
    BY <2>2 DEF TypeOK
  <2> QED
    BY <2>1, <2>2 DEF MoveKnob
<1> QED
  BY <1>1, <1>2, <1>3 DEF TypeOK, MoveKnob, callVars, traceVars

LEMMA SilentType ==
  ASSUME TypeOK, NEW c \in Call, Silent(c)
  PROVE  up' \in [Call -> Seq(Patch)] /\ down' \in [Call -> Seq(Message)]
BY DEF TypeOK, Silent

LEMMA RunType ==
  ASSUME TypeOK, Run
  PROVE  TypeOK'
<1>1. made + 1 \in Call /\ made' \in 0..MaxCalls
  BY PageConstants DEF TypeOK, Run, Call
<1>2. <<flow>> \in Seq(Patch)
  BY RequestsArePatches DEF TypeOK
<1>3. up' \in [Call -> Seq(Patch)]
  BY <1>1, <1>2 DEF TypeOK, Run
<1>4. tangled' \in BOOLEAN /\ overlap' \in BOOLEAN
  BY DEF TypeOK, Run
<1> QED
  BY <1>1, <1>3, <1>4 DEF TypeOK, Run, canvasVars, Phase, NoTurn

LEMMA CallType ==
  ASSUME TypeOK, NEW c \in Call,
         MicGranted(c) \/ MicRefused(c) \/ Opens(c) \/ SocketCloses(c) \/ Stopped(c) \/ HangUp
  PROVE  TypeOK'
<1>1. CASE MicGranted(c) \/ Opens(c)
  BY ZenonT(40), <1>1 DEF TypeOK, MicGranted, Opens, Phase, canvasVars, wireVars, traceVars
<1>2. CASE MicRefused(c) \/ SocketCloses(c)
  BY ZenonT(40), <1>2, SilentType DEF TypeOK, MicRefused, SocketCloses, Phase, canvasVars, traceVars
<1>3. CASE Stopped(c)
  BY <1>3 DEF TypeOK, Stopped, StatusAfterStop, NoCall, canvasVars, wireVars, traceVars
<1>4. CASE HangUp
  <2>1. current \in Call
    BY <1>4 DEF TypeOK, HangUp
  <2>2. up' \in [Call -> Seq(Patch)] /\ down' \in [Call -> Seq(Message)]
    BY <1>4, <2>1, SilentType DEF TypeOK, HangUp, wireVars
  <2> QED
    BY <1>4, <2>1, <2>2 DEF TypeOK, HangUp, Phase, canvasVars, traceVars
<1> QED
  BY <1>1, <1>2, <1>3, <1>4

LEMMA GatewayType ==
  ASSUME TypeOK, NEW c \in Call, GatewayReceives(c)
  PROVE  TypeOK'
<1> DEFINE applied == ApplyFlow(Head(up[c]))
<1>1. applied \in Session /\ applied \in Message
  BY AppliedIsAPair
<1>2. up[c] \in Seq(Patch) /\ down[c] \in Seq(Message)
  BY DEF TypeOK
<1>3. Append(down[c], applied) \in Seq(Message) /\ Tail(up[c]) \in Seq(Patch)
  BY <1>1, <1>2, QueueGrown, QueueTaken DEF GatewayReceives
<1>4. /\ session' = [session EXCEPT ![c] = applied]
      /\ down' = [down EXCEPT ![c] = Append(@, applied)]
      /\ up' = [up EXCEPT ![c] = Tail(@)]
  BY DEF GatewayReceives
<1> HIDE DEF applied
<1>5. /\ session' \in [Call -> Session]
      /\ down' \in [Call -> Seq(Message)]
      /\ up' \in [Call -> Seq(Patch)]
  BY <1>1, <1>3, <1>4 DEF TypeOK
<1> QED
  BY SMTT(30), <1>5 DEF TypeOK, GatewayReceives, canvasVars, callVars, traceVars

\* The turn that begins is frozen to the pair of its session.
LEMMA TurnBeginsType ==
  ASSUME TypeOK, NEW c \in Call, TurnBegins(c)
  PROVE  TypeOK'
<1> DEFINE new == [call |-> c, ended |-> FALSE,
                   flow |-> session[c].flow, hash |-> session[c].hash]
<1>1. new \in ActiveTurn
  BY DEF TypeOK, Session, ActiveTurn
<1>2. turns' = Append(turns, new)
  BY DEF TurnBegins
<1> HIDE DEF new
<1>3. turns' \in Seq(ActiveTurn)
  BY <1>1, <1>2, QueueGrown DEF TypeOK
<1> QED
  BY <1>3 DEF TypeOK, TurnBegins, canvasVars, callVars, wireVars, traceVars

LEMMA TurnEndsType ==
  ASSUME TypeOK, NEW t \in Turn, TurnEnds(t)
  PROVE  TypeOK'
<1>1. turns[t] \in ActiveTurn /\ turns[t].call \in Call
  <2>1. turns \in Seq(ActiveTurn) /\ t \in DOMAIN turns
    BY DEF TypeOK, TurnEnds
  <2>2. turns[t] \in ActiveTurn
    BY <2>1
  <2> QED
    BY <2>2 DEF ActiveTurn
<1>2. turns' \in Seq(ActiveTurn)
  <2>1. [turns[t] EXCEPT !.ended = TRUE] \in ActiveTurn
    BY <1>1 DEF ActiveTurn
  <2>2. turns' = [turns EXCEPT ![t] = [turns[t] EXCEPT !.ended = TRUE]]
    BY DEF TurnEnds
  <2> QED
    BY SMTT(30), <2>1, <2>2 DEF TypeOK, TurnEnds
<1>3. down' \in [Call -> Seq(Message)]
  <2> DEFINE c == turns[t].call
  <2>1. down[c] \in Seq(Message) /\ [turn |-> t] \in Message
    BY <1>1 DEF TypeOK, Message
  <2>2. Append(down[c], [turn |-> t]) \in Seq(Message)
    BY <2>1, QueueGrown
  <2>3. down' = down \/ down' = [down EXCEPT ![c] = Append(@, [turn |-> t])]
    BY DEF TurnEnds
  <2> HIDE DEF c
  <2> QED
    BY <2>2, <2>3 DEF TypeOK
<1> QED
  BY SMTT(30), <1>2, <1>3 DEF TypeOK, TurnEnds, canvasVars, callVars, traceVars

LEMMA AnswerType ==
  ASSUME TypeOK, NEW c \in Call, FlowAnswered(c) \/ TurnReported(c)
  PROVE  TypeOK'
<1>1. down[c] \in Seq(Message) /\ down[c] # << >>
  BY DEF TypeOK, FlowAnswered, TurnReported
<1>2. Head(down[c]) \in Message /\ Tail(down[c]) \in Seq(Message)
  BY <1>1, QueueTaken
<1>3. down' \in [Call -> Seq(Message)]
  BY <1>2 DEF TypeOK, FlowAnswered, TurnReported
<1>4. CASE FlowAnswered(c)
  <2>1. flow' \in FlowConfig /\ hash' \in Hash
    BY <1>2, <1>4, MessageKinds DEF FlowAnswered, Draw
  <2> QED
    BY ZenonT(40), <1>3, <1>4, <2>1 DEF TypeOK, FlowAnswered, callVars, traceVars
<1>5. CASE TurnReported(c)
  <2>1. Head(down[c]).turn \in Turn
    BY <1>2, <1>5, MessageKinds DEF TurnReported
  <2>2. polls' \in [Turn -> 0..MaxTries] /\ turn' \in Turn /\ overlap' \in BOOLEAN
    BY <1>5, <2>1, PageConstants DEF TypeOK, TurnReported
  <2> QED
    BY <1>3, <1>5, <2>2 DEF TypeOK, TurnReported, canvasVars, callVars
<1> QED
  BY <1>4, <1>5

LEMMA PollType ==
  ASSUME TypeOK, NEW t \in Turn, Poll(t)
  PROVE  TypeOK'
<1>1. polls' \in [Turn -> 0..MaxTries]
  BY PageConstants DEF TypeOK, Poll, TriesLeft
<1> QED
  BY <1>1 DEF TypeOK, Poll, RowsOf, canvasVars, callVars, wireVars, traceVars

LEMMA TypeStep == TypeOK /\ [Next]_vars => TypeOK'
<1> SUFFICES ASSUME TypeOK, [Next]_vars PROVE TypeOK'
  OBVIOUS
<1>1. CASE UNCHANGED vars
  BY <1>1 DEF TypeOK, vars, canvasVars, callVars, wireVars, traceVars
<1>2. CASE Run
  BY <1>2, RunType
<1>3. CASE HangUp \/ HangUpNothing
  <2>1. CASE HangUp
    <3>1. current \in Call
      BY <2>1 DEF TypeOK, HangUp
    <3> QED
      BY <2>1, <3>1, CallType
  <2>2. CASE HangUpNothing
    BY <2>2 DEF TypeOK, HangUpNothing, canvasVars, callVars, wireVars, traceVars
  <2> QED
    BY <1>3, <2>1, <2>2
<1>4. ASSUME NEW k \in Knob, NEW v \in Setting(k), MoveKnob(k, v) PROVE TypeOK'
  BY <1>4, MoveKnobType
<1>5. ASSUME NEW c \in Call,
             MicGranted(c) \/ MicRefused(c) \/ Opens(c) \/ SocketCloses(c) \/ Stopped(c)
      PROVE  TypeOK'
  BY <1>5, CallType
<1>6. ASSUME NEW c \in Call, GatewayReceives(c) PROVE TypeOK'
  BY <1>6, GatewayType
<1>7. ASSUME NEW c \in Call, TurnBegins(c) PROVE TypeOK'
  BY <1>7, TurnBeginsType
<1>8. ASSUME NEW c \in Call, FlowAnswered(c) \/ TurnReported(c) PROVE TypeOK'
  BY <1>8, AnswerType
<1>9. ASSUME NEW t \in Turn, TurnEnds(t) PROVE TypeOK'
  BY <1>9, TurnEndsType
<1>10. ASSUME NEW t \in Turn, Poll(t) PROVE TypeOK'
  BY <1>10, PollType
<1> QED
  BY <1>1, <1>2, <1>3, <1>4, <1>5, <1>6, <1>7, <1>8, <1>9, <1>10, SeedType DEF Next

\* Every part of the page, of its calls and of their sessions keeps its type, and
\* with it no knob is ever at a setting that the hops cannot honour.
THEOREM TypeCorrect == Spec => []TypeOK
<1> QED
  BY InitType, TypeStep, PTL DEF Spec

-----------------------------------------------------------------------------
(* The hash and the flow. *)

Paired(m) == "flow" \in DOMAIN m => m.hash = Fingerprint(m.flow)

\* Only what GatewayReceives and TurnEnds put there is on the wire.
LEMMA HashOnTheWire ==
  ASSUME TypeOK, HashFollowsTheFlow, [Next]_vars, NEW c \in Call
  PROVE  \A i \in DOMAIN down'[c] : Paired(down'[c][i])
<1>1. down[c] \in Seq(Message) /\ \A i \in DOMAIN down[c] : Paired(down[c][i])
  BY DEF TypeOK, HashFollowsTheFlow, Paired
<1>2. CASE down' = down
  BY <1>1, <1>2
<1>3. ASSUME NEW d \in Call, down' = [down EXCEPT ![d] = << >>]
      PROVE  \A i \in DOMAIN down'[c] : Paired(down'[c][i])
  BY <1>1, <1>3 DEF TypeOK
<1>4. ASSUME NEW d \in Call, NEW m \in Message, Paired(m),
             down' = [down EXCEPT ![d] = Append(@, m)]
      PROVE  \A i \in DOMAIN down'[c] : Paired(down'[c][i])
  <2>1. down'[c] = down[c] \/ down'[c] = Append(down[c], m)
    BY <1>4 DEF TypeOK
  <2>2. \A i \in DOMAIN Append(down[c], m) :
          (i \in DOMAIN down[c] /\ Append(down[c], m)[i] = down[c][i]) \/ Append(down[c], m)[i] = m
    BY <1>1, QueueGrown
  <2> QED
    BY <1>1, <1>4, <2>1, <2>2
<1>5. ASSUME NEW d \in Call, down[d] # << >>, down' = [down EXCEPT ![d] = Tail(@)]
      PROVE  \A i \in DOMAIN down'[c] : Paired(down'[c][i])
  <2>1. down'[c] = down[c] \/ (c = d /\ down'[c] = Tail(down[c]))
    BY <1>5 DEF TypeOK
  <2> QED
    BY <1>1, <1>5, <2>1, QueueTaken
<1>6. ASSUME NEW d \in Call, GatewayReceives(d)
      PROVE  \A i \in DOMAIN down'[c] : Paired(down'[c][i])
  <2>1. Paired(ApplyFlow(Head(up[d]))) /\ ApplyFlow(Head(up[d])) \in Message
    BY AppliedIsAPair DEF Paired
  <2>2. down' = [down EXCEPT ![d] = Append(@, ApplyFlow(Head(up[d])))]
    BY <1>6 DEF GatewayReceives
  <2> QED
    BY <1>4, <2>1, <2>2
<1>7. ASSUME NEW t \in Turn, TurnEnds(t)
      PROVE  \A i \in DOMAIN down'[c] : Paired(down'[c][i])
  <2>1. turns \in Seq(ActiveTurn) /\ t \in DOMAIN turns
    BY <1>7 DEF TypeOK, TurnEnds
  <2>2. turns[t] \in ActiveTurn
    BY <2>1
  <2>3. turns[t].call \in Call
    BY <2>2 DEF ActiveTurn
  <2>4. [turn |-> t] \in Message /\ Paired([turn |-> t])
    BY DEF Message, Paired
  <2> QED
    BY <1>2, <1>4, <1>7, <2>3, <2>4 DEF TurnEnds
<1>8. CASE HangUp
  <2>1. current \in Call
    BY <1>8 DEF TypeOK, HangUp
  <2> QED
    BY <1>2, <1>3, <1>8, <2>1 DEF HangUp, Silent, wireVars
<1>9. ASSUME NEW d \in Call,
             MicGranted(d) \/ MicRefused(d) \/ Opens(d) \/ SocketCloses(d) \/ Stopped(d)
      PROVE  \A i \in DOMAIN down'[c] : Paired(down'[c][i])
  BY <1>2, <1>3, <1>9
     DEF MicGranted, MicRefused, Opens, SocketCloses, Stopped, Silent, wireVars
<1>10. ASSUME NEW d \in Call, FlowAnswered(d) \/ TurnReported(d)
       PROVE  \A i \in DOMAIN down'[c] : Paired(down'[c][i])
  BY <1>5, <1>10 DEF FlowAnswered, TurnReported
<1>11. CASE SeedLands \/ SeedFails \/ Run \/ HangUpNothing \/ UNCHANGED vars
  BY <1>2, <1>11 DEF SeedLands, SeedFails, Run, HangUpNothing, vars, wireVars
<1>12. ASSUME NEW k \in Knob, NEW v \in Setting(k), MoveKnob(k, v)
       PROVE  \A i \in DOMAIN down'[c] : Paired(down'[c][i])
  BY <1>2, <1>12 DEF MoveKnob
<1>13. ASSUME NEW d \in Call, TurnBegins(d)
       PROVE  \A i \in DOMAIN down'[c] : Paired(down'[c][i])
  BY <1>2, <1>13 DEF TurnBegins, wireVars
<1>14. ASSUME NEW t \in Turn, Poll(t)
       PROVE  \A i \in DOMAIN down'[c] : Paired(down'[c][i])
  BY <1>2, <1>14 DEF Poll, wireVars
<1> QED
  BY <1>6, <1>7, <1>8, <1>9, <1>10, <1>11, <1>12, <1>13, <1>14 DEF Next

\* Whoever draws the canvas draws a hash with the flow, or none.
LEMMA HashOnTheCanvas ==
  ASSUME TypeOK, HashFollowsTheFlow, [Next]_vars
  PROVE  (hash # NoHash => hash = Fingerprint(flow))'
<1>1. CASE UNCHANGED canvasVars
  BY <1>1 DEF HashFollowsTheFlow, canvasVars
<1>2. CASE SeedLands
  BY <1>2 DEF SeedLands, Draw
<1>3. ASSUME NEW k \in Knob, NEW v \in Setting(k), MoveKnob(k, v)
      PROVE  (hash # NoHash => hash = Fingerprint(flow))'
  BY <1>1, <1>3 DEF MoveKnob, Preview, Draw
<1>4. ASSUME NEW c \in Call, FlowAnswered(c)
      PROVE  (hash # NoHash => hash = Fingerprint(flow))'
  <2>1. down[c] \in Seq(Message) /\ down[c] # << >>
    BY <1>4 DEF TypeOK, FlowAnswered
  <2>2. Head(down[c]) = down[c][1] /\ 1 \in DOMAIN down[c]
    BY <2>1, QueueTaken
  <2> QED
    BY <1>4, <2>2 DEF HashFollowsTheFlow, FlowAnswered, Draw
<1>5. CASE UNCHANGED vars
  BY <1>1, <1>5 DEF vars
<1>6. CASE SeedFails \/ Run \/ HangUp \/ HangUpNothing
  BY <1>1, <1>6 DEF SeedFails, Run, HangUp, HangUpNothing
<1>7. ASSUME NEW c \in Call,
             \/ MicGranted(c) \/ MicRefused(c) \/ Opens(c) \/ SocketCloses(c) \/ Stopped(c)
             \/ GatewayReceives(c) \/ TurnBegins(c) \/ TurnReported(c)
      PROVE  UNCHANGED canvasVars
  BY <1>7 DEF MicGranted, MicRefused, Opens, SocketCloses, Stopped, GatewayReceives,
              TurnBegins, TurnReported
<1>8. ASSUME NEW t \in Turn, TurnEnds(t) \/ Poll(t)
      PROVE  UNCHANGED canvasVars
  BY <1>8 DEF TurnEnds, Poll
<1> QED
  BY <1>1, <1>2, <1>3, <1>4, <1>5, <1>6, <1>7, <1>8 DEF Next

\* A session's pair is written in one place only.
LEMMA HashInTheSession ==
  ASSUME TypeOK, HashFollowsTheFlow, [Next]_vars, NEW c \in Call
  PROVE  session'[c].hash = Fingerprint(session'[c].flow)
<1>1. session[c].hash = Fingerprint(session[c].flow)
  BY DEF HashFollowsTheFlow
<1>2. ASSUME NEW d \in Call, GatewayReceives(d)
      PROVE  session'[c].hash = Fingerprint(session'[c].flow)
  <2>1. session' = [session EXCEPT ![d] = ApplyFlow(Head(up[d]))]
    BY <1>2 DEF GatewayReceives
  <2> HIDE DEF ApplyFlow
  <2>2. session'[c] = session[c] \/ session'[c] = ApplyFlow(Head(up[d]))
    BY <2>1 DEF TypeOK
  <2> QED
    BY <1>1, <2>2, AppliedIsAPair
<1>3. CASE UNCHANGED session
  BY <1>1, <1>3
<1>4. CASE SeedLands \/ SeedFails \/ Run \/ HangUp \/ HangUpNothing \/ UNCHANGED vars
  BY <1>3, <1>4 DEF SeedLands, SeedFails, Run, HangUp, HangUpNothing, vars
<1>5. ASSUME NEW k \in Knob, NEW v \in Setting(k), MoveKnob(k, v)
      PROVE  UNCHANGED session
  BY <1>5 DEF MoveKnob
<1>6. ASSUME NEW d \in Call,
             \/ MicGranted(d) \/ MicRefused(d) \/ Opens(d) \/ SocketCloses(d) \/ Stopped(d)
             \/ TurnBegins(d) \/ FlowAnswered(d) \/ TurnReported(d)
      PROVE  UNCHANGED session
  BY <1>6 DEF MicGranted, MicRefused, Opens, SocketCloses, Stopped, TurnBegins,
              FlowAnswered, TurnReported
<1>7. ASSUME NEW t \in Turn, TurnEnds(t) \/ Poll(t)
      PROVE  UNCHANGED session
  BY <1>7 DEF TurnEnds, Poll
<1> QED
  BY <1>2, <1>3, <1>4, <1>5, <1>6, <1>7 DEF Next

\* A turn is frozen to a pair that belongs together, and stays frozen.
LEMMA HashInTheTurn ==
  ASSUME TypeOK, HashFollowsTheFlow, [Next]_vars
  PROVE  (\A t \in DOMAIN turns : turns[t].hash = Fingerprint(turns[t].flow))'
<1>1. turns \in Seq(ActiveTurn)
  BY DEF TypeOK
<1>2. \A t \in DOMAIN turns : turns[t].hash = Fingerprint(turns[t].flow)
  BY DEF HashFollowsTheFlow
<1>3. ASSUME NEW c \in Call, TurnBegins(c)
      PROVE  (\A t \in DOMAIN turns : turns[t].hash = Fingerprint(turns[t].flow))'
  <2> DEFINE new == [call |-> c, ended |-> FALSE,
                     flow |-> session[c].flow, hash |-> session[c].hash]
  <2>1. new \in ActiveTurn /\ new.hash = Fingerprint(new.flow)
    BY DEF TypeOK, Session, ActiveTurn, HashFollowsTheFlow
  <2>2. turns' = Append(turns, new)
    BY <1>3 DEF TurnBegins
  <2> HIDE DEF new
  <2>3. \A i \in DOMAIN turns' : (i \in DOMAIN turns /\ turns'[i] = turns[i]) \/ turns'[i] = new
    BY <1>1, <2>1, <2>2, QueueGrown
  <2> QED
    BY <1>2, <2>1, <2>3
<1>4. ASSUME NEW t \in Turn, TurnEnds(t)
      PROVE  (\A u \in DOMAIN turns : turns[u].hash = Fingerprint(turns[u].flow))'
  <2>1. DOMAIN turns' = DOMAIN turns
    BY <1>4 DEF TurnEnds
  <2>2. \A u \in DOMAIN turns : turns[u] \in ActiveTurn
    BY <1>1
  <2>3. \A u \in DOMAIN turns : turns'[u].flow = turns[u].flow /\ turns'[u].hash = turns[u].hash
    BY <1>1, <1>4, <2>2 DEF TurnEnds, ActiveTurn
  <2> QED
    BY <1>2, <2>1, <2>3
<1>5. CASE UNCHANGED turns
  BY <1>2, <1>5
<1>6. CASE SeedLands \/ SeedFails \/ Run \/ HangUp \/ HangUpNothing \/ UNCHANGED vars
  BY <1>5, <1>6 DEF SeedLands, SeedFails, Run, HangUp, HangUpNothing, vars
<1>7. ASSUME NEW k \in Knob, NEW v \in Setting(k), MoveKnob(k, v)
      PROVE  UNCHANGED turns
  BY <1>7 DEF MoveKnob
<1>8. ASSUME NEW d \in Call,
             \/ MicGranted(d) \/ MicRefused(d) \/ Opens(d) \/ SocketCloses(d) \/ Stopped(d)
             \/ GatewayReceives(d) \/ FlowAnswered(d) \/ TurnReported(d)
      PROVE  UNCHANGED turns
  BY <1>8 DEF MicGranted, MicRefused, Opens, SocketCloses, Stopped, GatewayReceives,
              FlowAnswered, TurnReported
<1>9. ASSUME NEW t \in Turn, Poll(t)
      PROVE  UNCHANGED turns
  BY <1>9 DEF Poll
<1> QED
  BY <1>3, <1>4, <1>5, <1>6, <1>7, <1>8, <1>9 DEF Next

LEMMA HashStep == TypeOK /\ HashFollowsTheFlow /\ [Next]_vars => HashFollowsTheFlow'
<1> SUFFICES ASSUME TypeOK, HashFollowsTheFlow, [Next]_vars PROVE HashFollowsTheFlow'
  OBVIOUS
<1> QED
  BY HashOnTheWire, HashOnTheCanvas, HashInTheSession, HashInTheTurn
     DEF HashFollowsTheFlow, Paired

\* No row of a turn, no session and no canvas ever names a configuration by the
\* hash of another one.
THEOREM HashAlwaysFollows == Spec => []HashFollowsTheFlow
<1>1. Init => HashFollowsTheFlow
  BY DEF Init, HashFollowsTheFlow, NewSession
<1> QED
  BY <1>1, HashStep, TypeCorrect, PTL DEF Spec

-----------------------------------------------------------------------------
(* The canvas, the button and the poll: why they hold. *)

\* The last call made, while it is the only one that is not gone: how far it has
\* come is what the page's status and call.current say.
OneCallAtATime ==
  /\ \A c \in Call : c > made => phase[c] = "none" /\ stopping[c] = "nobody"
  /\ current <= made
  /\ made = 0 => current = NoCall /\ status = "idle"
  /\ \A c \in Call : phase[c] # "open" => down[c] = << >>
  /\ ~tangled => \A c \in Call :
       /\ c # made => Gone(c)
       /\ c = made =>
            \/ /\ phase[c] \in {"asking", "opening"}
               /\ status = "connecting" /\ current = c /\ stopping[c] = "nobody"
               /\ up[c] # << >>
            \/ phase[c] = "open" /\ status = "live" /\ current = c /\ stopping[c] = "nobody"
            \/ phase[c] = "closing" /\ status = "live" /\ current = c /\ stopping[c] = "hangUp"
            \/ /\ phase[c] = "closing" /\ status = "idle"
               /\ current = NoCall /\ stopping[c] = "nobody"
            \/ phase[c] = "closed" /\ status \in {"idle", "ended"}

\* The last answer on its way to the call that is up tells what its session
\* runs; and with none on its way, and nothing asked, the canvas has it.
LastAnswerIsTheFlow ==
  \A c \in Call :
    ~tangled /\ phase[c] = "open" =>
      /\ \A i \in DOMAIN down[c] :
           /\ "flow" \in DOMAIN down[c][i]
           /\ \A j \in DOMAIN down[c] : j > i => "flow" \notin DOMAIN down[c][j]
           => down[c][i].flow = session[c].flow
      /\ /\ ~stale /\ up[c] = << >>
         /\ \A i \in DOMAIN down[c] : "flow" \notin DOMAIN down[c][i]
         => flow = session[c].flow

\* A poll that did not run into another is for the turn the page names.
OnePollAtATime ==
  ~overlap => \A t \in Polling : t = turn /\ traceStatus = "waiting"

PageInv == TypeOK /\ OneCallAtATime /\ LastAnswerIsTheFlow

LEMMA PageInvSuffices ==
  ASSUME PageInv
  PROVE  ShownFlowRuns /\ CallHasItsButton
<1>1. ShownFlowRuns
  <2> SUFFICES ASSUME status = "live", ~tangled, ~stale,
                      phase[current] = "open", up[current] = << >>,
                      \A i \in DOMAIN down[current] : "flow" \notin DOMAIN down[current][i]
               PROVE  flow = session[current].flow
    BY DEF ShownFlowRuns
  <2>1. made # 0 /\ made \in Call
    BY PageConstants DEF PageInv, TypeOK, OneCallAtATime, Call
  <2>2. current = made
    <3>1. CASE current = NoCall
      BY <2>1, <3>1 DEF PageInv, OneCallAtATime
    <3>2. CASE current \in Call
      BY <3>2 DEF PageInv, OneCallAtATime, Gone
    <3> QED
      BY <3>1, <3>2 DEF PageInv, TypeOK
  <2> QED
    BY <2>1, <2>2 DEF PageInv, LastAnswerIsTheFlow
<1>2. CallHasItsButton
  <2> SUFFICES ASSUME ~tangled, \A c \in Call : stopping[c] = "nobody"
               PROVE  (status = "live") <=> (current # NoCall /\ phase[current] = "open")
    BY DEF CallHasItsButton
  <2>1. CASE made = 0
    BY <2>1 DEF PageInv, OneCallAtATime
  <2>2. CASE made # 0
    <3>1. made \in Call
      BY <2>2, PageConstants DEF PageInv, TypeOK, Call
    <3>2. \A c \in Call : phase[c] = "open" => c = made
      BY DEF PageInv, OneCallAtATime, Gone
    <3>3. current \in Call \cup {NoCall} /\ NoCall \notin Call
      BY DEF PageInv, TypeOK, Call, NoCall
    <3> QED
      BY <3>1, <3>2, <3>3 DEF PageInv, OneCallAtATime
  <2> QED
    BY <2>1, <2>2
<1> QED
  BY <1>1, <1>2

\* What is not the calls' business leaves the calls alone.
LEMMA CallsUntouched ==
  ASSUME PageInv,
         UNCHANGED <<status, current, made, phase, stopping, tangled>>,
         \A c \in Call : phase[c] # "open" => down'[c] = down[c],
         \A c \in Call : up[c] # << >> /\ phase[c] \in {"asking", "opening"} => up'[c] # << >>
  PROVE  OneCallAtATime'
BY DEF PageInv, OneCallAtATime, Gone

LEMMA CallsWhileOneMoves ==
  ASSUME PageInv, NEW c \in Call,
         \/ MicGranted(c) \/ MicRefused(c) \/ Opens(c) \/ SocketCloses(c) \/ Stopped(c)
  PROVE  OneCallAtATime'
<1>1. made \in Nat /\ c \in Nat /\ made # 0
  BY DEF PageInv, TypeOK, OneCallAtATime, Call, MicGranted, MicRefused, Opens, SocketCloses,
         Stopped
<1>2. phase \in [Call -> Phase] /\ made' = made /\ tangled' = tangled
  BY DEF PageInv, TypeOK, MicGranted, MicRefused, Opens, SocketCloses, Stopped
<1>3. ~tangled => c = made
  BY DEF PageInv, OneCallAtATime, Gone, MicGranted, MicRefused, Opens, SocketCloses, Stopped
<1>4. CASE MicGranted(c)
  BY <1>1, <1>2, <1>3, <1>4 DEF PageInv, TypeOK, OneCallAtATime, Gone, MicGranted, wireVars
<1>5. CASE MicRefused(c)
  BY <1>1, <1>2, <1>3, <1>5 DEF PageInv, TypeOK, OneCallAtATime, Gone, MicRefused, Silent
<1>6. CASE Opens(c)
  BY <1>1, <1>2, <1>3, <1>6 DEF PageInv, TypeOK, OneCallAtATime, Gone, Opens, wireVars
<1>7. CASE SocketCloses(c)
  BY <1>1, <1>2, <1>3, <1>7 DEF PageInv, TypeOK, OneCallAtATime, Gone, SocketCloses, Silent
<1>8. CASE Stopped(c)
  BY <1>1, <1>2, <1>3, <1>8
     DEF PageInv, TypeOK, OneCallAtATime, Gone, Stopped, StatusAfterStop, NoCall, wireVars
<1> QED
  BY <1>4, <1>5, <1>6, <1>7, <1>8

LEMMA CallsWhileHangingUp ==
  ASSUME PageInv, HangUp
  PROVE  OneCallAtATime'
<1>1. current \in Call /\ made \in Call
  BY PageConstants DEF PageInv, TypeOK, HangUp, OneCallAtATime, Call
<1>2. ~tangled => current = made /\ phase[current] = "open"
  BY <1>1 DEF PageInv, OneCallAtATime, Gone, HangUp
<1>3. current <= made /\ ~(current > made)
  BY <1>1, PageConstants DEF PageInv, OneCallAtATime, Call
<1> QED
  BY SMTT(30), <1>1, <1>2, <1>3 DEF PageInv, TypeOK, OneCallAtATime, Gone, HangUp, Silent, wireVars

LEMMA CallsWhenNoneIsHungUp ==
  ASSUME PageInv, HangUpNothing
  PROVE  OneCallAtATime'
<1>1. made \in Call
  BY PageConstants DEF PageInv, TypeOK, OneCallAtATime, Call, HangUpNothing
<1>2. tangled
  BY <1>1 DEF PageInv, OneCallAtATime, Call, NoCall, HangUpNothing
<1> QED
  BY <1>2 DEF PageInv, OneCallAtATime, Gone, HangUpNothing, callVars, wireVars

LEMMA CallsWhenRun ==
  ASSUME PageInv, Run
  PROVE  OneCallAtATime'
<1>1. made \in Nat /\ made' = made + 1 /\ made + 1 \in Call /\ Call \subseteq Nat
  BY PageConstants DEF PageInv, TypeOK, Run, Call
<1>2. phase[made + 1] = "none" /\ stopping[made + 1] = "nobody"
  BY <1>1 DEF PageInv, OneCallAtATime
<1>3. \A c \in Call : c # made + 1 =>
        phase'[c] = phase[c] /\ stopping'[c] = stopping[c] /\ down'[c] = down[c]
  BY DEF PageInv, TypeOK, Run
<1>4. /\ phase'[made + 1] = "asking" /\ stopping'[made + 1] = "nobody"
      /\ down'[made + 1] = << >> /\ up'[made + 1] # << >>
      /\ status' = "connecting" /\ current' = made + 1
  BY <1>1, <1>2 DEF PageInv, TypeOK, OneCallAtATime, Run
<1>5. ~tangled' => \A c \in Call : Gone(c)
  BY DEF PageInv, TypeOK, Run
<1>6. \A c \in Call : c > made' => phase'[c] = "none" /\ stopping'[c] = "nobody"
  <2>1. \A c \in Call : c > made => phase[c] = "none" /\ stopping[c] = "nobody"
    BY DEF PageInv, OneCallAtATime
  <2>2. \A c \in Call : c > made' => c > made /\ c # made + 1
    BY <1>1
  <2> QED
    BY <1>3, <2>1, <2>2
<1>7. \A c \in Call : phase'[c] # "open" => down'[c] = << >>
  BY <1>3, <1>4 DEF PageInv, OneCallAtATime
<1>8. ~tangled' => \A c \in Call : c # made' => Gone(c)'
  BY <1>1, <1>3, <1>5 DEF Gone
<1>9. made' # 0 /\ current' <= made'
  BY <1>1, <1>4
<1> QED
  BY <1>1, <1>4, <1>6, <1>7, <1>8, <1>9 DEF OneCallAtATime

LEMMA CallsStep == PageInv /\ [Next]_vars => OneCallAtATime'
<1> SUFFICES ASSUME PageInv, [Next]_vars PROVE OneCallAtATime'
  OBVIOUS
<1>1. CASE SeedLands \/ SeedFails \/ UNCHANGED vars
  BY <1>1, CallsUntouched DEF SeedLands, SeedFails, vars, callVars, wireVars
<1>2. ASSUME NEW k \in Knob, NEW v \in Setting(k), MoveKnob(k, v) PROVE OneCallAtATime'
  <2>1. \A c \in Call : phase[c] \in {"asking", "opening"} => up'[c] = up[c]
    BY <1>2 DEF PageInv, TypeOK, MoveKnob
  <2> QED
    BY <1>2, <2>1, CallsUntouched DEF MoveKnob, callVars
<1>3. ASSUME NEW c \in Call, GatewayReceives(c) PROVE OneCallAtATime'
  <2>1. \A d \in Call : phase[d] # "open" => up'[d] = up[d] /\ down'[d] = down[d]
    BY <1>3 DEF PageInv, TypeOK, GatewayReceives
  <2> QED
    BY <1>3, <2>1, CallsUntouched DEF GatewayReceives, callVars
<1>4. ASSUME NEW c \in Call, TurnBegins(c) PROVE OneCallAtATime'
  BY <1>4, CallsUntouched DEF TurnBegins, callVars, wireVars
<1>5. ASSUME NEW t \in Turn, TurnEnds(t) PROVE OneCallAtATime'
  <2>1. \A d \in Call : phase[d] # "open" => down'[d] = down[d]
    BY <1>5 DEF PageInv, TypeOK, TurnEnds
  <2> QED
    BY <1>5, <2>1, CallsUntouched DEF TurnEnds, callVars
<1>6. ASSUME NEW c \in Call, FlowAnswered(c) \/ TurnReported(c) PROVE OneCallAtATime'
  <2>1. \A d \in Call : phase[d] # "open" => down'[d] = down[d]
    BY <1>6 DEF PageInv, TypeOK, OneCallAtATime, FlowAnswered, TurnReported
  <2> QED
    BY <1>6, <2>1, CallsUntouched DEF FlowAnswered, TurnReported, callVars
<1>7. ASSUME NEW t \in Turn, Poll(t) PROVE OneCallAtATime'
  BY <1>7, CallsUntouched DEF Poll, callVars, wireVars
<1> QED
  BY <1>1, <1>2, <1>3, <1>4, <1>5, <1>6, <1>7, CallsWhileOneMoves, CallsWhileHangingUp,
     CallsWhenNoneIsHungUp, CallsWhenRun DEF Next

\* The last answer, and what the canvas has to do with it, for one call.
LastAnswerOf(c) ==
  /\ \A i \in DOMAIN down[c] :
       /\ "flow" \in DOMAIN down[c][i]
       /\ \A j \in DOMAIN down[c] : j > i => "flow" \notin DOMAIN down[c][j]
       => down[c][i].flow = session[c].flow
  /\ /\ ~stale /\ up[c] = << >>
     /\ \A i \in DOMAIN down[c] : "flow" \notin DOMAIN down[c][i]
     => flow = session[c].flow

LEMMA LastAnswerAll ==
  LastAnswerIsTheFlow <=> \A c \in Call : ~tangled /\ phase[c] = "open" => LastAnswerOf(c)
BY DEF LastAnswerIsTheFlow, LastAnswerOf

\* Nothing happens to the wire, the session and the canvas of a call that is up,
\* or something is asked of it.
LEMMA AnswersUntouched ==
  ASSUME PageInv,
         ~tangled' => ~tangled,
         UNCHANGED <<session, down, stale, flow>>,
         NEW c \in Call,
         phase'[c] = "open" => phase[c] = "open" /\ (up'[c] = << >> => up[c] = << >>)
  PROVE  ~tangled' /\ phase'[c] = "open" => LastAnswerOf(c)'
BY LastAnswerAll DEF PageInv, LastAnswerOf

LEMMA AnswersWhileCallsMove ==
  ASSUME PageInv, NEW d \in Call,
         \/ MicGranted(d) \/ MicRefused(d) \/ Opens(d) \/ SocketCloses(d) \/ Stopped(d),
         NEW c \in Call
  PROVE  ~tangled' /\ phase'[c] = "open" => LastAnswerOf(c)'
<1> SUFFICES ASSUME ~tangled', phase'[c] = "open"
             PROVE  LastAnswerOf(c)'
  OBVIOUS
<1>1. CASE MicGranted(d) \/ Stopped(d)
  BY <1>1, AnswersUntouched
     DEF PageInv, TypeOK, MicGranted, Stopped, wireVars, canvasVars
<1>2. CASE MicRefused(d) \/ SocketCloses(d)
  <2>1. c # d
    BY <1>2 DEF PageInv, TypeOK, MicRefused, SocketCloses
  <2>2. /\ phase[c] = "open" /\ ~tangled /\ LastAnswerOf(c)
    BY <1>2, <2>1, LastAnswerAll DEF PageInv, TypeOK, MicRefused, SocketCloses
  <2>3. /\ up'[c] = up[c] /\ down'[c] = down[c]
        /\ session' = session /\ stale' = stale /\ flow' = flow
    BY <1>2, <2>1 DEF PageInv, TypeOK, MicRefused, SocketCloses, Silent, canvasVars
  <2> QED
    BY <2>2, <2>3 DEF LastAnswerOf
<1>3. CASE Opens(d)
  <2>1. CASE c = d
    <3>1. down'[c] = << >> /\ up'[c] # << >>
      BY <1>3, <2>1 DEF PageInv, OneCallAtATime, Gone, Opens, wireVars
    <3> QED
      BY <3>1 DEF LastAnswerOf
  <2>2. CASE c # d
    BY <1>3, <2>2, AnswersUntouched DEF PageInv, TypeOK, Opens, wireVars, canvasVars
  <2> QED
    BY <2>1, <2>2
<1> QED
  BY <1>1, <1>2, <1>3

LEMMA AnswersWhenAsked ==
  ASSUME PageInv, NEW d \in Call, GatewayReceives(d), NEW c \in Call
  PROVE  ~tangled' /\ phase'[c] = "open" => LastAnswerOf(c)'
<1> SUFFICES ASSUME ~tangled', phase'[c] = "open"
             PROVE  LastAnswerOf(c)'
  OBVIOUS
<1>1. phase[c] = "open" /\ ~tangled /\ LastAnswerOf(c) /\ stale' = stale /\ flow' = flow
  BY LastAnswerAll DEF PageInv, GatewayReceives, callVars, canvasVars
<1>2. CASE c # d
  <2>1. /\ up'[c] = up[c] /\ down'[c] = down[c] /\ session'[c] = session[c]
    BY <1>2 DEF PageInv, TypeOK, GatewayReceives
  <2> QED
    BY <1>1, <2>1 DEF LastAnswerOf
<1>3. CASE c = d
  <2> DEFINE applied == ApplyFlow(Head(up[c]))
             n == Len(down[c]) + 1
  <2>1. /\ session' = [session EXCEPT ![c] = applied]
        /\ down' = [down EXCEPT ![c] = Append(@, applied)]
    BY <1>3 DEF GatewayReceives
  <2>2. "flow" \in DOMAIN applied /\ applied \in Message
    BY AppliedIsAPair
  <2> HIDE DEF applied
  <2>3. down[c] \in Seq(Message) /\ session'[c] = applied /\ down'[c] = Append(down[c], applied)
    BY <2>1 DEF PageInv, TypeOK
  <2>4. /\ DOMAIN down'[c] = 1..n /\ n \in Nat /\ n > 0
        /\ down'[c][n] = applied
    BY <2>2, <2>3, AppendProperties
  <2>5. \A i \in DOMAIN down'[c] : i # n => n > i /\ n \in DOMAIN down'[c]
    BY <2>4
  <2> HIDE DEF n
  <2> QED
    BY <2>2, <2>3, <2>4, <2>5 DEF LastAnswerOf
<1> QED
  BY <1>2, <1>3

LEMMA AnswersWhenTurnEnds ==
  ASSUME PageInv, NEW t \in Turn, TurnEnds(t), NEW c \in Call
  PROVE  ~tangled' /\ phase'[c] = "open" => LastAnswerOf(c)'
<1> SUFFICES ASSUME ~tangled', phase'[c] = "open"
             PROVE  LastAnswerOf(c)'
  OBVIOUS
<1>1. /\ phase[c] = "open" /\ ~tangled /\ LastAnswerOf(c)
      /\ stale' = stale /\ flow' = flow /\ session' = session /\ up' = up
  BY LastAnswerAll DEF PageInv, TurnEnds, callVars, canvasVars
<1>2. down'[c] = down[c] \/ down'[c] = Append(down[c], [turn |-> t])
  BY DEF PageInv, TypeOK, TurnEnds
<1>3. CASE down'[c] = down[c]
  BY <1>1, <1>3 DEF LastAnswerOf
<1>4. CASE down'[c] = Append(down[c], [turn |-> t])
  <2> DEFINE n == Len(down[c]) + 1
  <2>1. down[c] \in Seq(Message) /\ [turn |-> t] \in Message
    BY DEF PageInv, TypeOK, Message
  <2>2. /\ DOMAIN down'[c] = 1..n /\ DOMAIN down[c] = 1..(n - 1) /\ n \in Nat
        /\ down'[c][n] = [turn |-> t]
        /\ \A i \in 1..(n - 1) : down'[c][i] = down[c][i]
    BY <1>4, <2>1, AppendProperties
  <2>3. "flow" \notin DOMAIN down'[c][n]
    BY <2>2
  <2>4. \A i \in DOMAIN down'[c] : "flow" \in DOMAIN down'[c][i]
          => i \in DOMAIN down[c] /\ down'[c][i] = down[c][i]
    BY <2>2, <2>3
  <2>5. \A i \in DOMAIN down[c] : i \in DOMAIN down'[c] /\ down'[c][i] = down[c][i]
    BY <2>2
  <2> HIDE DEF n
  <2> QED
    BY <1>1, <2>4, <2>5 DEF LastAnswerOf
<1> QED
  BY <1>2, <1>3, <1>4

LEMMA AnswersWhenRead ==
  ASSUME PageInv, NEW d \in Call, FlowAnswered(d) \/ TurnReported(d), NEW c \in Call
  PROVE  ~tangled' /\ phase'[c] = "open" => LastAnswerOf(c)'
<1> SUFFICES ASSUME ~tangled', phase'[c] = "open"
             PROVE  LastAnswerOf(c)'
  OBVIOUS
<1>1. /\ phase[c] = "open" /\ ~tangled /\ LastAnswerOf(c)
      /\ session' = session /\ up' = up
  BY LastAnswerAll DEF PageInv, FlowAnswered, TurnReported, callVars
<1>2. down[d] \in Seq(Message) /\ down[d] # << >> /\ down' = [down EXCEPT ![d] = Tail(@)]
  BY DEF PageInv, TypeOK, FlowAnswered, TurnReported
<1>3. c = d
  <2>1. phase[d] = "open"
    BY <1>2 DEF PageInv, OneCallAtATime
  <2> QED
    BY <1>1, <2>1 DEF PageInv, OneCallAtATime, Gone
<1>4. /\ down'[c] = Tail(down[c])
      /\ \A i \in DOMAIN Tail(down[c]) : i + 1 \in DOMAIN down[c]
                                         /\ Tail(down[c])[i] = down[c][i + 1]
      /\ Head(down[c]) = down[c][1] /\ 1 \in DOMAIN down[c]
  BY <1>2, <1>3, QueueTaken DEF PageInv, TypeOK
<1>5. /\ DOMAIN down[c] = 1..Len(down[c]) /\ Len(down[c]) \in Nat
      /\ DOMAIN Tail(down[c]) = 1..(Len(down[c]) - 1)
  BY <1>2, <1>3, HeadTailProperties, EmptySeq
<1>6. \A i \in DOMAIN Tail(down[c]) :
        (\A j \in DOMAIN Tail(down[c]) : j > i => "flow" \notin DOMAIN Tail(down[c])[j])
        => \A j \in DOMAIN down[c] : j > i + 1 => "flow" \notin DOMAIN down[c][j]
  <2> SUFFICES ASSUME NEW i \in DOMAIN Tail(down[c]),
                      \A j \in DOMAIN Tail(down[c]) :
                        j > i => "flow" \notin DOMAIN Tail(down[c])[j],
                      NEW j \in DOMAIN down[c], j > i + 1
               PROVE  "flow" \notin DOMAIN down[c][j]
    OBVIOUS
  <2>1. j - 1 \in DOMAIN Tail(down[c]) /\ j - 1 > i /\ (j - 1) + 1 = j
    BY <1>5
  <2>2. Tail(down[c])[j - 1] = down[c][(j - 1) + 1]
    BY <1>4, <2>1
  <2> QED
    BY <2>1, <2>2
<1>7. \A i \in DOMAIN down'[c] :
        /\ "flow" \in DOMAIN down'[c][i]
        /\ \A j \in DOMAIN down'[c] : j > i => "flow" \notin DOMAIN down'[c][j]
        => down'[c][i].flow = session'[c].flow
  BY <1>1, <1>4, <1>6 DEF LastAnswerOf
<1>8. ASSUME \A i \in DOMAIN down'[c] : "flow" \notin DOMAIN down'[c][i]
      PROVE  \A j \in DOMAIN down[c] : j > 1 => "flow" \notin DOMAIN down[c][j]
  <2> TAKE j \in DOMAIN down[c]
  <2> HAVE j > 1
  <2>1. j - 1 \in DOMAIN Tail(down[c]) /\ (j - 1) + 1 = j
    BY <1>5
  <2>2. Tail(down[c])[j - 1] = down[c][(j - 1) + 1]
    BY <1>4, <2>1
  <2> QED
    BY <1>4, <1>8, <2>1, <2>2
<1>9. CASE FlowAnswered(c)
  <2>1. "flow" \in DOMAIN down[c][1] /\ flow' = down[c][1].flow
    BY <1>4, <1>9 DEF FlowAnswered, Draw
  <2>2. (\A i \in DOMAIN down'[c] : "flow" \notin DOMAIN down'[c][i])
          => down[c][1].flow = session[c].flow
    BY <1>1, <1>4, <1>8, <2>1 DEF LastAnswerOf
  <2> QED
    BY <1>1, <1>7, <2>1, <2>2 DEF LastAnswerOf
<1>10. CASE TurnReported(c)
  <2>1. "flow" \notin DOMAIN down[c][1]
    <3>1. down[c][1] \in Message
      BY <1>2, <1>3, <1>4
    <3>2. "turn" \in DOMAIN down[c][1]
      BY <1>4, <1>10 DEF TurnReported
    <3> QED
      BY <3>1, <3>2 DEF Message
  <2>2. (\A i \in DOMAIN down'[c] : "flow" \notin DOMAIN down'[c][i])
          => \A j \in DOMAIN down[c] : "flow" \notin DOMAIN down[c][j]
    BY <1>5, <1>8, <2>1
  <2>3. stale' = stale /\ flow' = flow
    BY <1>10 DEF TurnReported, canvasVars
  <2> QED
    BY <1>1, <1>7, <2>2, <2>3 DEF LastAnswerOf
<1> QED
  BY <1>3, <1>9, <1>10

LEMMA AnswersStep == PageInv /\ [Next]_vars => LastAnswerIsTheFlow'
<1> SUFFICES ASSUME PageInv, [Next]_vars, NEW c \in Call
             PROVE  ~tangled' /\ phase'[c] = "open" => LastAnswerOf(c)'
  BY DEF LastAnswerIsTheFlow, LastAnswerOf
<1> DEFINE Good == ~tangled' /\ phase'[c] = "open" => LastAnswerOf(c)'
<1>1. CASE SeedLands
  <2>1. CASE made = 0
    <3>1. phase[c] = "none"
      BY <2>1 DEF PageInv, OneCallAtATime, Call
    <3> QED
      BY <1>1, <3>1 DEF SeedLands, callVars
  <2>2. CASE made # 0
    <3>1. /\ stale' /\ UNCHANGED <<session, down, up, phase, tangled>>
      <4>1. made > 0
        BY <2>2 DEF PageInv, TypeOK
      <4> QED
        BY <1>1, <4>1 DEF SeedLands, callVars, wireVars
    <3> QED
      BY <3>1, LastAnswerAll DEF PageInv, LastAnswerOf
  <2> QED
    BY <2>1, <2>2
<1>2. CASE SeedFails \/ HangUpNothing \/ UNCHANGED vars
  BY <1>2, AnswersUntouched DEF SeedFails, HangUpNothing, vars, canvasVars, callVars, wireVars
<1>3. CASE Run
  <2>1. ~tangled' => phase'[c] # "open"
    <3>1. ~tangled' => Gone(c)
      BY <1>3 DEF PageInv, TypeOK, Run
    <3> QED
      BY <1>3, <3>1 DEF PageInv, TypeOK, Run, Gone
  <2> QED
    BY <2>1
<1>4. CASE HangUp
  <2>1. current \in Call
    BY <1>4 DEF PageInv, TypeOK, HangUp
  <2>2. CASE phase[current] # "open"
    BY <1>4, <2>2, AnswersUntouched DEF HangUp, wireVars, canvasVars
  <2>3. CASE phase[current] = "open"
    <3>1. c = current => phase'[c] # "open"
      BY <1>4, <2>1, <2>3 DEF PageInv, TypeOK, HangUp
    <3>2. c # current =>
            /\ phase'[c] = phase[c] /\ up'[c] = up[c] /\ down'[c] = down[c]
            /\ UNCHANGED <<session, stale, flow, tangled>>
      BY <1>4, <2>1, <2>3 DEF PageInv, TypeOK, HangUp, Silent, canvasVars
    <3> QED
      BY <3>1, <3>2, LastAnswerAll DEF PageInv, LastAnswerOf
  <2> QED
    BY <2>2, <2>3
<1>5. ASSUME NEW k \in Knob, NEW v \in Setting(k), MoveKnob(k, v) PROVE Good
  <2>1. CASE status # "live"
    <3>1. ~tangled => phase[c] # "open"
      BY <2>1 DEF PageInv, OneCallAtATime, Gone
    <3> QED
      BY <1>5, <3>1 DEF MoveKnob, callVars
  <2>2. CASE status = "live"
    <3>1. UNCHANGED <<session, down, stale, flow, phase, tangled>>
      BY <1>5, <2>2 DEF MoveKnob, canvasVars, callVars
    <3>2. up'[c] = << >> => up[c] = << >>
      <4>1. up'[c] = up[c] \/ up'[c] = Append(up[c], Move(k, v))
        BY <1>5 DEF PageInv, TypeOK, MoveKnob
      <4>2. up[c] \in Seq(Patch) /\ Move(k, v) \in Patch
        BY RequestsArePatches DEF PageInv, TypeOK
      <4>3. Append(up[c], Move(k, v)) # << >>
        BY <4>2, AppendProperties
      <4> QED
        BY <4>1, <4>3
    <3> QED
      BY <3>1, <3>2, AnswersUntouched
  <2> QED
    BY <2>1, <2>2
<1>6. ASSUME NEW d \in Call,
             MicGranted(d) \/ MicRefused(d) \/ Opens(d) \/ SocketCloses(d) \/ Stopped(d)
      PROVE  Good
  BY <1>6, AnswersWhileCallsMove
<1>7. ASSUME NEW d \in Call, GatewayReceives(d) PROVE Good
  BY <1>7, AnswersWhenAsked
<1>8. ASSUME NEW d \in Call, TurnBegins(d) PROVE Good
  BY <1>8, AnswersUntouched DEF TurnBegins, canvasVars, callVars, wireVars
<1>9. ASSUME NEW d \in Call, FlowAnswered(d) \/ TurnReported(d) PROVE Good
  BY <1>9, AnswersWhenRead
<1>10. ASSUME NEW t \in Turn, TurnEnds(t) PROVE Good
  BY <1>10, AnswersWhenTurnEnds
<1>11. ASSUME NEW t \in Turn, Poll(t) PROVE Good
  BY <1>11, AnswersUntouched DEF Poll, canvasVars, callVars, wireVars
<1> QED
  BY <1>1, <1>2, <1>3, <1>4, <1>5, <1>6, <1>7, <1>8, <1>9, <1>10, <1>11 DEF Next

LEMMA PageAlways == Spec => []PageInv
<1>1. Init => PageInv
  BY InitType DEF Init, PageInv, OneCallAtATime, LastAnswerIsTheFlow, Gone, Call, NoCall
<1>2. PageInv /\ [Next]_vars => PageInv'
  BY TypeStep, CallsStep, AnswersStep DEF PageInv
<1> QED
  BY <1>1, <1>2, PTL DEF Spec

\* However the answers, the seed, the knobs and the ends of calls interleave, a
\* quiet canvas draws the flow that the next turn will run with.
THEOREM CanvasDrawsWhatRuns == Spec => []ShownFlowRuns
BY PageAlways, PageInvSuffices, PTL

\* A call that is up can be hung up, and there is always one to hang up.
THEOREM ButtonFollowsTheCall == Spec => []CallHasItsButton
BY PageAlways, PageInvSuffices, PTL

-----------------------------------------------------------------------------
(* The polls. *)

PollInv == TypeOK /\ OnePollAtATime /\ PollAnswersThePage

LEMMA PollStep == PollInv /\ [Next]_vars => PollInv'
<1> SUFFICES ASSUME PollInv, [Next]_vars PROVE PollInv'
  OBVIOUS
<1>1. TypeOK /\ TypeOK'
  BY TypeStep DEF PollInv
<1>2. CASE UNCHANGED traceVars
  BY <1>1, <1>2 DEF PollInv, OnePollAtATime, PollAnswersThePage, Polling, traceVars
<1>3. CASE Run
  BY <1>1, <1>3 DEF PollInv, OnePollAtATime, PollAnswersThePage, Polling, Run
<1>4. ASSUME NEW c \in Call, TurnReported(c) PROVE PollInv'
  <2> DEFINE t == Head(down[c]).turn
  <2>1. t \in Turn
    BY <1>1, <1>4 DEF TypeOK, TurnReported
  <2>2. /\ polls' = [polls EXCEPT ![t] = MaxTries] /\ turn' = t /\ traceStatus' = "waiting"
        /\ overlap' = (overlap \/ Polling # {})
    BY <1>4 DEF TurnReported
  <2> HIDE DEF t
  <2>3. t \in Polling'
    BY <1>1, <2>1, <2>2, PageConstants DEF TypeOK, Polling
  <2>4. ~overlap' => \A u \in Polling' : u = t
    BY <1>1, <2>1, <2>2 DEF TypeOK, Polling
  <2> QED
    BY <1>1, <2>2, <2>3, <2>4 DEF PollInv, OnePollAtATime, PollAnswersThePage
<1>5. ASSUME NEW t \in Turn, Poll(t) PROVE PollInv'
  <2>1. t \in Polling
    BY <1>5 DEF Poll, Polling
  <2>2. \A u \in Turn : u # t => polls'[u] = polls[u]
    BY <1>1, <1>5 DEF TypeOK, Poll
  <2>3. ~overlap' => Polling = {t} /\ t = turn /\ turn' = turn
    BY <1>5, <2>1 DEF PollInv, OnePollAtATime, Poll
  <2>4. CASE traceStatus' = "landed" /\ traces' = t /\ polls'[t] = 0
    <3>1. ~overlap' => Polling' = {}
      BY <1>1, <2>2, <2>3, <2>4 DEF Polling
    <3> QED
      BY <1>1, <2>3, <2>4, <3>1 DEF PollInv, OnePollAtATime, PollAnswersThePage
  <2>5. CASE /\ polls'[t] = TriesLeft(t) /\ traces' = traces
             /\ traceStatus' = IF TriesLeft(t) = 0 THEN "missing" ELSE traceStatus
    <3>1. CASE TriesLeft(t) = 0
      <4>1. ~overlap' => Polling' = {}
        BY <1>1, <2>2, <2>3, <2>5, <3>1 DEF Polling
      <4> QED
        BY <1>1, <2>5, <3>1, <4>1 DEF PollInv, OnePollAtATime, PollAnswersThePage
    <3>2. CASE TriesLeft(t) # 0
      <4>1. t \in Polling'
        BY <1>1, <2>1, <2>5, <3>2 DEF TypeOK, Polling, TriesLeft
      <4>2. ~overlap' => \A u \in Polling' : u = t
        BY <1>1, <2>2, <2>3 DEF Polling
      <4>3. traceStatus' = traceStatus /\ overlap' = overlap /\ turn' = turn
        BY <1>5, <2>5, <3>2 DEF Poll
      <4> QED
        BY <1>1, <2>1, <2>5, <4>1, <4>2, <4>3
           DEF PollInv, OnePollAtATime, PollAnswersThePage
    <3> QED
      BY <3>1, <3>2
  <2> QED
    BY <1>1, <1>5, <2>4, <2>5 DEF TypeOK, Poll, RowsOf, TriesLeft
<1>6. CASE SeedLands \/ SeedFails \/ HangUp \/ HangUpNothing \/ UNCHANGED vars
  BY <1>2, <1>6 DEF SeedLands, SeedFails, HangUp, HangUpNothing, vars
<1>7. ASSUME NEW k \in Knob, NEW v \in Setting(k), MoveKnob(k, v) PROVE UNCHANGED traceVars
  BY <1>7 DEF MoveKnob
<1>8. ASSUME NEW c \in Call,
             \/ MicGranted(c) \/ MicRefused(c) \/ Opens(c) \/ SocketCloses(c) \/ Stopped(c)
             \/ GatewayReceives(c) \/ TurnBegins(c) \/ FlowAnswered(c)
      PROVE  UNCHANGED traceVars
  BY <1>8 DEF MicGranted, MicRefused, Opens, SocketCloses, Stopped, GatewayReceives,
              TurnBegins, FlowAnswered
<1>9. ASSUME NEW t \in Turn, TurnEnds(t) PROVE UNCHANGED traceVars
  BY <1>9 DEF TurnEnds
<1> QED
  BY <1>2, <1>3, <1>4, <1>5, <1>6, <1>7, <1>8, <1>9 DEF Next

\* However many turns are reported and polled for, the page waits only while it
\* asks, and draws the rows of the turn it names.
THEOREM NumbersAreOfTheirTurn == Spec => []PollAnswersThePage
<1>1. Init => PollInv
  BY InitType DEF Init, PollInv, OnePollAtATime, PollAnswersThePage, Polling
<1>2. PollInv => PollAnswersThePage
  BY DEF PollInv
<1> QED
  BY <1>1, <1>2, PollStep, PTL DEF Spec

=============================================================================
