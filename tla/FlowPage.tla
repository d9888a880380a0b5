------------------------------ MODULE FlowPage ------------------------------
(***************************************************************************)
(* The flow builder and the calls it makes: the page                       *)
(* (apps/web/app/flow/page.tsx), the life of each VoiceCall                *)
(* (apps/web/lib/call.ts), and what a session keeps of its flow            *)
(* (apps/gateway/src/session.ts).                                          *)
(*                                                                         *)
(* The page draws one flow and one hash, and four parties write them: the  *)
(* seed it fetched when it opened, its own hand while no call is up, and   *)
(* the answers of every call it has begun.  Its status is written by every *)
(* VoiceCall it has begun as well, however old.                            *)
(***************************************************************************)
EXTENDS Flow, Sequences, FiniteSets

CONSTANTS
  MaxCalls,   \* bound: calls of one visit to the page
  MaxMoves,   \* bound: knobs moved
  MaxTurns,   \* bound: turns of all calls
  MaxTries    \* TRACE_POLL_TRIES (8 in page.tsx)

ASSUME PageConstants ==
  /\ MaxCalls \in Nat /\ MaxMoves \in Nat /\ MaxTurns \in Nat
  /\ MaxTries \in Nat \ {0}

VARIABLES
  status,       \* CallStatus, as the page has it
  flow, hash,   \* the flow that is drawn, and its configHash or NoHash
  seed,         \* GET /flow: asked, done
  current,      \* call.current, or NoCall
  made,         \* calls begun
  phase,        \* [Call -> where the VoiceCall is in its life]
  stopping,     \* [Call -> who waits in a stop() of it]
  up,           \* [Call -> requests for the gateway, the first its start]
  session,      \* [Call -> #flow and #configHash of its session]
  down,         \* [Call -> answers and turn reports on their way to the page]
  turns,        \* the turns begun: the call, the flow and hash it was frozen to
  turn,         \* the turn that was reported last, or NoTurn
  polls,        \* [Turn -> tries left of its loadTraces]
  traces,       \* the turn whose rows are drawn on the nodes, or NoTurn
  traceStatus,  \* idle, waiting, landed, missing
  moves,        \* knobs moved so far
  stale,        \* history: has the seed landed since the last answer?
  tangled,      \* history: was a call begun before the last one was gone?
  overlap       \* history: has a poll run into another report or call?

canvasVars == <<flow, hash>>
callVars   == <<phase, stopping>>
wireVars   == <<up, down>>
traceVars  == <<turn, polls, traces, traceStatus, overlap>>
vars == <<status, canvasVars, seed, current, made, callVars, wireVars, session, turns,
          traceVars, moves, stale, tangled>>

-----------------------------------------------------------------------------
NoCall == 0
Call   == 1..MaxCalls
NoTurn == 0
Turn   == 1..MaxTurns

NoHash == [unresolved |-> TRUE]
Hash   == {Fingerprint(f) : f \in FlowConfig}

\* What a call sends up: its start, with a whole flow, or one knob.
Patch == FlowConfig \cup UNION {{Move(k, v) : v \in Setting(k)} : k \in Knob}

\* What comes down: ready and flow_ack are alike to the page, and a turn_end.
Message == [flow : FlowConfig, hash : Hash] \cup [turn : Turn]

Session == [flow : FlowConfig, hash : Hash]
ActiveTurn == [call : Call, ended : BOOLEAN, flow : FlowConfig, hash : Hash]

Phase == {"none", "asking", "opening", "open", "closing", "closed"}

TypeOK ==
  /\ status \in {"idle", "connecting", "live", "ended"}
  /\ flow \in FlowConfig
  /\ hash \in Hash \cup {NoHash}
  /\ seed \in {"asked", "done"}
  /\ current \in Call \cup {NoCall}
  /\ made \in 0..MaxCalls
  /\ phase \in [Call -> Phase]
  /\ stopping \in [Call -> {"nobody", "hangUp", "onclose"}]
  /\ up \in [Call -> Seq(Patch)]
  /\ session \in [Call -> Session]
  /\ down \in [Call -> Seq(Message)]
  /\ turns \in Seq(ActiveTurn)
  /\ turn \in Turn \cup {NoTurn}
  /\ polls \in [Turn -> 0..MaxTries]
  /\ traces \in Turn \cup {NoTurn}
  /\ traceStatus \in {"idle", "waiting", "landed", "missing"}
  /\ moves \in 0..MaxMoves
  /\ stale \in BOOLEAN /\ tangled \in BOOLEAN /\ overlap \in BOOLEAN

\* A session begins with the server's own flow, and its hash (#flow, #configHash).
NewSession == [flow |-> ServerDefaultFlow, hash |-> Fingerprint(ServerDefaultFlow)]

Init ==
  /\ status = "idle"
  /\ flow = DefaultFlow
  /\ hash = NoHash
  /\ seed = "asked"
  /\ current = NoCall
  /\ made = 0
  /\ phase = [c \in Call |-> "none"]
  /\ stopping = [c \in Call |-> "nobody"]
  /\ up = [c \in Call |-> << >>]
  /\ session = [c \in Call |-> NewSession]
  /\ down = [c \in Call |-> << >>]
  /\ turns = << >>
  /\ turn = NoTurn
  /\ polls = [t \in Turn |-> 0]
  /\ traces = NoTurn
  /\ traceStatus = "idle"
  /\ moves = 0
  /\ stale = FALSE /\ tangled = FALSE /\ overlap = FALSE

\* (mutant) the hash is set and the flow forgotten
DrawHashOnly(f, h) == hash' = h /\ UNCHANGED flow

\* setFlow and setConfigHash, always together.
Draw(f, h) == flow' = f /\ hash' = h

-----------------------------------------------------------------------------
(* The seed. *)

\* GET /flow answers with the server's default, whatever has been done since it
\* was asked.
SeedLands ==
  /\ seed = "asked"
  /\ seed' = "done"
  /\ Draw(ServerDefaultFlow, Fingerprint(ServerDefaultFlow))
  /\ stale' = (made > 0)
  /\ UNCHANGED <<status, current, made, callVars, wireVars, session, turns, traceVars,
                 moves, tangled>>

\* No gateway: the canvas keeps the browser's own defaults, with no hash.
SeedFails ==
  /\ seed = "asked"
  /\ seed' = "done"
  /\ UNCHANGED <<status, canvasVars, current, made, callVars, wireVars, session, turns,
                 traceVars, moves, stale, tangled>>

-----------------------------------------------------------------------------
(* The knobs. *)

\* onChange while no call is up: the page resolves it itself, on what it draws.
Preview(patch) == Draw(Sanitize(patch, flow), NoHash)

\* A control shows what is drawn, and tells of a change from that only.
Offered(k) == Setting(k) \ {flow[k]}

\* onChange, and VoiceCall.configure while a call is up.
MoveKnob(k, v) ==
  /\ moves < MaxMoves
  /\ v \in Offered(k)
  /\ moves' = moves + 1
  /\ \/ /\ status # "live"
        /\ Preview(Move(k, v))
        /\ UNCHANGED up
     \/ /\ status = "live"
        /\ up' = IF current # NoCall /\ phase[current] = "open" /\ stopping[current] = "nobody"
                   THEN [up EXCEPT ![current] = Append(@, Move(k, v))]
                   ELSE up
        /\ UNCHANGED canvasVars
  /\ UNCHANGED <<status, seed, current, made, callVars, down, session, turns, traceVars,
                 stale, tangled>>

-----------------------------------------------------------------------------
(* The life of a call. *)

Gone(c) == phase[c] \in {"none", "closed"} /\ stopping[c] = "nobody"
Polling == {t \in Turn : polls[t] > 0}

\* Nothing is sent to a socket that is not there, or read from it.
Silent(c) ==
  /\ up' = [up EXCEPT ![c] = << >>]
  /\ down' = [down EXCEPT ![c] = << >>]

\* connect: a new VoiceCall, with the flow that is drawn at this moment.  The
\* button is there unless a call is up or on its way, as far as the status knows.
Run ==
  /\ status \notin {"live", "connecting"}
  /\ made < MaxCalls
  /\ made' = made + 1
  /\ current' = made + 1
  /\ phase' = [phase EXCEPT ![made + 1] = "asking"]
  /\ up' = [up EXCEPT ![made + 1] = <<flow>>]
  /\ status' = "connecting"
  /\ turn' = NoTurn
  /\ traces' = NoTurn
  /\ traceStatus' = "idle"
  /\ tangled' = (tangled \/ \E c \in Call : ~Gone(c))
  /\ overlap' = (Polling # {})
  /\ UNCHANGED <<canvasVars, seed, stopping, down, session, turns, polls, moves,
                 stale>>

\* The microphone is given, and the socket dialled.
MicGranted(c) ==
  /\ phase[c] = "asking"
  /\ phase' = [phase EXCEPT ![c] = "opening"]
  /\ UNCHANGED <<status, canvasVars, seed, current, made, stopping, wireVars,
                 session, turns, traceVars, moves, stale, tangled>>

\* The microphone is refused: start throws, and connect catches it.
MicRefused(c) ==
  /\ phase[c] = "asking"
  /\ phase' = [phase EXCEPT ![c] = "closed"]
  /\ Silent(c)
  /\ status' = "idle"
  /\ UNCHANGED <<canvasVars, seed, current, made, stopping, session, turns, traceVars,
                 moves, stale, tangled>>

\* onopen: the start message leaves, with the flow drawn when Run was pressed.
Opens(c) ==
  /\ phase[c] = "opening"
  /\ phase' = [phase EXCEPT ![c] = "open"]
  /\ status' = "live"
  /\ UNCHANGED <<canvasVars, seed, current, made, stopping, wireVars, session, turns,
                 traceVars, moves, stale, tangled>>

\* hangUp, up to where stop() waits for the audio contexts to close.  A request
\* still on its way to a session that is about to close changes nothing.
HangUp ==
  /\ status = "live"
  /\ current # NoCall
  /\ stopping[current] = "nobody"
  /\ stopping' = [stopping EXCEPT ![current] = "hangUp"]
  /\ IF phase[current] = "open"
       THEN phase' = [phase EXCEPT ![current] = "closing"] /\ Silent(current)
       ELSE UNCHANGED <<phase, wireVars>>
  /\ UNCHANGED <<status, canvasVars, seed, current, made, session, turns,
                 traceVars, moves, stale, tangled>>

\* hangUp when another call's hangUp has let go of this one: nothing is stopped.
HangUpNothing ==
  /\ status = "live"
  /\ current = NoCall
  /\ status' = "idle"
  /\ UNCHANGED <<canvasVars, seed, current, made, callVars, wireVars, session, turns,
                 traceVars, moves, stale, tangled>>

\* onclose: the socket could not be opened, was closed by the other side or the
\* network, or the close that hangUp asked for is done.  stop() closes the audio
\* contexts, unless hangUp has done so or is doing so.
SocketCloses(c) ==
  /\ phase[c] \in {"opening", "open", "closing"}
  /\ phase' = [phase EXCEPT ![c] = "closed"]
  /\ stopping' = [stopping EXCEPT ![c] = IF phase[c] = "closing" THEN @ ELSE "onclose"]
  /\ Silent(c)
  /\ status' = "ended"
  /\ UNCHANGED <<canvasVars, seed, current, made, session, turns, traceVars, moves,
                 stale, tangled>>

\* (mutant) a call that stops leaves the status to the others
StopsQuietly(c) == status

\* The audio contexts are closed: stop() says "ended", and hangUp goes on to idle.
StatusAfterStop(c) == IF stopping[c] = "hangUp" THEN "idle" ELSE "ended"

Stopped(c) ==
  /\ stopping[c] # "nobody"
  /\ stopping' = [stopping EXCEPT ![c] = "nobody"]
  /\ status' = StatusAfterStop(c)
  /\ current' = IF stopping[c] = "hangUp" THEN NoCall ELSE current
  /\ UNCHANGED <<canvasVars, seed, made, phase, wireVars, session, turns, traceVars,
                 moves, stale, tangled>>

-----------------------------------------------------------------------------
(* The session. *)

\* (mutant) the hash is the server default's, as when it was a constant
ConstantHash(patch) ==
  [flow |-> Sanitize(patch, ServerDefaultFlow), hash |-> Fingerprint(ServerDefaultFlow)]

\* #applyFlow: a request is resolved against the server's default, not against
\* what the session runs.
ApplyFlow(patch) ==
  LET f == Sanitize(patch, ServerDefaultFlow) IN [flow |-> f, hash |-> Fingerprint(f)]

\* onStart, onConfigure: resolved, and answered with what it was resolved to.
GatewayReceives(c) ==
  /\ phase[c] = "open" /\ up[c] # << >>
  /\ LET applied == ApplyFlow(Head(up[c]))
     IN /\ session' = [session EXCEPT ![c] = applied]
        /\ down' = [down EXCEPT ![c] = Append(@, applied)]
  /\ up' = [up EXCEPT ![c] = Tail(@)]
  /\ UNCHANGED <<status, canvasVars, seed, current, made, callVars, turns, traceVars, moves,
                 stale, tangled>>

\* #started: the start, which alone asks for a whole flow, has been received.
Started(c) == up[c] # << >> => DOMAIN Head(up[c]) # Knob

\* #beginTurn: the flow and its hash are frozen together.
TurnBegins(c) ==
  /\ phase[c] = "open" /\ Started(c)
  /\ Len(turns) < MaxTurns
  /\ turns' = Append(turns, [call |-> c, ended |-> FALSE,
                             flow |-> session[c].flow, hash |-> session[c].hash])
  /\ UNCHANGED <<status, canvasVars, seed, current, made, callVars, wireVars, session,
                 traceVars, moves, stale, tangled>>

\* #awaitTurn, in whatever order the workflows close: the caller is told, if its
\* socket is open still.
TurnEnds(t) ==
  /\ t \in DOMAIN turns /\ ~turns[t].ended
  /\ turns' = [turns EXCEPT ![t].ended = TRUE]
  /\ LET c == turns[t].call
     IN down' = IF phase[c] = "open" THEN [down EXCEPT ![c] = Append(@, [turn |-> t])]
                                     ELSE down
  /\ UNCHANGED <<status, canvasVars, seed, current, made, callVars, up, session,
                 traceVars, moves, stale, tangled>>

-----------------------------------------------------------------------------
(* What the page makes of a message. *)

\* onFlow: whatever was asked for, the canvas draws what was resolved.
FlowAnswered(c) ==
  /\ down[c] # << >> /\ "flow" \in DOMAIN Head(down[c])
  /\ Draw(Head(down[c]).flow, Head(down[c]).hash)
  /\ down' = [down EXCEPT ![c] = Tail(@)]
  /\ stale' = FALSE
  /\ UNCHANGED <<status, seed, current, made, callVars, up, session, turns, traceVars,
                 moves, tangled>>

\* onTurnEnd: a poll for the turn's rows begins, beside any that is still going.
TurnReported(c) ==
  /\ down[c] # << >> /\ "turn" \in DOMAIN Head(down[c])
  /\ turn' = Head(down[c]).turn
  /\ polls' = [polls EXCEPT ![Head(down[c]).turn] = MaxTries]
  /\ traceStatus' = "waiting"
  /\ overlap' = (overlap \/ Polling # {})
  /\ down' = [down EXCEPT ![c] = Tail(@)]
  /\ UNCHANGED <<status, canvasVars, seed, current, made, callVars, up, session, turns,
                 traces, moves, stale, tangled>>

TriesLeft(t) == polls[t] - 1

\* (mutant) an empty answer is drawn like any other
DrawsNothing(t) == NoTurn

RowsOf(t) == t

\* loadTraces: one try.  The sink has written rows of the turn by now, and the
\* page draws them and stops asking; or it has not, or the server is not reached.
Poll(t) ==
  /\ polls[t] > 0
  /\ \/ /\ traces' = RowsOf(t)
        /\ traceStatus' = "landed"
        /\ polls' = [polls EXCEPT ![t] = 0]
     \/ /\ polls' = [polls EXCEPT ![t] = TriesLeft(t)]
        /\ traceStatus' = IF TriesLeft(t) = 0 THEN "missing" ELSE traceStatus
        /\ UNCHANGED traces
  /\ UNCHANGED <<status, canvasVars, seed, current, made, callVars, wireVars, session,
                 turns, turn, overlap, moves, stale, tangled>>

-----------------------------------------------------------------------------
Next ==
  \/ SeedLands \/ SeedFails \/ Run \/ HangUp \/ HangUpNothing
  \/ \E k \in Knob : \E v \in Setting(k) : MoveKnob(k, v)
  \/ \E c \in Call :
       \/ MicGranted(c) \/ MicRefused(c) \/ Opens(c) \/ SocketCloses(c) \/ Stopped(c)
       \/ GatewayReceives(c) \/ TurnBegins(c) \/ FlowAnswered(c) \/ TurnReported(c)
  \/ \E t \in Turn : TurnEnds(t) \/ Poll(t)

Spec == Init /\ [][Next]_vars

-----------------------------------------------------------------------------
(* Properties. *)

\* A hash never stands beside a flow that it is not the hash of: not on the
\* canvas, not in a session, not in an answer on its way, and not in a turn,
\* whose rows will carry it (page.tsx, #applyFlow, #beginTurn).
HashFollowsTheFlow ==
  /\ hash # NoHash => hash = Fingerprint(flow)
  /\ \A c \in Call :
       /\ session[c].hash = Fingerprint(session[c].flow)
       /\ \A i \in DOMAIN down[c] :
            "flow" \in DOMAIN down[c][i] => down[c][i].hash = Fingerprint(down[c][i].flow)
  /\ \A t \in DOMAIN turns : turns[t].hash = Fingerprint(turns[t].flow)

\* While a call is up and nothing is on the wire, the canvas draws the flow that
\* the next turn will run with: unless the seed came late, or two calls of the
\* page were alive at once (onFlow, #applyFlow).
ShownFlowRuns ==
  /\ status = "live" /\ ~tangled /\ ~stale
  /\ phase[current] = "open" /\ up[current] = << >>
  /\ \A i \in DOMAIN down[current] : "flow" \notin DOMAIN down[current][i]
  => flow = session[current].flow

\* A call that is up has its Hang up button, and the button a call that is up:
\* unless one is stopping, or was when the next was begun (call.ts, hangUp).
CallHasItsButton ==
  ~tangled /\ (\A c \in Call : stopping[c] = "nobody")
  => ((status = "live") <=> (current # NoCall /\ phase[current] = "open"))

\* The page says it waits only while a poll is going, which ends in at most
\* MaxTries tries; and the numbers on the nodes are of the turn that it names
\* once it says they have landed: unless a poll ran into the next report or the
\* next call (loadTraces, connect).
PollAnswersThePage ==
  /\ traceStatus = "waiting" => Polling # {}
  /\ traceStatus = "landed" /\ ~overlap => traces = turn
=============================================================================
