----------------------------- MODULE CallSession -----------------------------
(***************************************************************************)
(* One Telegram call as eotm/control.py drives it: CallSession is a        *)
(* single-threaded reducer fed with TDLib events in receive order, with    *)
(* the media engine's events and with clock ticks.  Around it stands what  *)
(* it talks to: Telegram's record of the call (`server`), the ordered      *)
(* stream of TDLib events it has not handled yet (`wire`), another call of *)
(* the same account, and the engine's log of the signaling data it was     *)
(* given.  session.discard_sent doubles as the discardCall request on its  *)
(* way to Telegram, and leaving "idle" as the createCall or acceptCall.  A *)
(* call that only rings (eotm/ringing.py) is a session with a handle of    *)
(* its own and without an engine.                                          *)
(***************************************************************************)
EXTENDS Naturals, Sequences, FiniteSets

CONSTANTS
    MaxUpdates,   \* updates buffered before the call id is known (16 in the code)
    MaxSignaling, \* signaling data buffered before Ready (32 in the code)
    StartTimeout, \* start_timeout, in clock steps
    EndTimeout,   \* end_timeout, in clock steps
    MaxSignals,   \* bound: signaling data the peer sends in one call
    MaxForeign,   \* bound: events of the account's other call
    MaxWire       \* bound: TDLib events not handled yet

ASSUME BoundsAssumption ==
    /\ {MaxUpdates, MaxSignaling, MaxSignals, MaxForeign, MaxWire} \subseteq Nat
    /\ {StartTimeout, EndTimeout} \subseteq Nat \ {0}

VARIABLES
    session,   \* the CallSession object
    replay,    \* updates buffered for the call id that handle() is re-reading
    server,    \* Telegram's state of this call
    owed,      \* TDLib still owes the callId answer of createCall
    discarded, \* Telegram has dealt with the discardCall request
    wire,      \* TDLib events in receive order
    signals,   \* number of signaling data the peer has sent
    received,  \* history: this call's signaling data handled while it was live
    foreign    \* number of events of the other call

sessionVars == <<session, replay, received>>
serverVars == <<server, owed, discarded, signals, foreign>>
vars == <<session, replay, server, owed, discarded, wire, signals, received, foreign>>

Phases == {"idle", "dialing", "ringing", "exchanging_keys", "media_connecting", "active",
           "media_reconnecting", "ending", "ended", "failed", "end_unconfirmed"}

\* Phases in which the session still works towards a connection or has one.
Live == {"dialing", "ringing", "exchanging_keys", "media_connecting", "active",
         "media_reconnecting"}

Final == {"ended", "failed", "end_unconfirmed"}

CallStates == {"pending", "received", "exchanging", "ready", "hanging", "discarded", "error"}
Over == {"discarded", "error"}

Event(kind) == [kind |-> kind, call |-> "own", state |-> "pending", data |-> 0]
Update(c, st) == [kind |-> "call", call |-> c, state |-> st, data |-> 0]
Signal(c, n) == [kind |-> "signal", call |-> c, state |-> "pending", data |-> n]

NewSession ==
    [phase |-> "idle", ringing |-> FALSE, reported |-> {}, outgoing |-> TRUE, call_known |-> FALSE, create_resolved |-> FALSE,
     stopping |-> FALSE, discard_sent |-> FALSE, media_started |-> FALSE,
     media_stopped |-> FALSE, cleanup |-> "none", pending_updates |-> <<>>,
     pending_signaling |-> <<>>, heard |-> <<>>,
     since_created |-> 0, since_reconnecting |-> 0, since_stop |-> 0]

-----------------------------------------------------------------------------
(* The session's internal operations.  Each maps a session to the set of   *)
(* sessions it may become: the engine's calls may fail.                    *)

StopMedia(s) ==
    LET quiet == [s EXCEPT !.pending_signaling = <<>>]
    IN  IF s.media_started /\ ~s.media_stopped
        THEN {[quiet EXCEPT !.media_stopped = TRUE, !.cleanup = c] :
                 c \in {"confirmed", "unconfirmed"}}
        ELSE {quiet}

Discard(s) == [s EXCEPT !.discard_sent = @ \/ s.call_known]

\* Broken variant: the engine is stopped only when Telegram confirms the end.
EndKeepingMedia(s) ==
    IF s.phase \in {"idle", "ended", "failed"} \/ s.stopping
    THEN {s}
    ELSE {Discard([s EXCEPT !.stopping = TRUE, !.since_stop = 0, !.phase = "ending"])}

End(s) ==
    IF s.phase \in {"idle", "ended", "failed"} \/ s.stopping
    THEN {s}
    ELSE {Discard(t) : t \in StopMedia([s EXCEPT !.stopping = TRUE,
                                                 !.since_stop = 0,
                                                 !.phase = "ending"])}

\* Broken variant: what was buffered before Ready is not handed over.
StartMediaUnfed(s) ==
    LET up == [s EXCEPT !.phase = "media_connecting", !.media_started = TRUE,
                        !.pending_signaling = <<>>]
    IN  {up} \cup End(up)

\* Ready starts the engine and hands it the buffered signaling in order; any of
\* these calls may raise, after the first k data have been taken.
StartMedia(s) ==
    LET up(k) == [s EXCEPT !.phase = "media_connecting",
                           !.media_started = TRUE,
                           !.heard = @ \o SubSeq(s.pending_signaling, 1, k),
                           !.pending_signaling = <<>>]
    IN  {up(Len(s.pending_signaling))}
            \cup UNION {End(up(k)) : k \in 0..Len(s.pending_signaling)}

Buffer(s, e) ==
    IF Len(s.pending_updates) < MaxUpdates
    THEN {[s EXCEPT !.pending_updates = Append(@, e)]}
    ELSE End(s)

HandleSignal(s, e) ==
    CASE s.phase \in {"idle", "ended", "failed"} \/ s.stopping -> {s}
      [] OTHER ->
           CASE ~s.call_known -> Buffer(s, e)
             [] s.call_known /\ e.call # "own" -> {s}
             [] s.call_known /\ e.call = "own" /\ s.media_started ->
                  {[s EXCEPT !.heard = Append(@, e.data)]} \cup End(s)
             [] OTHER ->
                  IF Len(s.pending_signaling) < MaxSignaling
                  THEN {[s EXCEPT !.pending_signaling = Append(@, e.data)]}
                  ELSE End(s)

\* Broken variant: states the session does not use become its phase.
HandleStateRaw(s, st) == IF st = "ready" THEN StartMedia(s) ELSE {[s EXCEPT !.phase = st]}

HandleState(s, st) ==
    CASE st = "pending"    -> {[s EXCEPT !.phase = "dialing"]}
      [] st = "received"   -> {[s EXCEPT !.phase = "ringing"]}
      [] st = "exchanging" -> {[s EXCEPT !.phase = "exchanging_keys"]}
      [] st = "ready"      -> IF s.media_started THEN {s} ELSE StartMedia(s)
      [] st = "hanging"    -> End(s)
      [] OTHER             -> {s}

HandleCall(s, e) ==
    CASE s.phase = "idle" -> {s}
      [] s.phase # "idle" /\ ~s.call_known -> Buffer(s, e)
      [] s.phase # "idle" /\ s.call_known /\ e.call # "own" -> {s}
      [] OTHER ->
           IF e.state \in Over
           THEN {[t EXCEPT !.phase = IF e.state = "discarded" THEN "ended" ELSE "failed"] :
                    t \in StopMedia(s)}
           ELSE IF s.stopping \/ s.phase \in {"ended", "failed"}
                THEN {s}
                ELSE HandleState(s, e.state)

HandleAny(s, e) == IF e.kind = "signal" THEN HandleSignal(s, e) ELSE HandleCall(s, e)

Answered(state) == state \in {"exchanging", "ready"}

\* RingingSession.handle: a call that only rings is ended when it is answered, and Ready
\* is kept from the rest of the session.
HandleRinging(s, e) ==
    LET mine == /\ e.kind = "call" /\ s.call_known /\ e.call = "own"
                /\ ~s.stopping /\ s.phase \notin {"ended", "failed"}
    IN  IF mine /\ Answered(e.state)
        THEN End([s EXCEPT !.reported = @ \cup {"answered"}])
        ELSE HandleAny([s EXCEPT !.reported = @ \cup (IF mine /\ e.state = "received"
                                                      THEN {"delivered"} ELSE {})], e)

Handle(s, e) == IF s.ringing THEN HandleRinging(s, e) ELSE HandleAny(s, e)

\* Signaling of this call that Handle keeps: the history the ordering
\* property compares the engine's log with.
Remember(s, e) ==
    IF /\ e.kind = "signal" /\ e.call = "own"
       /\ s.phase \notin {"idle", "ended", "failed"} /\ ~s.stopping
    THEN Append(received, e.data)
    ELSE received

-----------------------------------------------------------------------------
(* The session's entry points.                                             *)

Start ==
    /\ session.phase = "idle" /\ server = "none"
    /\ \E ringing \in BOOLEAN :
          session' = [session EXCEPT !.phase = "dialing", !.ringing = ringing,
                                     !.since_created = 0]
    /\ UNCHANGED <<replay, received, wire, serverVars>>

Accept ==
    /\ session.phase = "idle" /\ server = "pending"
    /\ session' = [session EXCEPT !.phase = "exchanging_keys", !.outgoing = FALSE,
                                  !.call_known = TRUE, !.create_resolved = TRUE,
                                  !.since_created = 0]
    /\ owed' = TRUE
    /\ UNCHANGED <<replay, received, wire, server, discarded, signals, foreign>>

\* The owner of the session ends it: a reply failed, the duration is used up,
\* a text message takes over, the call has rung long enough.
Hangup ==
    /\ replay = <<>>
    /\ session' \in End(session)
    /\ UNCHANGED <<replay, received, wire, serverVars>>

\* A ring that is over waits for the end of the call, unless the connection to Telegram
\* fails (the finally clause of ring_once).
GiveUpRinging ==
    /\ session.ringing /\ session.phase = "ending" /\ replay = <<>>
    /\ session' = [session EXCEPT !.phase = "end_unconfirmed"]
    /\ UNCHANGED <<replay, received, wire, serverVars>>

\* A state the engine reported, drained on this thread: it may be stale.
MediaEvent ==
    /\ replay = <<>> /\ session.media_started
    /\ \/ session' \in End(session)   \* "end_requested" and "failed"
       \/ /\ ~session.stopping
          /\ session.phase \in {"media_connecting", "media_reconnecting", "active"}
          /\ session' = [session EXCEPT !.phase = "active", !.since_reconnecting = 0]
       \/ /\ ~session.stopping /\ session.phase = "active"
          /\ session' = [session EXCEPT !.phase = "media_reconnecting",
                                        !.since_reconnecting = 0]
    /\ UNCHANGED <<replay, received, wire, serverVars>>

Take(kind) ==
    /\ replay = <<>> /\ wire # <<>>
    /\ Head(wire).kind = kind
    /\ wire' = Tail(wire)
    /\ UNCHANGED serverVars

\* callId answers createCall: a session that was ended meanwhile discards the
\* call at once, and the updates buffered for the id are read again.
CreateAnswered ==
    /\ Take("created")
    /\ IF session.create_resolved
       THEN UNCHANGED <<session, replay>>
       ELSE LET known == [session EXCEPT !.create_resolved = TRUE, !.call_known = TRUE,
                                         !.pending_updates = <<>>]
            IN  /\ session' = IF session.stopping THEN Discard(known) ELSE known
                /\ replay' = session.pending_updates
    /\ UNCHANGED received

CreateFailed ==
    /\ Take("create_error")
    /\ CASE ~session.outgoing -> session' \in End(session)
         [] session.outgoing /\ session.create_resolved -> session' = session
         [] OTHER -> session' = [session EXCEPT !.create_resolved = TRUE,
                                                !.phase = "failed",
                                                !.pending_updates = <<>>]
    /\ UNCHANGED <<replay, received>>

\* Broken variant: a refused discard counts as the end of the call.
DiscardFailedAsEnd ==
    /\ Take("end_error")
    /\ session' = [session EXCEPT !.phase = "ended"]
    /\ UNCHANGED <<replay, received>>

DiscardFailed ==
    /\ Take("end_error")
    /\ session' = [session EXCEPT !.phase = "end_unconfirmed"]
    /\ UNCHANGED <<replay, received>>

\* A buffered signal enters the history when it is buffered, a second reading
\* does not enter it again.
HandleUpdate ==
    /\ \/ Take("call") \/ Take("signal")
    /\ session' \in Handle(session, Head(wire))
    /\ received' = Remember(session, Head(wire))
    /\ UNCHANGED replay

Replay ==
    /\ replay # <<>>
    /\ session' \in Handle(session, Head(replay))
    /\ replay' = Tail(replay)
    /\ UNCHANGED <<received, wire, serverVars>>

\* Broken variant: only the end of a call is timed.
TickEnd ==
    /\ replay = <<>> /\ session.stopping
    /\ session.phase \notin {"idle", "ended", "failed"} /\ session.since_stop >= EndTimeout
    /\ session' = [session EXCEPT !.phase = "end_unconfirmed"]
    /\ UNCHANGED <<replay, received, wire, serverVars>>

Tick ==
    /\ replay = <<>>
    /\ session.phase \notin {"idle", "ended", "failed"}
    /\ \E s \in IF \/ /\ session.phase = "media_reconnecting"
                      /\ session.since_reconnecting >= StartTimeout
                   \/ /\ session.phase \notin {"active", "media_reconnecting"}
                      /\ session.since_created >= StartTimeout
                THEN End(session)
                ELSE {session} :
          session' = IF s.stopping /\ s.since_stop >= EndTimeout
                     THEN [s EXCEPT !.phase = "end_unconfirmed"]
                     ELSE s
    /\ UNCHANGED <<replay, received, wire, serverVars>>

-----------------------------------------------------------------------------
(* Time and Telegram.                                                      *)

Later(t, limit) == IF t < limit THEN t + 1 ELSE t

TimePasses ==
    /\ session.phase # "idle" /\ replay = <<>>
    /\ session' = [session EXCEPT !.since_created = Later(@, StartTimeout),
                                  !.since_reconnecting = Later(@, StartTimeout),
                                  !.since_stop = Later(@, EndTimeout)]
    /\ UNCHANGED <<replay, received, wire, serverVars>>

Push(e) == Len(wire) < MaxWire /\ wire' = Append(wire, e)

ServerRefuses ==
    /\ \/ /\ session.outgoing /\ session.phase # "idle" /\ server = "none"
          /\ server' = "refused" /\ owed' = FALSE
       \/ /\ ~session.outgoing /\ owed   \* acceptCall fails, the call may go on
          /\ server' = server /\ owed' = FALSE
    /\ Push(Event("create_error"))
    /\ UNCHANGED <<sessionVars, discarded, signals, foreign>>

ServerCreates ==
    /\ session.outgoing /\ session.phase # "idle" /\ server = "none"
    /\ server' = "pending" /\ owed' = TRUE
    /\ Push(Update("own", "pending"))
    /\ UNCHANGED <<sessionVars, discarded, signals, foreign>>

\* TDLib answers createCall (or acceptCall) before or after the call's updates.
ServerAnswers ==
    /\ owed /\ owed' = FALSE
    /\ Push(Event("created"))
    /\ UNCHANGED <<sessionVars, server, discarded, signals, foreign>>

Successors(st) ==
    CASE st = "pending"    -> {"received", "exchanging", "hanging"} \cup Over
      [] st = "received"   -> {"exchanging", "hanging"} \cup Over
      [] st = "exchanging" -> {"ready", "hanging"} \cup Over
      [] st = "ready"      -> {"hanging"} \cup Over
      [] st = "hanging"    -> Over
      [] OTHER             -> {}

ServerMoves ==
    /\ session.phase # "idle"
    /\ server' \in Successors(server)
    /\ Push(Update("own", server'))
    /\ UNCHANGED <<sessionVars, owed, discarded, signals, foreign>>

PeerSignals ==
    /\ server \in {"exchanging", "ready"} /\ signals < MaxSignals
    /\ signals' = signals + 1
    /\ Push(Signal("own", signals'))
    /\ UNCHANGED <<sessionVars, server, owed, discarded, foreign>>

\* discardCall: the call is over, or Telegram answers with an error.
ServerDiscards ==
    /\ session.discard_sent /\ ~discarded
    /\ discarded' = TRUE
    /\ \/ /\ server \notin Over \cup {"refused"}
          /\ server' = "discarded"
          /\ Push(Update("own", "discarded"))
       \/ /\ server' = server
          /\ Push(Event("end_error"))
    /\ UNCHANGED <<sessionVars, owed, signals, foreign>>

OtherCall ==
    /\ foreign < MaxForeign
    /\ foreign' = foreign + 1
    /\ \/ \E st \in {"ready", "discarded"} : Push(Update("other", st))
       \/ Push(Signal("other", 0))
    /\ UNCHANGED <<sessionVars, server, owed, discarded, signals>>

-----------------------------------------------------------------------------
Init ==
    /\ session = NewSession
    /\ replay = <<>> /\ received = <<>> /\ wire = <<>>
    /\ server \in {"none", "pending"}
    /\ owed = FALSE /\ discarded = FALSE
    /\ signals = 0 /\ foreign = 0

Controller == CreateAnswered \/ CreateFailed \/ DiscardFailed \/ HandleUpdate \/ Replay

Telegram ==
    \/ ServerRefuses \/ ServerCreates \/ ServerAnswers \/ ServerMoves
    \/ PeerSignals \/ ServerDiscards \/ OtherCall

Next ==
    \/ Start \/ Accept \/ Hangup \/ GiveUpRinging \/ MediaEvent \/ Controller \/ Tick \/ TimePasses
    \/ Telegram

Spec == Init /\ [][Next]_vars

\* The event loop calls step() until the session is final: events are handled,
\* ticks happen and time passes.  Nothing is assumed of Telegram or the engine.
FairSpec ==
    /\ Spec
    /\ WF_vars(Controller) /\ WF_vars(Tick) /\ WF_vars(TimePasses)

-----------------------------------------------------------------------------
(* Properties.                                                             *)

SessionType ==
    [phase : Phases, ringing : BOOLEAN, reported : SUBSET {"delivered", "answered"},
     outgoing : BOOLEAN, call_known : BOOLEAN, create_resolved : BOOLEAN,
     stopping : BOOLEAN, discard_sent : BOOLEAN, media_started : BOOLEAN,
     media_stopped : BOOLEAN, cleanup : {"none", "confirmed", "unconfirmed"},
     pending_updates : Seq(
         [kind : {"call", "signal"}, call : {"own", "other"}, state : CallStates, data : Nat]),
     pending_signaling : Seq(Nat), heard : Seq(Nat),
     since_created : Nat, since_reconnecting : Nat, since_stop : Nat]

EventType ==
    [kind : {"created", "create_error", "end_error", "call", "signal"},
     call : {"own", "other"}, state : CallStates, data : Nat]

\* Every variable, and every field of the session, keeps its type.
TypeOK ==
    /\ session \in SessionType
    /\ replay \in Seq(EventType) /\ wire \in Seq(EventType)
    /\ received \in Seq(Nat)
    /\ server \in CallStates \cup {"none", "refused"}
    /\ owed \in BOOLEAN /\ discarded \in BOOLEAN
    /\ signals \in Nat /\ foreign \in Nat

\* The microphone is never left open: outside the live phases the engine, if
\* it was started, has been told to stop, and the outcome of that is recorded.
\* A call that only rings starts no engine, also when its Ready was buffered
\* before the id was known, or comes while the call is being ended.
MediaReleased ==
    /\ session.phase \notin Live /\ session.media_started =>
          session.media_stopped /\ session.cleanup # "none"
    /\ session.ringing => ~session.media_started

\* Telegram's call is never orphaned: the session says "ended" or "failed" only when the call
\* is over or never existed, so that a hangup nobody confirmed is never reported as one, and a
\* session that is being ended and knows the call's id has asked for the discard, also when the
\* id came late.
EndIsConfirmed ==
    /\ session.phase \in {"ended", "failed"} => server \in Over \cup {"refused"}
    /\ session.stopping /\ session.call_known => session.discard_sent

\* Where the signaling data of this call stand among some events, and the how-manieth
\* of them the one at place i is.
OwnSignals(events) == {i \in 1..Len(events) : events[i].kind = "signal" /\ events[i].call = "own"}
Place(events, i) == Cardinality({j \in OwnSignals(events) : j <= i})

\* Signaling data reach the engine in the order Telegram delivered them, none
\* lost, repeated or taken from another call, across both buffers; once the
\* session ends, the engine has seen a prefix.
SignalingInOrder ==
    LET known == session.heard \o session.pending_signaling
        waiting == replay \o session.pending_updates
    IN  IF session.phase \in Live
        THEN /\ Len(received) = Len(known) + Cardinality(OwnSignals(waiting))
             /\ known = SubSeq(received, 1, Len(known))
             /\ \A i \in OwnSignals(waiting) :
                   waiting[i].data = received[Len(known) + Place(waiting, i)]
        ELSE /\ Len(session.heard) <= Len(received)
             /\ session.heard = SubSeq(received, 1, Len(session.heard))

\* A call that does not connect is given up: from dialing the session gets to
\* an active call or to a final phase, whatever Telegram and the engine do.  And a
\* requested end is over within the end timeout, confirmed or not.
CallBounded ==
    /\ session.phase \in {"dialing", "ringing", "exchanging_keys", "media_connecting"} ~>
          session.phase \in {"active"} \cup Final
    /\ session.phase = "ending" ~> session.phase \in Final
=============================================================================
