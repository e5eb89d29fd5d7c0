------------------------------- MODULE CallMedia -------------------------------
(***************************************************************************)
(* The media of one call: LivePcmMedia and LiveVoice (live_voice.py) over  *)
(* NativePcmMedia and NativeIPC (runtime.py) and the engine process        *)
(* (native/media_runtime.cpp), seen by the call through QueuedMedia        *)
(* (live.py).  Four threads: main starts, signals and stops; the reader    *)
(* takes what the engine writes; the voice thread runs the speech session; *)
(* a player of its pool gives the session's audio to the engine.  Main and *)
(* player send requests one at a time and wait for the reply.              *)
(***************************************************************************)
EXTENDS Naturals, Sequences, FiniteSets

CONSTANTS
    TableSize,   \* replies the reader keeps for requesters (8)
    QueueSize,   \* events QueuedMedia keeps for main (128)
    MaxSends,    \* bound: signaling data and chunks of audio for the engine
    MaxReports   \* bound: states the engine reports

ASSUME ConstantsAssumption ==
    {TableSize, QueueSize, MaxSends, MaxReports} \subseteq Nat

VARIABLES
    main,    \* main's step, whether the clean-up succeeded, whether stop comes again
    waits,   \* the request each requester waits for, 0 without one
    ipc,     \* NativeIPC and NativeMedia
    engine,  \* the process: its pipes and its call
    reader,  \* the reader thread: "none", "read" or "done"
    media,   \* LivePcmMedia
    voice,   \* LiveVoice and its thread
    player,  \* the audio player: "idle", "push", "send" or "failed"
    events,  \* QueuedMedia: the queue for main, and whether it overflowed
    count    \* how much of each bound is used

mediaVars == <<main, waits, ipc, engine, reader, media, voice, player, events, count>>

Requesters == {"main", "player"}
Requests == {"prepare", "start", "signal", "stop"}
States == {"connected", "reconnecting", "failed"}
EndStates == {"failed", "end_requested"}
Used(bound) == count' = [count EXCEPT ![bound] = @ + 1]

-----------------------------------------------------------------------------
(* NativeIPC.request: the writer lock is held from the write to the reply. *)

WriterFree == \A who \in Requesters : waits[who] = 0

Write(who, op) ==
    /\ WriterFree /\ ~ipc.closing /\ engine.up
    /\ ipc' = [ipc EXCEPT !.sequence = @ + 1]
    /\ waits' = [waits EXCEPT ![who] = ipc.sequence + 1]
    /\ engine' = [engine EXCEPT !.stdin = Append(@, [id |-> ipc.sequence + 1, op |-> op])]

WriteFails == WriterFree /\ (ipc.closing \/ ~engine.up)

\* Broken variant: any reply in the table is taken for the answer.
AnswerAny(who, ok) ==
    /\ waits[who] # 0
    /\ \E reply \in ipc.replies :
         /\ reply.ok = ok
         /\ ipc' = [ipc EXCEPT !.replies = @ \ {reply}]
    /\ waits' = [waits EXCEPT ![who] = 0]

Answer(who, ok) ==
    /\ waits[who] # 0
    /\ \E reply \in ipc.replies :
         /\ reply.id = waits[who] /\ reply.ok = ok
         /\ ipc' = [ipc EXCEPT !.replies = @ \ {reply}]
    /\ waits' = [waits EXCEPT ![who] = 0]

\* The reader is gone, or eight seconds have passed.
GivesUp(who) ==
    /\ waits[who] # 0
    /\ \A reply \in ipc.replies : reply.id # waits[who]
    /\ waits' = [waits EXCEPT ![who] = 0]

RequestFails(who) ==
    \/ Answer(who, FALSE)
    \/ GivesUp(who) /\ UNCHANGED ipc
    \/ WriteFails /\ UNCHANGED <<waits, ipc>>

-----------------------------------------------------------------------------
(* Main: start, receive_signaling and drain.                               *)

Goto(label) == main' = [main EXCEPT !.pc = label]

\* NativeIPC: the media process and the thread that reads what it writes.
Spawn ==
    /\ ipc' = [ipc EXCEPT !.open = TRUE]
    /\ engine' = [engine EXCEPT !.up = TRUE]
    /\ reader' = "read"

Start ==
    /\ main.pc = "idle" /\ Goto("prepare")
    /\ Spawn
    /\ UNCHANGED <<waits, media, voice, player, events, count>>

MainWrites ==
    /\ main.pc \in Requests /\ Write("main", main.pc)
    /\ UNCHANGED <<main, reader, media, voice, player, events, count>>

MainAnswered ==
    /\ main.pc \in Requests /\ Answer("main", TRUE)
    /\ Goto(CASE main.pc = "prepare" -> "start"
              [] main.pc = "stop" -> "close"
              [] OTHER -> "running")
    /\ UNCHANGED <<engine, reader, media, voice, player, events, count>>

\* A start that fails closes the process and stops the media; CallSession then ends
\* the call and stops them once more.
MainFails ==
    /\ main.pc \in Requests /\ RequestFails("main")
    /\ main' = CASE main.pc \in {"prepare", "start"} -> [main EXCEPT !.pc = "abort", !.again = TRUE]
                 [] main.pc = "signal" -> [main EXCEPT !.pc = "quit"]
                 [] OTHER -> [main EXCEPT !.pc = "close", !.ok = FALSE]
    /\ UNCHANGED <<engine, reader, media, voice, player, events, count>>

Signal ==
    /\ main.pc = "running" /\ count.sends < MaxSends
    /\ Goto("signal") /\ Used("sends")
    /\ UNCHANGED <<waits, ipc, engine, reader, media, voice, player, events>>

\* The end of the call for reasons outside the media.
Hangup ==
    /\ main.pc = "running" /\ Goto("quit")
    /\ UNCHANGED <<waits, ipc, engine, reader, media, voice, player, events, count>>

Drain ==
    /\ main.pc = "running"
    /\ \/ events.overflow /\ Goto("quit") /\ UNCHANGED events
       \/ /\ events.queue # <<>>
          /\ IF Head(events.queue) \in EndStates THEN Goto("quit") ELSE UNCHANGED main
          /\ events' = [events EXCEPT !.queue = Tail(@)]
    /\ UNCHANGED <<waits, ipc, engine, reader, media, voice, player, count>>

-----------------------------------------------------------------------------
(* Main: stop.                                                             *)

Quit ==
    /\ main.pc = "quit" /\ Goto("join")
    /\ media' = [media EXCEPT !.stopping = TRUE]
    /\ voice' = [voice EXCEPT !.stopping = TRUE]
    /\ UNCHANGED <<waits, ipc, engine, reader, player, events, count>>

\* LiveVoice.close: the thread is joined for twelve seconds.
Join ==
    /\ main.pc = "join"
    /\ main' = [main EXCEPT !.pc = "native",
                  !.ok = @ /\ voice.pc \in {"none", "done"} /\ (voice.started => voice.confirmed)]
    /\ UNCHANGED <<waits, ipc, engine, reader, media, voice, player, events, count>>

\* NativeMedia.stop.
StopNative ==
    /\ main.pc = "native"
    /\ Goto(IF ipc.open THEN "stop" ELSE "end")
    /\ ipc' = [ipc EXCEPT !.open = FALSE]
    /\ UNCHANGED <<waits, engine, reader, media, voice, player, events, count>>

\* NativeIPC.close: end of input, seven seconds for the process to exit, or a kill.
CloseIPC ==
    /\ main.pc \in {"close", "abort"} /\ ~ipc.closing
    /\ ipc' = [ipc EXCEPT !.closing = TRUE]
    /\ UNCHANGED <<main, waits, engine, reader, media, voice, player, events, count>>

Exited ==
    /\ main.pc \in {"close", "abort"} /\ ipc.closing
    /\ main' = IF main.pc = "abort" THEN [main EXCEPT !.pc = "quit"]
               ELSE [main EXCEPT !.pc = "end", !.ok = @ /\ ~engine.up]
    /\ engine' = [engine EXCEPT !.up = FALSE]
    /\ ipc' = [ipc EXCEPT !.open = FALSE]
    /\ UNCHANGED <<waits, reader, media, voice, player, events, count>>

\* The second stop decides what CallSession reports.
End ==
    /\ main.pc = "end"
    /\ main' = IF main.again THEN [pc |-> "quit", ok |-> TRUE, again |-> FALSE]
               ELSE [main EXCEPT !.pc = "done"]
    /\ UNCHANGED <<waits, ipc, engine, reader, media, voice, player, events, count>>

-----------------------------------------------------------------------------
(* The reader.                                                             *)

\* Broken variant: what does not fit is dropped.
EnqueueOrDrop(event) ==
    events' = IF Len(events.queue) < QueueSize
              THEN [events EXCEPT !.queue = Append(@, event)] ELSE events

Enqueue(event) ==
    events' = IF Len(events.queue) < QueueSize
              THEN [events EXCEPT !.queue = Append(@, event)]
              ELSE [events EXCEPT !.overflow = TRUE]

\* Broken variant: the flag is not looked at under the lock.
NativeStateAnyway(state) ==
    /\ media' = [media EXCEPT !.connected = state = "connected",
                              !.requested = @ \/ state = "connected"]
    /\ voice' = IF state = "connected" /\ ~media.requested
                THEN [voice EXCEPT !.pc = "connecting"] ELSE voice
    /\ Enqueue(state)

\* native_state, under the lifecycle lock; the report after it meets a main that drains or
\* one that never will.
NativeState(state) ==
    \/ media.stopping /\ UNCHANGED <<media, voice, events>>
    \/ /\ ~media.stopping
       /\ media' = [media EXCEPT !.connected = state = "connected",
                                 !.requested = @ \/ state = "connected"]
       /\ voice' = IF state = "connected" /\ ~media.requested
                   THEN [voice EXCEPT !.pc = "connecting"] ELSE voice
       /\ Enqueue(state)

Reads(kind) ==
    /\ reader = "read" /\ engine.stdout # <<>> /\ Head(engine.stdout).kind = kind
    /\ engine' = [engine EXCEPT !.stdout = Tail(@)]

ReadState ==
    /\ Reads("state") /\ NativeState(Head(engine.stdout).state)
    /\ UNCHANGED <<main, waits, ipc, reader, player, count>>

\* The reader's end wakes the requesters; one that nobody asked for is a failure.
ReaderLeaves(failed) ==
    /\ reader' = "done"
    /\ IF failed \/ ~ipc.closing THEN NativeState("failed") ELSE UNCHANGED <<media, voice, events>>

ReadReply ==
    /\ Reads("reply")
    /\ \/ /\ Cardinality(ipc.replies) < TableSize
          /\ ipc' = [ipc EXCEPT !.replies = @ \cup {[id |-> Head(engine.stdout).id,
                                                     ok |-> Head(engine.stdout).ok]}]
          /\ UNCHANGED <<reader, media, voice, events>>
       \/ Cardinality(ipc.replies) >= TableSize /\ ReaderLeaves(TRUE) /\ UNCHANGED ipc
    /\ UNCHANGED <<main, waits, player, count>>

\* A frame that it does not understand, or audio that the session does not take.
BadFrame ==
    /\ reader = "read" /\ engine.up /\ ReaderLeaves(TRUE)
    /\ UNCHANGED <<main, waits, ipc, engine, player, count>>

EndOfFile ==
    /\ reader = "read" /\ engine.stdout = <<>> /\ ~engine.up /\ ReaderLeaves(FALSE)
    /\ UNCHANGED <<main, waits, ipc, engine, player, count>>

Reader == ReadState \/ ReadReply \/ EndOfFile

-----------------------------------------------------------------------------
(* The voice thread.  All its ends go through the finally clause of _run,  *)
(* which closes a session that was started and waits eight seconds for the *)
(* confirmation, and through the end of asyncio.run, which waits for the   *)
(* threads of the pool.                                                    *)

Speaking == voice.pc \in {"connecting", "live"}

Finally(failing) ==
    voice' = [voice EXCEPT !.pc = "leaving", !.stopping = TRUE, !.failing = failing]

SessionStarts ==
    /\ voice.pc = "connecting" /\ ~voice.stopping
    /\ voice' = [voice EXCEPT !.pc = "live", !.started = TRUE]
    /\ UNCHANGED <<main, waits, ipc, engine, reader, media, player, events, count>>

\* close() or an earlier end is noticed.
SessionStops ==
    /\ Speaking /\ voice.stopping /\ Finally(FALSE)
    /\ UNCHANGED <<main, waits, ipc, engine, reader, media, player, events, count>>

\* The session, a delegation or the player raises an error.
SessionFails ==
    /\ Speaking /\ Finally(TRUE)
    /\ UNCHANGED <<main, waits, ipc, engine, reader, media, player, events, count>>

PlayerNoticed == player = "failed" /\ SessionFails

SessionTimeLimit ==
    /\ Speaking /\ ~voice.stopping
    /\ Enqueue("failed") /\ Finally(FALSE)
    /\ UNCHANGED <<main, waits, ipc, engine, reader, media, player, count>>

\* Broken variant: an event the call does not know.
HangsUpOther ==
    /\ voice.pc = "live" /\ ~voice.stopping
    /\ Enqueue("hangup") /\ Finally(FALSE)
    /\ UNCHANGED <<main, waits, ipc, engine, reader, media, player, count>>

\* The hang-up machine has heard the goodbye.
HangsUp ==
    /\ voice.pc = "live" /\ ~voice.stopping
    /\ Enqueue("end_requested") /\ Finally(FALSE)
    /\ UNCHANGED <<main, waits, ipc, engine, reader, media, player, count>>

\* The service closes the session on its own.
SessionCloses ==
    /\ voice.pc = "live"
    /\ IF voice.stopping THEN UNCHANGED events ELSE Enqueue("failed")
    /\ voice' = [voice EXCEPT !.pc = "leaving", !.stopping = TRUE, !.confirmed = TRUE]
    /\ UNCHANGED <<main, waits, ipc, engine, reader, media, player, count>>

\* A delegation in flight only delays this step.
ThreadEnds ==
    /\ voice.pc = "leaving" /\ player \in {"idle", "failed"}
    /\ IF voice.failing THEN Enqueue("failed") ELSE UNCHANGED events
    /\ \E confirmed \in {voice.confirmed, voice.started} :
         voice' = [voice EXCEPT !.pc = "done", !.confirmed = confirmed]
    /\ UNCHANGED <<main, waits, ipc, engine, reader, media, player, count>>

Voice == SessionStops \/ PlayerNoticed \/ ThreadEnds

-----------------------------------------------------------------------------
(* The player: LivePcmMedia._to_phone.                                     *)

Chunk ==
    /\ voice.pc = "live" /\ ~voice.stopping /\ player = "idle" /\ count.sends < MaxSends
    /\ player' = "push" /\ Used("sends")
    /\ UNCHANGED <<main, waits, ipc, engine, reader, media, voice, events>>

PlayerChecks ==
    /\ player = "push"
    /\ \/ media.stopping /\ player' = "idle"
       \/ ~media.stopping /\ media.connected /\ player' = "send"
    /\ UNCHANGED <<main, waits, ipc, engine, reader, media, voice, events, count>>

\* What was checked may no longer hold.
PlayerWrites ==
    /\ player = "send" /\ Write("player", "pcm")
    /\ UNCHANGED <<main, reader, media, voice, player, events, count>>

PlayerAnswered ==
    /\ player = "send" /\ Answer("player", TRUE)
    /\ player' = "idle"
    /\ UNCHANGED <<main, engine, reader, media, voice, events, count>>

PlayerFails ==
    /\ player = "send"
    /\ \/ RequestFails("player")
       \/ waits["player"] = 0 /\ ~ipc.open /\ UNCHANGED <<waits, ipc>>
    /\ player' = "failed"
    /\ UNCHANGED <<main, engine, reader, media, voice, events, count>>

Player == PlayerChecks \/ PlayerWrites \/ PlayerAnswered \/ PlayerFails

-----------------------------------------------------------------------------
(* The engine process: main of media_runtime.cpp.                          *)

Accepted(op) == CASE op = "prepare" -> engine.call = "none"
                  [] op = "start" -> engine.call = "prepared"
                  [] op = "stop" -> TRUE
                  [] OTHER -> engine.call = "on"

CallAfter(op) == CASE op = "prepare" -> "prepared"
                   [] op = "start" -> "on"
                   [] op = "stop" -> "off"
                   [] OTHER -> engine.call

Reply(ok) == [kind |-> "reply", id |-> Head(engine.stdin).id, ok |-> ok]

Carried ==
    LET op == Head(engine.stdin).op
    IN  /\ Accepted(op)
        /\ engine' = [engine EXCEPT !.stdin = Tail(@), !.stdout = Append(@, Reply(TRUE)),
                                    !.call = CallAfter(op)]

\* Its state forbids the request, or its contents do; a start is tried once.
Refused ==
    LET op == Head(engine.stdin).op
    IN  /\ op # "stop"
        /\ engine' = [engine EXCEPT !.stdin = Tail(@), !.stdout = Append(@, Reply(FALSE)),
                        !.call = IF op = "start" THEN "used" ELSE @]

EngineServes ==
    /\ engine.up /\ engine.stdin # <<>> /\ (Carried \/ Refused)
    /\ UNCHANGED <<main, waits, ipc, reader, media, voice, player, events, count>>

\* The states of tgcalls: a call is connected, loses its connection, finds it again or fails.
Moves == {<<"connecting", "connected">>, <<"connected", "reconnecting">>,
          <<"reconnecting", "connected">>}
         \cup {<<link, "failed">> : link \in {"connecting", "connected", "reconnecting"}}

EngineReports ==
    /\ engine.up /\ engine.call = "on" /\ count.reports < MaxReports /\ Used("reports")
    /\ \E state \in States :
         /\ <<engine.link, state>> \in Moves
         /\ engine' = [engine EXCEPT !.link = state,
                          !.stdout = Append(@, [kind |-> "state", state |-> state])]
    /\ UNCHANGED <<main, waits, ipc, reader, media, voice, player, events>>

\* End of input, its deadline, or a crash.
EngineExits ==
    /\ engine.up /\ engine' = [engine EXCEPT !.up = FALSE]
    /\ UNCHANGED <<main, waits, ipc, reader, media, voice, player, events, count>>

-----------------------------------------------------------------------------

MediaInit ==
    /\ main = [pc |-> "idle", ok |-> TRUE, again |-> FALSE]
    /\ waits = [who \in Requesters |-> 0]
    /\ ipc = [sequence |-> 0, replies |-> {}, closing |-> FALSE, open |-> FALSE]
    /\ engine = [up |-> FALSE, stdin |-> <<>>, stdout |-> <<>>, call |-> "none", link |-> "connecting"]
    /\ reader = "none"
    /\ media = [stopping |-> FALSE, connected |-> FALSE, requested |-> FALSE]
    /\ voice = [pc |-> "none", stopping |-> FALSE, started |-> FALSE, confirmed |-> FALSE,
                failing |-> FALSE]
    /\ player = "idle"
    /\ events = [queue |-> <<>>, overflow |-> FALSE]
    /\ count = [sends |-> 0, reports |-> 0]

Main == \/ MainWrites \/ MainAnswered \/ MainFails \/ Drain
        \/ Quit \/ Join \/ StopNative \/ CloseIPC \/ Exited \/ End

MediaNext ==
    \/ Start \/ Main \/ Signal \/ Hangup
    \/ Reader \/ BadFrame
    \/ Voice \/ SessionStarts \/ SessionFails \/ SessionTimeLimit \/ HangsUp \/ SessionCloses
    \/ Player \/ Chunk
    \/ EngineServes \/ EngineReports \/ EngineExits

\* The program's threads go on; the engine, the session's service and the peer may stop.
Fairness == WF_mediaVars(Main) /\ WF_mediaVars(Reader) /\ WF_mediaVars(Voice) /\ WF_mediaVars(Player)

MediaSpec == MediaInit /\ [][MediaNext]_mediaVars /\ Fairness

-----------------------------------------------------------------------------
(* Properties.                                                             *)

Numbers == Nat \ {0}
Replies == [id : Numbers, ok : BOOLEAN]
Pipe == [id : Numbers, op : Requests \cup {"pcm"}]
Output == [kind : {"reply"}, id : Numbers, ok : BOOLEAN]
          \cup [kind : {"state"}, state : States]

MainType == [pc : Requests \cup {"idle", "running", "abort", "quit", "join", "native", "close",
                                 "end", "done"},
             ok : BOOLEAN, again : BOOLEAN]
IpcType == [sequence : Nat, replies : SUBSET Replies, closing : BOOLEAN, open : BOOLEAN]
EngineType == [up : BOOLEAN, stdin : Seq(Pipe), stdout : Seq(Output),
               call : {"none", "prepared", "used", "on", "off"}, link : States \cup {"connecting"}]
MediaType == [stopping : BOOLEAN, connected : BOOLEAN, requested : BOOLEAN]
VoiceType == [pc : {"none", "connecting", "live", "leaving", "done"}, stopping : BOOLEAN,
              started : BOOLEAN, confirmed : BOOLEAN, failing : BOOLEAN]
EventsType == [queue : Seq(States \cup {"end_requested"}), overflow : BOOLEAN]

\* Types of all variables.
MediaTypeOK ==
    /\ main \in MainType /\ waits \in [Requesters -> Nat] /\ ipc \in IpcType
    /\ engine \in EngineType /\ reader \in {"none", "read", "done"}
    /\ media \in MediaType /\ voice \in VoiceType
    /\ player \in {"idle", "push", "send", "failed"} /\ events \in EventsType
    /\ count \in [sends : 0..MaxSends, reports : 0..MaxReports]

\* A clean-up that is reported as confirmed is one: no speech session is connected or about
\* to connect, the service confirmed the end of one that had started, and the engine is gone.
\* (live_voice.py:420-425 and 501-506, runtime.py:104-118, control.py:104-112)
CleanupIsReal ==
    main.pc = "done" /\ main.ok =>
        /\ voice.pc \in {"none", "done"} /\ (voice.started => voice.confirmed)
        /\ ~engine.up

\* A reply is the answer to its own request, also when one that timed out is answered
\* late: main believes in a start, or in a stop, only if the engine carried it out.  And
\* replies that nobody fetches cannot fill the table: a request that timed out ends the
\* call, from each of the two requesters, so that stop still finds room for its reply.
\* (runtime.py:59-102)
RequestsAnswered ==
    /\ main.pc = "running" => engine.call = "on"
    /\ main.pc = "close" /\ main.ok => engine.call = "off"
    /\ Cardinality(ipc.replies) <= 3

Ending == main.pc \notin {"running", "signal"}

\* An engine that is gone, audio it did not take, and a speech session that failed end the
\* call; the last may have to wait for the connection.  And a call that has to stop its media
\* comes to the end of it, whatever threads and processes it waits for do.  (live.py:101-105,
\* runtime.py:67-74 and 104-118, live_voice.py:191-200 and 501-506)
FailureEndsCall ==
    /\ main.pc = "running" /\ (~engine.up \/ player = "failed" \/ voice.failing)
          ~> Ending \/ (engine.up /\ player # "failed" /\ ~media.connected)
    /\ main.pc = "quit" ~> main.pc = "done"
=============================================================================
