------------------------------ MODULE LiveVoice ------------------------------
(* The speech session inside a call (live_voice.py): the loop that recognizes *)
(* a wish to hang up and lets the model say goodbye, the audio it plays, the  *)
(* delegations it answers and the wait tone.  What the session's thread does  *)
(* when it is opened, stopped or closed is in CallMedia.                      *)
(*                                                                            *)
(* Time is discrete: an iteration of the main loop takes one unit, and the    *)
(* code's points in time are kept as ages, capped where nothing tells them    *)
(* apart any more.  What the regular expressions recognize in the words of    *)
(* caller and model is a choice.                                              *)
EXTENDS Naturals, Sequences

CONSTANTS
    HANGUP_SILENCE, SEGMENT_GAP, GOODBYE_PROMPT_AFTER, GOODBYE_START_TIMEOUT,
    GOODBYE_LIMIT, LOOSE_LIMIT, AUDIO_IDLE, GOODBYE_TAIL,
    WAIT_TONE_QUIET,
    OutputLimit,            \* chunks of audio that fit into the output queue
    QueueLimit, SeenLimit   \* delegations that may wait, and that may be asked for

ASSUME TimesAssumption ==
    /\ {HANGUP_SILENCE, SEGMENT_GAP, GOODBYE_PROMPT_AFTER, GOODBYE_START_TIMEOUT,
        GOODBYE_LIMIT, LOOSE_LIMIT, AUDIO_IDLE, GOODBYE_TAIL,
        WAIT_TONE_QUIET} \subseteq Nat \ {0}
    /\ LOOSE_LIMIT <= GOODBYE_LIMIT
ASSUME LimitsAssumption == {OutputLimit, QueueLimit, SeenLimit} \subseteq Nat \ {0}

VARIABLES
    run,      \* connecting, on, broken (a task of it is over), or how it ended
    context,  \* the instructions of the session and what was added to them
    talk,     \* the caller's latest segment, and what the model did since
    hangup,   \* the request to hang up that is being followed
    output,   \* audio received and not yet played
    work      \* delegations asked for, waiting, and being answered

locals == <<talk, hangup, output, work>>
vars == <<run, context, locals>>

Live == {"on", "broken"}
Ended == {"hung_up", "failed", "time_limit", "stopped"}

NoHangup == [mode |-> "none", age |-> 0, began |-> FALSE, withdrawn |-> FALSE,
             farewell |-> FALSE, prompted |-> 0, armed |-> FALSE, left |-> 0, late |-> FALSE]

NoTalk == [words |-> "none", age |-> 0, second |-> FALSE, judged |-> FALSE,
           answered |-> FALSE, farewell |-> FALSE]
NoOutput == [queue |-> <<>>, playing |-> "none", quiet |-> 0, lost |-> FALSE]
NoWork == [asked |-> 0, queued |-> 0, waiting |-> FALSE]

Init ==
    /\ run = "connecting"
    /\ context = [added |-> FALSE, sent |-> FALSE, included |-> FALSE,
                  started |-> FALSE, greeted |-> FALSE]
    /\ talk = NoTalk /\ hangup = NoHangup /\ output = NoOutput /\ work = NoWork

Following == hangup.mode # "none"
Receives == run = "on" /\ context.started

\* The loop is left; what it knew are locals of the session's coroutine.
Leave(how) ==
    /\ run' = how
    /\ talk' = NoTalk /\ hangup' = NoHangup /\ output' = NoOutput /\ work' = NoWork

-----------------------------------------------------------------------------
(* The session is opened.                                                     *)

\* The main thread adds what it prefetched while the phone rings; refused once
\* the instructions are out.
ExtendInstructions ==
    /\ run \in {"connecting", "on"} /\ ~context.sent
    /\ context' = [context EXCEPT !.added = TRUE]
    /\ UNCHANGED <<run, locals>>

\* Under the lock of extend_instructions: the flag and the text that is sent.
SendStart ==
    /\ run = "connecting"
    /\ run' = "on"
    /\ context' = [context EXCEPT !.sent = TRUE, !.included = context.added]
    /\ UNCHANGED locals

ReceiveStarted ==
    /\ run = "on" /\ ~context.started
    /\ context' = [context EXCEPT !.started = TRUE]
    /\ UNCHANGED <<run, locals>>

\* The connection or the session could not be opened in time.
StartFails ==
    /\ run = "connecting" \/ (run = "on" /\ ~context.started)
    /\ Leave("failed")
    /\ UNCHANGED context

-----------------------------------------------------------------------------
(* The receiver.                                                              *)

\* Audio from before the caller's words is no answer to them.
Aged(o) == LET Old(chunk) == IF chunk = "new" THEN "old" ELSE chunk
           IN  [o EXCEPT !.queue = [i \in DOMAIN @ |-> Old(@[i])], !.playing = Old(@)]

\* What the last segment says: end the call, something that may mean so, or neither.
Words == {"strict", "loose", "other"}

\* A transcript delta of the caller lengthens the segment, or begins one after a
\* pause.  While a request is followed, all words since decide whether it was
\* taken back.
HearCaller(words, withdraws) ==
    /\ Receives
    /\ LET new == talk.words = "none" \/ talk.age > SEGMENT_GAP
       IN  talk' = [words |-> words, age |-> 0, judged |-> FALSE, answered |-> FALSE,
                    second |-> talk.second \/ (new /\ talk.words # "none"),
                    farewell |-> talk.farewell /\ ~new]
    /\ hangup' = IF Following THEN [hangup EXCEPT !.withdrawn = withdraws] ELSE hangup
    /\ output' = IF Following THEN output ELSE Aged(output)
    /\ UNCHANGED <<run, context, work>>

\* A transcript delta of the model: its words after the segment end in a farewell
\* or not.
HearModel(farewell) ==
    /\ Receives /\ talk.words # "none"
    /\ talk' = [talk EXCEPT !.farewell = farewell]
    /\ hangup' = IF Following THEN [hangup EXCEPT !.farewell = farewell] ELSE hangup
    /\ UNCHANGED <<run, context, output, work>>

\* The model is heard after the caller's latest words.
Answered == talk' = [talk EXCEPT !.answered = TRUE]

\* A chunk of the model's audio; one that does not fit ends the receiver.
ReceiveAudio ==
    /\ Receives
    /\ Answered
    /\ hangup' = IF Following THEN [hangup EXCEPT !.began = TRUE, !.late = hangup.armed]
                 ELSE hangup
    /\ IF Len(output.queue) < OutputLimit
       THEN output' = [output EXCEPT !.queue = Append(@, "new"), !.quiet = 0] /\ UNCHANGED run
       ELSE output' = [output EXCEPT !.quiet = 0, !.lost = TRUE] /\ run' = "broken"
    /\ UNCHANGED <<context, work>>

\* The model asks for a delegation it has not asked for before; one too many ends
\* the receiver.
Delegate ==
    /\ Receives
    /\ IF work.asked < SeenLimit /\ work.queued < QueueLimit
       THEN work' = [work EXCEPT !.asked = @ + 1, !.queued = @ + 1] /\ UNCHANGED run
       ELSE run' = "broken" /\ UNCHANGED work
    /\ UNCHANGED <<context, talk, hangup, output>>

\* The service reports an error, closes the session or is gone: the end of the
\* receiver or of the sender.
ServiceFails == run = "on" /\ run' = "broken" /\ UNCHANGED <<context, locals>>

-----------------------------------------------------------------------------
(* The player, the worker of the delegations and the wait tone.               *)

PlayChunk ==
    /\ run = "on" /\ output.playing = "none" /\ output.queue # <<>>
    /\ output' = [output EXCEPT !.playing = Head(output.queue), !.queue = Tail(@)]
    /\ UNCHANGED <<run, context, talk, hangup, work>>

\* The chunk was handed over.  Only the model's audio counts as the model speaking.
ChunkPlayed ==
    /\ run = "on" /\ output.playing # "none"
    /\ output' = [output EXCEPT !.playing = "none", !.quiet = 0]
    /\ IF output.playing = "tone"
       THEN UNCHANGED <<talk, hangup>>
       ELSE /\ Answered
            /\ hangup' = IF Following THEN [hangup EXCEPT !.began = TRUE] ELSE hangup
    /\ UNCHANGED <<run, context, work>>

\* The phone did not take the chunk, which ends the player.
ChunkRefused ==
    /\ run = "on" /\ output.playing # "none"
    /\ run' = "broken"
    /\ output' = [output EXCEPT !.playing = "none", !.quiet = 0]
    /\ UNCHANGED <<context, talk, hangup, work>>

\* Broken variant: the worker does not wait for a delegation.
TakeDelegationAnyway ==
    /\ run = "on" /\ ~work.waiting
    /\ work' = [work EXCEPT !.queued = @ - 1, !.waiting = TRUE]
    /\ UNCHANGED <<run, context, talk, hangup, output>>

TakeDelegation ==
    /\ run = "on" /\ ~work.waiting /\ work.queued > 0
    /\ work' = [work EXCEPT !.queued = @ - 1, !.waiting = TRUE]
    /\ UNCHANGED <<run, context, talk, hangup, output>>

\* The backend's answer goes to the model; an invalid one ends the worker.
AnswerDelegation ==
    /\ run = "on" /\ work.waiting
    /\ \/ work' = [work EXCEPT !.waiting = FALSE] /\ UNCHANGED run
       \/ run' = "broken" /\ UNCHANGED work
    /\ UNCHANGED <<context, talk, hangup, output>>

\* While the backend works and nobody has spoken for a while; how often the tone
\* comes is left open.
WaitTone ==
    /\ run = "on" /\ work.waiting /\ ~Following
    /\ output.queue = <<>> /\ output.playing = "none"
    /\ output.quiet >= WAIT_TONE_QUIET
    /\ talk.words # "none" => talk.age >= WAIT_TONE_QUIET
    /\ output' = [output EXCEPT !.queue = <<"tone">>]
    /\ UNCHANGED <<run, context, talk, hangup, work>>

-----------------------------------------------------------------------------
(* One iteration of the main loop, step by step.                              *)

\* After a pause the segment is judged, once; an opening "Ciao" is a greeting.
Judges == ~Following /\ talk.words # "none" /\ talk.age >= HANGUP_SILENCE /\ ~talk.judged
Mode == IF talk.words = "loose" /\ ~talk.second THEN "none"
        ELSE IF talk.words \in {"strict", "loose"} THEN talk.words ELSE "none"
Recognize(h) ==
    IF Judges /\ Mode # "none"
    THEN [NoHangup EXCEPT !.mode = Mode, !.began = talk.answered, !.farewell = talk.farewell]
    ELSE h

\* Broken variant: the end is not set back for a late goodbye.
DisarmNever(h) == h

\* Broken variant: however long the goodbyes go on.
DisarmAlways(h) == IF h.armed /\ h.late THEN [h EXCEPT !.armed = FALSE, !.left = 0] ELSE h

\* A late goodbye has just begun: let it finish.
Disarm(h) == IF h.armed /\ h.late /\ h.age < GOODBYE_LIMIT
             THEN [h EXCEPT !.armed = FALSE, !.left = 0] ELSE h

HeardOut(h) == /\ h.began /\ output.queue = <<>> /\ output.playing = "none"
               /\ output.quiet >= AUDIO_IDLE

Dropped(h) == \/ h.withdrawn
              \/ /\ h.mode = "loose" /\ ~h.farewell
                 /\ HeardOut(h) \/ h.age >= LOOSE_LIMIT

Prompt(h) == IF /\ h.mode = "strict" /\ ~h.began /\ h.prompted = 0
                /\ h.age >= GOODBYE_PROMPT_AFTER
             THEN [h EXCEPT !.prompted = h.age] ELSE h

Unanswered(h) == ~h.began /\ h.prompted > 0 /\ h.age >= h.prompted + GOODBYE_START_TIMEOUT

Ends(h) == \/ HeardOut(h) \/ h.age >= GOODBYE_LIMIT
           \/ h.mode = "strict" /\ Unanswered(h)

Arm(h) == IF Ends(h) THEN [h EXCEPT !.armed = TRUE, !.left = GOODBYE_TAIL, !.late = FALSE] ELSE h

\* What becomes of a request in this iteration; one whose end is set is not
\* weighed again.
Weigh(h) == IF h.mode = "none" \/ h.armed THEN h
            ELSE IF Dropped(h) THEN NoHangup ELSE Arm(Prompt(h))

Least(a, b) == IF a <= b THEN a ELSE b
\* A clear request may have to wait for the one that is being followed.
StrictLimit == HANGUP_SILENCE + 2 * GOODBYE_LIMIT + GOODBYE_TAIL
MaxQuiet == IF AUDIO_IDLE <= WAIT_TONE_QUIET THEN WAIT_TONE_QUIET ELSE AUDIO_IDLE
MaxSilence == IF talk.words = "strict" THEN StrictLimit + 1 ELSE SEGMENT_GAP + 1
MaxAge == GOODBYE_LIMIT + GOODBYE_TAIL + 1

\* The pause at the end of an iteration.
Pass(h) ==
    /\ hangup' = IF h.mode = "none" THEN h
                 ELSE [h EXCEPT !.age = Least(@ + 1, MaxAge),
                                !.left = IF h.armed THEN @ - 1 ELSE 0]
    /\ talk' = [talk EXCEPT !.age = IF talk.words = "none" THEN 0 ELSE Least(@ + 1, MaxSilence),
                            !.judged = @ \/ Judges]
    /\ output' = LET o == [output EXCEPT !.quiet = Least(@ + 1, MaxQuiet)]
                 IN  IF Following /\ h.mode = "none" /\ ~talk.answered THEN Aged(o) ELSE o
    /\ UNCHANGED <<run, work>>

\* The end is due; else a task that is over ends the session; else time passes.
Loop ==
    /\ run \in Live
    /\ context' = [context EXCEPT !.greeted = context.started]
    /\ LET h == Weigh(Disarm(Recognize(hangup)))
       IN  IF h.armed /\ h.left = 0
           THEN run' = "hung_up" /\ hangup' = h /\ UNCHANGED <<talk, output, work>>
           ELSE IF run = "broken" THEN Leave("failed") ELSE Pass(h)

TimeLimit == run \in Live /\ Leave("time_limit") /\ UNCHANGED context

\* The main thread closes the session.
Close == run \in Live \cup {"connecting"} /\ Leave("stopped") /\ UNCHANGED context

Next ==
    \/ ExtendInstructions \/ SendStart \/ ReceiveStarted \/ StartFails
    \/ \E words \in Words, withdraws \in BOOLEAN : HearCaller(words, withdraws)
    \/ \E farewell \in BOOLEAN : HearModel(farewell)
    \/ ReceiveAudio \/ Delegate \/ ServiceFails
    \/ PlayChunk \/ ChunkPlayed \/ ChunkRefused
    \/ TakeDelegation \/ AnswerDelegation \/ WaitTone
    \/ Loop \/ TimeLimit \/ Close

\* The loop sleeps 25 ms and goes on; nothing is assumed of the caller, the model,
\* the phone and the backend.
Spec == Init /\ [][Next]_vars /\ WF_vars(Loop)

-----------------------------------------------------------------------------
Chunks == {"new", "old", "tone"}

TalkType == [words : Words \cup {"none"}, age : Nat, second : BOOLEAN,
             judged : BOOLEAN, answered : BOOLEAN, farewell : BOOLEAN]
HangupType == [mode : {"none", "strict", "loose"}, age : Nat, began : BOOLEAN,
               withdrawn : BOOLEAN, farewell : BOOLEAN, prompted : Nat,
               armed : BOOLEAN, left : Nat, late : BOOLEAN]
OutputType == [queue : Seq(Chunks), playing : Chunks \cup {"none"}, quiet : Nat, lost : BOOLEAN]
WorkType == [asked : 0..SeenLimit, queued : 0..QueueLimit, waiting : BOOLEAN]
ContextType == [added : BOOLEAN, sent : BOOLEAN, included : BOOLEAN,
                started : BOOLEAN, greeted : BOOLEAN]

\* Every variable keeps its type, and the queues their limits (live_voice.py:210-211, 260).
TypeOK ==
    /\ run \in {"connecting"} \cup Live \cup Ended
    /\ context \in ContextType /\ talk \in TalkType /\ hangup \in HangupType
    /\ output \in OutputType /\ Len(output.queue) <= OutputLimit
    /\ work \in WorkType

\* A request to hang up is decided in time, whatever the model says or plays: the call
\* goes on, or it is over GOODBYE_TAIL after the limit at the latest.  And a clear request
\* after which the caller is silent ends the call, though another one may be followed when
\* it comes and the model may never answer (live_voice.py:352-398).
HangUpBounded ==
    /\ hangup.age <= GOODBYE_LIMIT + GOODBYE_TAIL
    /\ talk.words = "strict" => talk.age <= StrictLimit

\* Before that limit the goodbye is not cut off: when the call is hung up, all audio the
\* model sent since the request was played, also what came after the end was set, and
\* none was lost because the queue was full (live_voice.py:229-230, 362-364 and 372-374).
NoNewAudio ==
    /\ output.playing # "new" /\ ~output.lost
    /\ \A i \in DOMAIN output.queue : output.queue[i] # "new"

GoodbyeNotCut == run = "hung_up" /\ hangup.age < GOODBYE_LIMIT => NoNewAudio

\* Does not hold: once the end is set (live_voice.py:365) a withdrawal is not looked at, for
\* GOODBYE_TAIL; "test_taking_the_request_back_keeps_the_call_open"
\* (tests/test_live_voice.py:235) covers one that comes before.
WithdrawnKeepsOpen == run = "hung_up" => ~hangup.withdrawn
=============================================================================
