# A TLA+ model of Employee of the Month

Employee of the Month (package `eotm`) watches a T3 instance for questions of its coding agents, reaches the user by
Telegram call or text, and returns the user's decision to T3. It also sends messages to existing T3 threads and starts
new tasks on request. This directory models the parts in which order, failure and restarts matter, checks them with TLC
on small instances, and proves the most important facts with TLAPS for all instances.

Run from this directory: `tlc -config MC_CallSession.cfg CallSession.tla` (likewise for the others),
`tlapm Delegation_proofs.tla` (likewise for the other modules named `*_proofs`; some take minutes).

## 1. The system

One process, three kinds of threads. The **main loop** (`service.py`, `TelegramService.tick`) reads TDLib's events, runs
the current call and hands jobs to **one worker**; the results of jobs come back to the main loop through callbacks. A
call has a **speech session** in a thread of its own (`live_voice.py`), whose delegations run *voice turns*. Worker jobs
and voice turns take the same lock (`service.py:402-406`, `217`). Durable state is one JSON file that is replaced
atomically (`conversations.py:37-53`).

| Part | State | Operations | Talks to |
| --- | --- | --- | --- |
| Call session (`control.py`) | phase, call id, two bounded buffers, media flags, three clocks | start, accept, handle, media_event, end, tick | TDLib, media engine |
| Call loop, request pump (`live.py`) | replies by request, queue of media events | step, run | call session, TDLib |
| T3 delegation (`t3.py`) | question, submitted/completed/deferred, uncertain mark, delivered ids, adoption | one dialog turn, restore | T3, structuring model |
| Handoff (`handoff.py`) | none | pending questions, answer command | T3 delegation |
| Conversations (`conversations.py`) | operations, calls, outbox, jobs for settling | discover, refresh, reserve, recover, finish, respond, message | T3, Telegram, delegation |
| Telegram service (`service.py`) | job queue, session, pending incoming call, input generation | event, tick, scan, start_call, voice turns | everything above |
| Task launcher (`tasks.py`) | one job per order | propose, resume, confirm, reconcile, recover | T3, voice turns, scans |
| Follow-ups (`followups.py`) | one entry per spoken or written message | handle_spec, receipt | T3 |
| Ringing (`ringing.py`), watch (`watch.py`) | a call that only rings; ledger of attempts | ring_once, watch_project | call session |
| Live voice (`live_voice.py`) | transcript, revision, delegations, queues, hang-up machine | run, close | speech API, voice turns |
| Media runtime (`runtime.py`, `native/`) | requests, table of late replies, process | request, start, stop | native process |
| Call history (`call_history.py`) | bounded transcripts | update, flush, settle_candidates | voice turns |

What makes it hard: T3 answers late, not at all, or after the bridge has given up; other clients answer the same
questions; a question is replaced while the model thinks about the old one; speech goes on during a turn; TDLib's
answers and updates overtake each other; results of jobs come back after a text or a call has changed the situation; the
process may stop between any two of these steps. What makes each part correct is listed with its hazards, line by line,
in `PROJECT.json`.

## 2. Modules

| Module | Stands for | Status |
| --- | --- | --- |
| `CallSession` | `control.py`, `RequestPump.step`, the end of `LiveCallLoop.run`, `RingingSession` and `ring_once` | complete for both sessions |
| `CallSession_proofs` | theorems about `CallSession` | |
| `Delegation` | `T3Delegation` and the T3 client calls it makes; refresh, voice turns and texts as far as they touch the dialog | complete for one operation's dialog |
| `Delegation_proofs` | theorems about `Delegation`, and that its answers implement `CommandOnce` | |
| `Contact` | main loop, worker, reservations, attempts and messages of all operations | complete for attempts and calls; the outbox is in `Texts`, settling in `Settle` |
| `Contact_proofs` | theorems about `Contact` | |
| `Texts` | texts of the user and messages of the service: `message`, `select`, `respond`, the outbox, `poll_dialogs`, the drain of `close` | complete for one thread; outcomes of a dialog turn are taken from `Delegation` |
| `Texts_proofs` | theorems about `Texts` | |
| `Settle` | the settle queue, `settle_after_call`, scans, `close`, the call history and its background writer, `settle_coordinator` | complete for the coordinators of calls and of one operation |
| `Settle_proofs` | theorems about `Settle` | |
| `TaskLauncher` | `tasks.py` and the parts of voice turns and scans that drive it | complete but for texts |
| `TaskLauncher_proofs` | theorems about `TaskLauncher`, and that it implements `CommandOnce` | |
| `CallMedia` | `runtime.py`, the life of `LiveVoice` and `LivePcmMedia`, `QueuedMedia`, `main` of `native/media_runtime.cpp` | complete but for what `LiveVoice` has |
| `LiveVoice` | the main loop of `live_voice.py` with the hang-up machine, its receiver, player, delegations and wait tone | complete but for the caller's audio |
| `LiveVoice_proofs` | theorems about the call: about `LiveVoice`, and about `CallMedia` | |
| `Followups` | `followups.py`, `VoiceConversation.contextual_followup` and the routing to it | complete; the regular expressions are a choice among forms |
| `Followups_proofs` | theorems about `Followups`, and that it implements `CommandOnce` | |
| `CommandOnce` | what the bridge promises about any command to T3 | abstract |
| `MC_Contact`, `MC_Followups`, `MC_TaskLauncher` | small sets of requests, utterances and jobs for TLC | |

### CallSession

`session` is the Python object; `wire` is TDLib's ordered stream of events, `server` Telegram's own state of the call.
Every method is an action: `Start`, `Accept`, `MediaEvent`, `Hangup`/`End`, `Tick`, and `Controller`, which takes one
event and handles it. When the call id becomes known the buffered updates are handled again, one per step of `Replay`,
before any other event. Telegram may refuse, delay or reorder what concurrent requests allow, and another call of the
account sends updates of its own. `session.discard_sent` doubles as the request on its way to Telegram.

`session.ringing` says that the session is a `RingingSession`, which `Start` chooses. `Handle` is the method of the class
at hand: `HandleRinging` ends an answered call before `HandleAny`, the method of `CallSession`, could see `Ready`.
The deadline of `ring_once` is one of the reasons of `Hangup`, its clean-up `GiveUpRinging`. `reported` is what its
status says of the call.

### Delegation

One operation with its dialog in a T3 thread. `op` is the dialog in memory, `saved` its last checkpoint, `pc` and `turn`
the dialog call in progress, one step for each of its requests to T3, with the lock held throughout. Two channels lead to
it, speech and texts: `heard` is the turn the voice has taken from the transcript and waits for the lock with, `texts` are
those the worker has not taken. A text ends the call that is on, but a call may begin while texts wait or one is worked on
(`service.py:588-593`); only the voice's own turn is waited for between two calls. Other T3 clients answer, replace and
resolve questions, with an answer of their own or the very one sent from here, T3 executes commands late or never, and
the service crashes at any step and restores `op` from `saved`. The structuring model is a nondeterministic choice over
what `parse_coordinator` accepts; its slow path creates a coordination thread, once, with a checkpoint of its own
(`CreateCoordinator`; a crash between the command and the checkpoint leaves a thread the dialog does not know). `Protocol` is T3's protocol version: version 2 compares a recorded answer with the one
sent, version 1 takes any resolution. The answers implement `CommandOnce` (`AnswersOnce`): recorded are the questions whose answer
the checkpoint has as delivered or, with the mark up, as under way; executed those whose record in T3 holds an answer that was
sent from here (`Taken`, over the history `sent`); reported, under protocol 2, those the checkpoint has as delivered. T3's
record does not say who answered, and neither does the code ask: when another client gives the same answer first, it counts
as delivered though T3 accepted no command of the bridge, and the properties say no more than that.
Follow-up turns are not part of it, since a question may have several.

### Contact

All operations, at the grain of worker jobs: a dialog turn is one step (`Talk`) whose outcomes are those `Delegation`
can reach. `jobs` holds jobs and finished results that the main loop has not taken. The order of the main loop is in the
guards of `Tick`'s actions, the order of the worker in `Working`. Delays (`question_due`, spacing of calls, number of
calls) are nondeterministic. `dials` is a history variable.

### Texts

The written conversation. `jobs` holds the texts the worker is to read and `worker` where it is in the first: taken up
and saved, read (`discover`, `select`), in the dialog, waiting for the agent, answering. Scans, calls and the ends of
attempts run as steps of their own while no text waits, which is what the worker's queue makes of them. The
dialog's `deferred` and `completed` are kept beside the `status` they decide: an operation the user has put off does not
turn stale when its question closes, and what is answered to it then is not sent. `outbox` is
saved, `outgoing` is the queue between worker and main loop, `telegram` what became of each message. A delivery
is recorded when the user can see the message, unless the service stops in between: then the id is never known, and a
reply to that message is about nothing. What TDLib tells before (a temporary id) and failed sends, which only the wait of `close` reads,
are left out. `silenced` says that the attempt behind an operation owes no message; whether there is one when a text comes
is left open. An answer and the mark that the text was handled are one step; a stop between the two saves would only leave
the text in `processing`.

### TaskLauncher and CommandOnce

A job is saved at each change, so the model keeps only the durable copy and a crash loses `turn` and `voice`. `turn` is
what the holder of the lock is doing, a voice turn or a scan; each label of `turn.pc` is a place where the code has saved
and not yet sent, or sent and not yet heard. Speech raises `voice.revision` at any time, as does the recognizer. `wire`
holds commands that T3 may execute at any later time or never. `CommandOnce` states docs/architecture.md's "Persistence
model" for a set of commands: recorded before sent, sent at most once, reported only after execution; `TaskLauncher`
implements it (`CommandsOnce`) with the two commands of each job. The branch of `Replace` that supersedes an earlier
proposal cannot be reached: `service.py:229-231` has cleared the slot by then, so that the earlier proposal stays open and
can still be resumed.

### CallMedia

Below `CallSession` work four threads and a process. `main` starts, signals and stops; its labels are the requests of
`NativeIPC` it is about to make or waits for, then the steps of `LivePcmMedia.stop`. The `reader` takes what the engine
writes, the voice thread runs the speech session, a `player` of its pool gives the session's audio to the engine. `waits`
holds the number of the request each requester waits for, so that `WriterFree` is the writer lock. `engine` is the
process with its two pipes; it answers late or never and may exit at any point. `main.again` is the second stop of a
start that failed: `LivePcmMedia.start` stops the media itself, and `CallSession` does once more. Audio from the phone
is left out but for the failure of taking it (`BadFrame`); the state `connecting`, at which nothing happens, is left out;
a delegation in flight only delays `ThreadEnds`.

### LiveVoice

The session from its opening to its end, as the tasks of one event loop. `Loop` is one iteration of the main loop
(`live_voice.py:344-403`) in the order of the code: recognize a wish to hang up, set the end back for a late goodbye,
drop a request or set its end, hang up, fail if a task is over, sleep. The receiver, the player, the delegations' worker
and the wait tone are actions of their own between iterations. Time is discrete: an iteration takes one unit, and the
code's points in time are ages, capped where nothing tells them apart (`MaxAge`, `MaxSilence`, `MaxQuiet`). `talk` is the
caller's latest segment and what the model did since, `hangup` the request that is followed: `armed` and `left` are the
end that has been set (`hangup_at`), `late` says that audio came after. Whether words ask for the end, take it back or are
a farewell is a choice, since that is all the regular expressions hand on. A chunk of audio is `new` if it came since the
caller's words.

### Settle

What is left behind when a call is over. A call may have created a status coordinator (calls in `Indirect`) and may have
used the coordinator of its operation. The main loop submits jobs, `jobs` keeps them in the order the one worker takes
them, a job that is done waits for its `Callback`; the limit of the queue is in `Submit`, and a submission beyond it ends
the service. `turn` is a dialog turn on the session's thread: it excludes the worker while it holds the lock, may outlive
the call, and tells the history only after it has given the lock back (`TurnRemembers`). `calls` is the history in memory,
`file` the one on disk, `Flush` its writer. `op` and `queue` are saved with each change. A scan is `ScanRefreshes`,
`ScanRecover`, `ScanCandidate`, `ScanRecovered`, `ScanSettles`, `SettleCoordinator` and `ScanEnds`, each up to the next
save or request to T3. `Exit` is an orderly end or an error of the main loop, with `close`; `Crash` may come at any
step. Delays between retries are left open. Ids of the commands are not modelled: after a crash before the save an id is
used a second time, for the same command.

### Followups

What the user says is a sequence of user turns, each with the readings it had while it grew (`live_voice.py:243-248`);
an utterance is its form, the threads it names and its message, which is all the regular expressions hand on.
`TakeDelegation` hands the transcript to a voice turn; what is said later changes `transcript` and the revision, and an
utterance that gets no delegation of its own is only ever seen as an earlier one. `slot` is `followup_context` with its
floor and the attached question. `contextual_followup` is one action for each way out of it (`Drop`, `AnswerQuestion`,
`ReadBack`, `LeaveTopic`, `AskThread`, `AskMessage`, `PostBound`) over the definitions from `Expired` to `Text`, which
follow the order of the code; `Dropped` comes before every intent, as `service.py:97-107` does. `handle_spec` is `Invalid`
(a blank message), `Known`, `Refused` and `Reserve`, then `Dispatch` and `Receipt`, which saves what it found before it
says so; a failed save leaves the entry in memory only, and a later save, as any text makes one, writes it. The Telegram path differs in its
event and in that nothing cancels it. `talk.refused` is a history variable. The module implements `CommandOnce` too.

## 3. Runs

| Run | Question | Instance |
| --- | --- | --- |
| `call_session` | For a call and for one that only rings: are media released, ends confirmed, signaling kept in order, setup and end bounded? | buffers of 2 and 1, timeouts of 1 step, 2 signals, 1 foreign event |
| `live_voice` | Is a request to hang up decided in time, and is the goodbye heard? | pauses of 1 and 2, limits of 6 and 4, output queue of 2, 1 delegation waiting, 2 asked for |
| `settle` | Is no thread settled during a call, and no coordinator of a call forgotten? | 2 calls, 1 with a status coordinator, 2 jobs, 1 restart |
| `delegation` | One answer per question, recorded first, never repeated when unsure; success only if T3 has the answer? No old speech for a question the call took over? | 2 questions, 2 inputs, 1 call, 1 replacement, 1 crash |
| `contact` | Is an operation dialed once, a text honoured, an interruption made up for? | 2 questions of a thread, 1 text, 1 failure, 1 lost thread, 1 crash |
| `contact_calls` | Do outgoing calls yield, are incoming calls taken, is recovery reached? | 1 question, 1 text, 2 calls, 1 follow-up, 1 crash |
| `texts` | Is a text acted upon once, for the question it replies to, and answered? Is what the service writes by itself news? | 2 questions, 1 reply of the agent, 2 messages of the service, 1 text, 1 crash, exit or failing request |
| `call_media` | Is a confirmed clean-up one, are replies not confused and never too many, does every failure end the call? | table of 8, queue of 1, 1 request during the call, 2 states of the engine |
| `followups` | Is no undecided message repeated, and each said, in this call and not cancelled, and recorded first? | 2 threads, 3 pieces of speech over 2 calls, bindings of 1 turn, 1 of: text, failed save, change in T3, crash |
| `tasks` | Do commands follow a confirmation of this call, does the turn follow the thread, does a withdrawn job stay silent? | 1 job, 2 calls, 3 utterances each, 1 crash |
| `tasks_jobs` | Is every command sent once, is success reported only after it, is a started job announced? | 2 jobs, 1 call, 2 utterances, 1 crash, 1 failing read |

Why the bounds are enough. The buffers of `CallSession` have to overflow, which two entries do as well as sixteen; one
clock step is enough to race every timeout. Two questions make adoption, replacement and confusion possible, and a third
meets the same code as the second. One crash separates every pair of steps once; the durable state after a second is one
the first can leave. Two utterances give an order and its confirmation, the third a refusal after it. Two jobs let one
disturb the scan of the other. Three pieces of speech name a thread, cancel or change the subject (naming a thread or not), and ask to send, with
the second possibly part of the first; `Followups` was also checked with four in one call, bindings of two turns and no
other event. In `CallMedia` the queue of one event overflows as soon as two threads report, two states
of the engine give a connection and its loss, and one signal or chunk may be answered late; the invariants were also
checked with three of them.

In `Texts` two messages of the service are about different questions, or about the same with the agent's reply in
between; the user's text may reply to either, or to none. The text may be taken for another question only through what
scans and calls do before, so that one is enough; an earlier text does no more than an answer in a call.

In `LiveVoice` the prompt, the wait for its answer, the limit of
a loose request and GOODBYE_LIMIT come one after the other as in the code, and each is reached with audio in the queue and without;
two chunks let one play while one waits, the third overflows. In `Settle` the first call may be ended with its turn still running while the second is on; two jobs are
what `EndCall` submits, so that any third one overflows; one restart comes after any step, and what a second finds is a
saved state the first can leave as well. Both are proved for all bounds.

Some checks stop where the real system may: a call session and its media that are over, and contacts once everything is settled and the
bounds are used up (`Texts` as well); the deadlock check is off there, in `LiveVoice`, where a session that is over does nothing, in `Settle`, which may run out
of calls and restarts, and in `Delegation` and `Followups`, which may run out of questions and inputs.
`TaskLauncher` is checked for deadlock.

### Fairness

Only the program's own steps are fair: the event loop takes events, ticks and time (`CallSession`; `live.py:156-183` calls
`step` until the session is final),
worker, main loop and calls go on because requests time out and calls are limited to twenty minutes (`Contact`,
`TaskLauncher`), and scans come round (`service.py:594-597`). `Texts` needs the
worker and the hand-over of each tick (`service.py:568-571`). In `CallMedia` each of the four threads goes on: every
request, the join of the voice thread and the exit of the process have timeouts (`runtime.py:88-93`, `111`,
`live_voice.py:423`). `LiveVoice` assumes that its loop goes on, which sleeps 25 ms (`live_voice.py:344-403`); its
bounds are stated in units of that loop and need no fairness. `Settle` assumes none: T3 may refuse for ever, and its
properties say what is still on its way. Nothing is assumed of the user, Telegram, T3 or the
media engine.

### Disagreements

One run shows the code doing what a reply denies. It checks a single property.

- `tasks_cancel`: after a job has been confirmed, started and reported, a "no" to something else marks it as cancelled
  and the user hears that it will not be started (`service.py:278`; i18n.py:145).

Four more are definitions marked "does not hold", with the interleavings that refute them, and no run:

- `OneDialPerQuestion` of `Contact`: attempts are kept per operation; of two questions of a thread one is dialed about, a
  text answers the other, whose operation adopts the open one (`t3.py:454`) and is dialed about it again
  (`conversations.py:239`; docs/architecture.md:85 "At most one automatic outbound attempt per question.", README.md:45). TLC
  finds this within seconds on the instance of `contact`, without failures, losses and crashes.
- `NewQuestionNeedsNewInput` of `Delegation`: a refresh adopts a question just before the dialog reads the input that was
  given earlier, and that input may answer it (`service.py:289`; tests/test_t3_dialog.py:71). Nor does it hold of a
  question that a voice turn adopted and a text has been about since: a text that waited when an incoming call was taken is
  read during the call, after a voice turn has adopted the next question; it clears `adopted_revision`
  (`conversations.py:425`) and answers nothing, and another delegation at the same revision answers the new question with
  what was said before it. `SpokenQuestionNeedsNewSpeech` is about questions that no text has been about since.
- `ConfirmationFollowsProposal` of `TaskLauncher`: words spoken while a proposal is being checked count as its
  confirmation (`service.py:343`; docs/usage.md:54).
- `WithdrawnKeepsOpen` of `LiveVoice`: once the end is set, a withdrawal is not looked at for GOODBYE_TAIL
  (`live_voice.py:365`; tests/test_live_voice.py:235 covers an earlier one).

Observed on the way, without a run of their own:

- `Delegation`: the revision at which a question was adopted is compared across calls though revisions start again with
  each (`t3.py:479`), so that after a callback new speech may be turned away once. An answer of another client counts as
  the confirmation of this one: under protocol 1 whatever it says, under protocol 2 when it says the same (`t3.py:297-300`).
- `Contact`: a spoken message to another thread detaches the question from its call (`service.py:235`), and no message
  follows though the question stays open, unlike docs/telegram-service.md:7 says.
- `Followups`: only an utterance that a delegation was made for can end a binding. A cancellation that the live voice
  answers by itself, or that comes while the delegate worker is busy with an earlier delegation, is passed over, and a
  later "send it there" finds the thread named before it (`service.py:127-145`), unlike docs/thread-followups.md:13
  ("cleared by a topic change, cancellation, ...") says; `SpokenAuthority` is about cancellations that were brought. A
  message whose command was lost is never sent again, nor is the same text to the same thread (`followups.py:166`).
- `CallMedia`: a player that waits for the connection looks only at the flag of `LivePcmMedia.stop`
  (`live_voice.py:468-469`), so a session that fails while the connection is lost is reported when it is back or the call
  ends for another reason; `FailureEndsCall` says so.
- `Contact`: a text that arrives between a reservation and the scan's callback uses the reservation up
  (`service.py:530`); an incoming call is accepted while an earlier text waits (`service.py:593`); one thread that answers
  404 makes `open_operations` raise (`conversations.py:233`), and with it every scan, including the recovery.
- `LiveVoice`: what the model goes on saying about an earlier topic counts as its goodbye, and a farewell it said before the
  last words of a loose mention (segments are merged for 1.5 s) confirms that mention. A clear request made while a
  loose one is followed waits for that one to be dropped.
- `Settle`: an operation that was completed or went stale during the call is passed over by `recover`
  (`conversations.py:250-253`), so after a crash or an exit that cancels the settle job its coordinator is never settled,
  unlike docs/telegram-service.md:27 ("Technical call coordinators are settled after a call ends, including timeouts and
  recoverable failures.") says; `NotForgotten` is about open operations for that reason. A status coordinator is told to
  the history at the end of its turn and written by another thread; a crash before that forgets it, and so does a lost
  answer to the command that creates it. An attempt that a scan reserved and a text overtook stays `starting`
  until the next start.
- `Texts`: a text that was being read at a crash, or while T3 could not be read, is not taken up again
  (`conversations.py:449`, `service.py:563-567`): the user gets no answer, and in the second case there is no crash to
  explain it. Texts that arrive while the service is being closed are not read (`service.py:622-626`). An answer to a text
  counts as notice of what the agent said before it (`conversations.py:283`), so a reply of the agent that came between
  the last scan and the text is not told on its own.
- `t3.py:240-246`: the command that creates a coordinator is not recorded before it is sent, unlike
  docs/t3-voice-integration.md:18 says of every mutation.

## 4. Proofs

`Delegation_proofs` proves, for any number of questions, inputs, calls, replacements and crashes and both protocols:

- `TypeCorrect`: `Spec => []TypeOK`. The invariant is `TypeInv == TypeOK /\ Engaged`; `Engaged` says that a dialog call
  in progress has a channel, without which the adopter of a question could not be typed.
- `AnswerOnce`: `Spec => []AnsweredAtMostOnce`, `UncertainStays`: `Spec => UncertainIsFinal`,
  `AnswersSendOnce`: `Spec => AnswersOnce`.

"At most once" is not inductive: that nothing is sent twice depends on why the dialog believes that it may send. The
strengthening `SafeInv` says that the checkpoint agrees with memory about the mark and the deliveries (`Persisted`), that
what counts as delivered is resolved in T3 for good (`DeliveredIsResolved`), that every answer sent is delivered unless
the mark is up (`NothingOwed`), and that the mark is up from the decision to the confirmation (`MarkIsUp`). A
question that is pending is then neither delivered nor owed, so the answer `Decide` prepares is its first. Both
invariants were also checked by TLC on the instance of run `delegation`. `LowestIsMember` rests on the well-foundedness of `<` on the naturals.

The refinement needs `AnswerInv` as well. The record of `CommandOnce` only grows, while the mark of the checkpoint is about
whatever question the dialog has: a refresh may replace the question with the mark up. `AnswerInv` says why nothing is lost by
it: only a question with a delivered answer is replaced (`MovesOn`), also by a follow-up turn of unknown outcome. It says too
that memory and checkpoint are about the same question and that every answer on its way was counted. Each step then is a
`Record` (most of them of nothing new, `RecordStep`), a `Send`, an `Execute` (of T3, or of a client that gives the same
answer) or a `Report`; a report rests on `RecordInv`: a question has a recorded answer only once it is resolved, and the
answer that is waited for was sent. TLC checks the refinement in run `delegation`.

- `DecisionsDelivered`: `Protocol = 2 => (Spec => []CompletedMeansDelivered)`. The hypothesis is the code's: under protocol 1
  T3 does not say what it was answered, `t3.py:298` takes any resolution, and TLC refutes the property. `DecidedInv` says that
  memory and checkpoint speak of a decision only if one was sent for their question and T3 has it (`Decided`): as the answer in
  its record of the question (`Shown`), which an identical answer of another client makes as well, or as a follow-up turn it
  accepted.
- `NewSpeechOnly`: `Spec => SpokenQuestionNeedsNewSpeech`. The code compares revisions, the property is about the moments
  of speech. `SpeechInv` connects them: while a question that the voice took over waits, a revision beyond that of the
  adoption was reached by later speech (`SaidSince`, of the call, of the turn that waits for the lock and of the one that has
  it), a turn that is past `StartDialog` is beyond it (`PastTheMark`), and there is one turn of the voice at a time, of the last
  call there was (`OneTurn`). Texts may wait and be read meanwhile.

`TaskLauncher_proofs` proves, for any number of jobs, calls, utterances, failing reads and crashes:

- `TypeCorrect`: `Spec => []TypeOK`, with `Engaged` again: a holder of the lock that is not idle has a job where one is
  needed.
- `LauncherSendsOnce`: `Spec => CommandsOnce`. The launcher implements `CommandOnce` under the mapping in which a command
  is recorded once its job is saved as committed, executed when T3 has its thread or turn, and reported when the user
  was told of the job. `OnceInit` maps initial states, `OnceStep` maps each step to a step of `CommandOnce` or a stutter;
  a crash and everything said map to stutters.
- `ThreadBeforeTurn`, `NoStaleConfirmation`, `StartedWasRead`, `OneNotice`, `WithdrawnIsFinal`: the safety properties of run
  `tasks`, that a first turn goes to a thread T3 has created, and that a started job has its message in T3.

The invariant `SafeInv` has five parts. `JobInv` reads off a saved state what can have been sent for it; `CommandInv`
ties what is on its way to what was sent; `TurnInv` says for each step of the lock's holder which state the job was
saved in, which is what makes a command unsent where it is about to be sent; `NoticeInv` does the same for the message
about a started job. `SlotInv` is about confirmations: a job in the slot was proposed in this call at the revision it
carries, and the slot is empty while the model thinks, so that nothing can be confirmed that the call did not hear. Each
part is preserved by one lemma (`JobStep`, `CommandStep`, ...), with one case per action.

`UncertainStays`, `ThreadBeforeTurn` and `StartedWasRead` state properties that no run lists any more.

`LiveVoice_proofs` proves, for all times and limits:

- `TypeCorrect`: `Spec => []TypeOK`, `HangUpDecided`: `Spec => []HangUpBounded`, `GoodbyeHeard`: `Spec => []GoodbyeNotCut`.

The invariant `IInv` adds four parts to the types. `InTime` bounds the age of a request, the time left to its end
included: only `Disarm` puts an end off, and never beyond the limit. `StrictInTime` does the same for the age of a clear
request through its three stages (it waits for the one that is followed, for the pause, and is followed), which is where
`StrictLimit` comes from. `NothingWaits` says that no audio of the goodbye is left when an end is set, unless a late
chunk has come, and `AudioKnown` that audio counts as new only after an answer and that a lost chunk ends the session
before the loop could hang up. The steps of one iteration are lemmas about any request (`RecognizeFacts`, `DisarmFacts`,
`WeighFacts`), which `LoopHolds` puts together.

Its second part is about the media of a call, for any size of the table, any number of requests and reports. The two
components stay apart there (no name of one is a name of the other, and no theorem is about both):

- `MediaTypeCorrect`: `MediaSpec => []MediaTypeOK`, `MediaCleanedUp`: `MediaSpec => []CleanupIsReal`,
  `MediaAnswered`: `MediaSpec => []RequestsAnswered`.

`CleanedUp` is inductive with the types alone: `LivePcmMedia` is told to stop before the session's end is looked at, so that no
report of the engine can begin a session afterwards; an `ipc` that is let go of has no process; and the second stop, of a start
that failed, finds none. `RequestsInv` is about numbers. They grow from the table of replies over the pipe out of the
engine to the pipe into it (`InOrder`), so that the reply main waits for comes after every request the engine has not read. Main
or the player waits, not both (`Waiting`). The engine's call is what main was told of (`Obeyed`: no request to stop is on its way
before the end of the call, and none to start but the one main waits for). And all numbers on their way are
among three (`Few`): one that main gave up before it stopped, one of its stop, and one that the player gave up, since a requester
that gives up asks nothing more until the stop. `Few` is what bounds the table, since two replies of a number are the same.

`Settle_proofs` proves, for up to the eight calls that the history keeps, any set of calls with coordinators, any number of
restarts and waiting jobs and any limit of the queue:

- `TypeCorrect`: `Spec => []TypeOK`, `SettledBetweenCalls`: `Spec => []NeverDuringCall`, `NothingForgotten`:
  `Spec => []NotForgotten`.

That a scan does not run into a call depends on every other job: `JobsInv` says that at most one job that may lead to a
call is on its way and none during a call, `WorkerInv` that the worker is in a job that is there and holds the lock.
`NotForgotten` needs to know who of this run still works for a call: `TurnInv` (the call of a turn that holds the lock is
still to be settled), `PastInv` (nothing is known of calls to come), `KnownInv` (the history knows of this run's calls only
what their voices did), then `VoiceInv`, `HistoryInv`, `QueueInv` and `OpInv`, which say of each record that what it
knows is in the queue or owed. A step has one lemma, with one step per part it can disturb. That there is a first
undone job (`CurrentIsFirst`) rests on the well-foundedness of `<`. TLC checked both invariants on the instances
of the runs.

`CallSession_proofs` proves, for all sizes of the buffers, timeouts, numbers of signals and foreign events, for calls and for
sessions that only ring:

- `TypeCorrect`: `Spec => []TypeOK`, `MicrophoneReleased`: `Spec => []MediaReleased`, `EndConfirmed`:
  `Spec => []EndIsConfirmed`, `SignalingOrdered`: `Spec => []SignalingInOrder`.

`Consistent` ties the fields of a session together (what is stopping is not live, what does not know its call has given the
engine nothing), `Silenced` what became of the engine to the phase. An end is confirmed because every event on its way that
says "over" is true: `Telling` says so of the stream, of what is being handled again and of what is buffered. `Ordered` is
the order of signaling: what the engine got, what waits in its buffer and what waits among the updates are together what was
delivered, in places counted from the front. `SignalingInOrder` is stated by places (`OwnSignals`, `Place`) for
this proof: the library of the prover has no facts about `SelectSeq`. The methods of the session are lemmas about any session
(`Closing`, `Handled`), which the actions put together.

`Contact_proofs` proves, for any number of requests, threads, texts, calls, failures, losses and crashes:

- `TypeCorrect`: `Spec => []TypeOK`, `OneDial`: `Spec => []DialedOnce`, `CallsYield`: `Spec => OutgoingYields`, `NoticesFit`:
  `Spec => NoticeFits`.

That an operation is dialed once rests on where its one reservation is: `Reservations` says that at most one job carries it,
that the attempt was begun in this run, and that it was not dialed before. `Queue` says of each kind of job what it may be
about, and that a job that waits in front of a text is of an earlier generation, which is what makes `CallsYield` hold: the
reservation is of the generation before the text. `Calls` says that an attempt of an earlier run belongs to no call of this
one, without which the end of a call could finish another's attempt. What reading T3 does to an operation is one lemma
(`Keeps`), what a dialog turn does another (`Moves`). `NoticesFit` says of a text about the question that overtook the
attempt that no message is reserved from then on, by the step that concludes the attempt, which sets its phase and call as it
reserves, or by any later one; and that none is missing once a restart has made up for it.

`Texts_proofs` proves, for any number of questions, replies, messages, texts and stops:

- `TypeCorrect`: `Spec => []TypeOK`, `NothingReplayed`: `Spec => []ActedOnce`, `RepliesFit`: `Spec => []ReplyFits`, `NewsOnly`:
  `Spec => []OnlyNews`.

`Operations` says that what the user was told of an operation is not after what there is to tell, in an order of questions and
replies (`Before`); `Messages` that every message told no more than its operation remembers, so that the next one of its own
is news. `Reading` follows the worker through a text: it has not acted before it answers, and an operation that was chosen by
a reply is still about the question of the message.

`Followups_proofs` proves, for any finite set of threads, any texts and utterances, and any number of calls, pieces of speech and
failures:

- `TypeCorrect`: `Spec => []TypeOK`, `OneMessageUndecided`: `Spec => []OneUndecided`, `Authorised`: `Spec => SpokenAuthority`,
  `FollowupsSendOnce`: `Spec => CommandsOnce`, by the same mapping as for the launcher.

`VoiceInv` is about the call: targets and text that are bound were said since the last refusal (`Fair`), in a transcript that
only grows (`Longer`); a refusal is worked on before anything else is (`Slot` excepts it); a delegation whose revision
is the present one is about the latest reading (`Routed`, `Reserving`). Each way out of `Route` is a case, with what the
definitions from `Live` to `Text` return as lemmas (`LiveFacts`, `BindingFacts`, `TextFacts`). `StoreInv` is about memory, file
and T3: both are without duplicates, and the file has what was sent.

Three faults of an earlier form of `Followups` showed when this proof was tried, and were put right by the source: a
cancellation that named a thread was taken for the answer to "which thread?" (the code sorts it out before,
`service.py:97-107`); a message was reported in the same step as the save that had found it; a blank message was reserved
(`followups.py:141-144`).

The modules assume only the assumptions about constants of the module they are about (`ConstantsAssumption`,
`TimesAssumption`, `LimitsAssumption`, `BoundsAssumption`). TLC checked each inductive invariant before it was proved.

Every invariant and every action property that the runs check is proved, the one of the run that finds a divergence
excepted. Only model-checked: all liveness (`CallBounded`, `ServiceGoesOn`, `TextAnswered`,
`StartedIsAnnounced`, `FailureEndsCall`), which is out of the prover's reach, as is `ENABLED`.

## 5. Not modelled

Audio (formats, pacing, devices), the engine inside the native media process, TDLib's login, HTTP and WebSocket transport, parsing and
wording, credentials, configuration, installation and scripts: no protocol between actors, or data a model cannot
usefully abstract. What the structuring model says is a free choice within what the code accepts. The limit of 128 jobs
is part of `Settle` and left out of `Contact` and `TaskLauncher`, that of 8 MiB is left out everywhere. The transcripts of the call history are not modelled, nor are the texts
of status reports and `watch.py`.

## 6. Plan

In this order; each module lists the hazards in `PROJECT.json` that it is for.

1. `Watch` with its ledger of attempts.
2. The fold over activities in `pending_requests`, `question_due`, the bounded transcripts and the output pacer as
   functions against reference definitions.

