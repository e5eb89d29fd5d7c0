------------------------------ MODULE TaskLauncher ------------------------------
(***************************************************************************)
(* Orders given by voice: eotm's TaskLauncher (tasks.py) with the parts of *)
(* VoiceConversation (service.py) that drive it.  In a call the user's     *)
(* words become a proposal; a confirmation creates a T3 thread and starts  *)
(* its first turn; a scan between calls looks after what a timeout or a    *)
(* crash left undecided.  Turns and scans hold one lock; speech goes on    *)
(* meanwhile.  A job is saved at every change, so what a crash takes is    *)
(* the step in progress and the call.                                      *)
(***************************************************************************)
EXTENDS Naturals

CONSTANTS
    Jobs,       \* identifiers of jobs, from uuid4
    NoJob,      \* "no proposal" (None)
    MaxCalls,   \* bound: calls
    MaxSpeech,  \* bound: the transcript revision within one call
    MaxCrashes, \* bound: crashes and restarts of the service
    MaxFailures \* bound: T3 reads that fail though the thread is there

ASSUME ConstantsAssumption ==
    /\ NoJob \notin Jobs
    /\ {MaxCalls, MaxSpeech, MaxCrashes, MaxFailures} \subseteq Nat

VARIABLES
    jobs,   \* the durable jobs
    voice,  \* the VoiceConversation of the latest call
    turn,   \* what the holder of the lock is doing
    t3,     \* T3: the thread of each job and the turn of its first message
    wire,   \* commands sent and not executed by T3 (yet, or ever)
    sent,   \* history: how often each command was sent
    asked,  \* history: the call, the turn and the transcript when a job was last proposed
    given,  \* history: the call and transcript revision of its confirmation
    told,   \* history: jobs the user heard had started, and the messages sent about each
    count   \* how much of each bound is used

vars == <<jobs, voice, turn, t3, wire, sent, asked, given, told, count>>

Confirmations == {"yes", "go"}              \* two texts explicit_confirmation accepts
Texts == Confirmations \cup {"no", "other"} \* the last user utterance
Kinds == {"create", "start"}
Unsettled == {"creating", "created", "starting", "accepted"}
Settled == {"none", "proposed", "cancelled", "superseded", "started", "failed"}

NoTurn == [pc |-> "idle", by |-> "none", job |-> NoJob, revision |-> 0,
           said |-> "none", caught |-> FALSE, todo |-> {}]
NewJob == [state |-> "none", revision |-> 0, text |-> "none",
           committed |-> FALSE, noticed |-> FALSE]
Moment == [call |-> voice.call, turn |-> turn.revision, revision |-> voice.revision]

Set(j, s) == jobs' = [jobs EXCEPT ![j].state = s]
Goto(label) == turn' = [turn EXCEPT !.pc = label]
EndTurn == turn' = NoTurn

-----------------------------------------------------------------------------
(* Calls and speech.                                                       *)

CallBegins ==
    /\ ~voice.live /\ turn.pc = "idle" /\ voice.call < MaxCalls
    /\ voice' = [call |-> voice.call + 1, live |-> TRUE, revision |-> 0,
                 said |-> "none", proposal |-> NoJob]
    /\ UNCHANGED <<jobs, turn, t3, wire, sent, asked, given, told, count>>

CallEnds ==
    /\ voice.live
    /\ voice' = [voice EXCEPT !.live = FALSE]
    /\ UNCHANGED <<jobs, turn, t3, wire, sent, asked, given, told, count>>

\* Each piece of speech the recognizer delivers raises the revision.
Speak ==
    /\ voice.live /\ voice.revision < MaxSpeech
    /\ \E text \in Texts :
         voice' = [voice EXCEPT !.revision = @ + 1, !.said = text]
    /\ UNCHANGED <<jobs, turn, t3, wire, sent, asked, given, told, count>>

\* A delegation takes the transcript and its revision, then waits for the lock.
Delegate ==
    /\ voice.live /\ turn.pc = "idle" /\ voice.said # "none"
    /\ turn' = [NoTurn EXCEPT !.pc = "route", !.by = "voice",
                              !.revision = voice.revision, !.said = voice.said]
    /\ UNCHANGED <<jobs, voice, t3, wire, sent, asked, given, told, count>>

Cancelled == ~voice.live \/ voice.revision # turn.revision

\* _respond: other words than a confirmation or a refusal drop the proposal;
\* without one, the words go to the structuring model.
Refused ==
    /\ turn.pc = "route" /\ ~voice.live /\ EndTurn
    /\ UNCHANGED <<jobs, voice, t3, wire, sent, asked, given, told, count>>

Structure ==
    /\ turn.pc = "route" /\ voice.live
    /\ turn.said = "other" \/ voice.proposal = NoJob
    /\ voice' = [voice EXCEPT !.proposal = NoJob]
    /\ Goto("think")
    /\ UNCHANGED <<jobs, t3, wire, sent, asked, given, told, count>>

\* "No" to a proposal: the job of the proposal slot, whatever has become of it.
Cancel ==
    /\ turn.pc = "route" /\ voice.live /\ turn.said = "no" /\ voice.proposal # NoJob
    /\ Set(voice.proposal, "cancelled")
    /\ voice' = [voice EXCEPT !.proposal = NoJob]
    /\ EndTurn
    /\ UNCHANGED <<t3, wire, sent, asked, given, told, count>>

\* The model's answer is dropped if the user has spoken since.
Decide ==
    /\ turn.pc = "think"
    /\ IF Cancelled THEN EndTurn ELSE Goto("decided") \/ EndTurn
    /\ UNCHANGED <<jobs, voice, t3, wire, sent, asked, given, told, count>>

\* Checking a proposal or a resumption against T3 takes requests that may fail.
CheckFails ==
    /\ turn.pc \in {"decided", "checked"} /\ EndTurn
    /\ UNCHANGED <<jobs, voice, t3, wire, sent, asked, given, told, count>>

Propose(j) ==
    /\ turn.pc = "decided" /\ jobs[j].state = "none"
    /\ jobs' = [jobs EXCEPT ![j].state = "proposed", ![j].revision = turn.revision,
                            ![j].text = turn.said]
    /\ asked' = [asked EXCEPT ![j] = Moment]
    /\ turn' = [turn EXCEPT !.pc = "replace", !.job = j]
    /\ UNCHANGED <<voice, t3, wire, sent, given, told, count>>

\* The proposal it replaces is superseded, if it is still one.
Replace ==
    /\ turn.pc = "replace"
    /\ IF voice.proposal # NoJob /\ jobs[voice.proposal].state = "proposed"
       THEN Set(voice.proposal, "superseded")
       ELSE UNCHANGED jobs
    /\ voice' = [voice EXCEPT !.proposal = turn.job]
    /\ EndTurn
    /\ UNCHANGED <<t3, wire, sent, asked, given, told, count>>

\* Broken variant: a resumed proposal keeps the revision of its own call.
ResumeAsItWas(j) ==
    /\ turn.pc = "decided" /\ jobs[j].state = "proposed"
    /\ asked' = [asked EXCEPT ![j] = Moment]
    /\ voice' = [voice EXCEPT !.proposal = j]
    /\ EndTurn
    /\ UNCHANGED <<jobs, t3, wire, sent, given, told, count>>

\* resume_proposal: an order of an earlier call becomes a proposal of this one.
Resume(j) ==
    /\ turn.pc = "decided" /\ jobs[j].state = "proposed"
    /\ jobs' = [jobs EXCEPT ![j].revision = turn.revision, ![j].text = "none"]
    /\ asked' = [asked EXCEPT ![j] = Moment]
    /\ voice' = [voice EXCEPT !.proposal = j]
    /\ EndTurn
    /\ UNCHANGED <<t3, wire, sent, given, told, count>>

-----------------------------------------------------------------------------
(* confirm.                                                                *)

Confirming == turn.pc = "route" /\ voice.live /\ turn.said \in Confirmations
              /\ voice.proposal # NoJob

ConfirmAgain ==
    /\ Confirming /\ jobs[voice.proposal].state # "proposed"
    /\ turn' = [turn EXCEPT !.job = voice.proposal,
                  !.pc = IF jobs[voice.proposal].state = "started" THEN "answer"
                         ELSE "reconcile"]
    /\ UNCHANGED <<jobs, voice, t3, wire, sent, asked, given, told, count>>

Fresh(j) ==
    /\ ~Cancelled
    /\ turn.revision > jobs[j].revision
    /\ turn.said # jobs[j].text

Confirm ==
    /\ Confirming /\ jobs[voice.proposal].state = "proposed"
    /\ IF Fresh(voice.proposal)
       THEN turn' = [turn EXCEPT !.job = voice.proposal, !.pc = "checked"]
       ELSE EndTurn
    /\ UNCHANGED <<jobs, voice, t3, wire, sent, asked, given, told, count>>

\* The catalog and the project are valid, and the call goes on: both commands are
\* saved before anything is sent.
Commit ==
    /\ turn.pc = "checked"
    /\ IF Cancelled THEN EndTurn /\ UNCHANGED <<jobs, given>>
       ELSE /\ jobs' = [jobs EXCEPT ![turn.job].state = "creating",
                                    ![turn.job].committed = TRUE]
            /\ given' = [given EXCEPT ![turn.job] =
                           [call |-> voice.call, revision |-> turn.revision]]
            /\ turn' = [turn EXCEPT !.pc = "create", !.caught = TRUE]
    /\ UNCHANGED <<voice, t3, wire, sent, asked, told, count>>

Dispatch(kind) ==
    /\ wire' = wire \cup {<<turn.job, kind>>}
    /\ sent' = [sent EXCEPT ![turn.job][kind] = @ + 1]

\* confirm's handler reconciles; in reconcile itself the error ends the turn or scan.
Raise ==
    IF turn.caught THEN turn' = [turn EXCEPT !.pc = "reconcile", !.caught = FALSE]
    ELSE EndTurn

SendCreate ==
    /\ turn.pc = "create" /\ Dispatch("create")
    /\ Goto("creating")
    /\ UNCHANGED <<jobs, voice, t3, asked, given, told, count>>

Created ==
    /\ turn.pc = "creating" /\ t3[turn.job].thread # "none"
    /\ Set(turn.job, "created")
    /\ Goto("begin")
    /\ UNCHANGED <<voice, t3, wire, sent, asked, given, told, count>>

Unconfirmed ==
    /\ turn.pc \in {"creating", "starting"} /\ Raise
    /\ UNCHANGED <<jobs, voice, t3, wire, sent, asked, given, told, count>>

\* Broken variant: the attempt is not saved before it is made.
BeginUnsaved ==
    /\ turn.pc = "begin"
    /\ Goto("start")
    /\ UNCHANGED <<jobs, voice, t3, wire, sent, asked, given, told, count>>

\* _start: the attempt is saved before it is made.
Begin ==
    /\ turn.pc = "begin"
    /\ Set(turn.job, "starting")
    /\ Goto("start")
    /\ UNCHANGED <<voice, t3, wire, sent, asked, given, told, count>>

SendStart ==
    /\ turn.pc = "start" /\ Dispatch("start")
    /\ Goto("starting")
    /\ UNCHANGED <<jobs, voice, t3, asked, given, told, count>>

\* Protocol 2 reads the thread before it sends a turn.
StartUnsent ==
    /\ turn.pc = "start" /\ Raise
    /\ UNCHANGED <<jobs, voice, t3, wire, sent, asked, given, told, count>>

Accepted ==
    /\ turn.pc = "starting" /\ t3[turn.job].turn # "none"
    /\ Goto("poll")
    /\ UNCHANGED <<jobs, voice, t3, wire, sent, asked, given, told, count>>

-----------------------------------------------------------------------------
(* reconcile.                                                              *)

\* Broken variant: T3's state of a turn is kept as the state of the job.
OutcomeRaw(j) ==
    IF t3[j].turn \in {"running", "completed"} THEN "started" ELSE t3[j].turn

Outcome(j) ==
    CASE t3[j].turn \in {"running", "completed"} -> "started"
      [] t3[j].turn = "error" -> "failed"
      [] OTHER -> "accepted"

\* A thread that is there, with its message.
Seen(j) ==
    IF jobs[j].state \in Unsettled /\ t3[j].thread = "there" /\ t3[j].turn # "none"
    THEN Outcome(j) ELSE jobs[j].state

\* Broken variant: a job that was cancelled meanwhile goes on.
MayStartWithdrawn(j) ==
    /\ jobs[j].committed /\ jobs[j].state \in {"creating", "created", "cancelled"}
    /\ t3[j].thread = "there" /\ t3[j].turn = "none"

\* The start was never attempted and the thread is there without the message.
MayStart(j) ==
    /\ jobs[j].state \in {"creating", "created"}
    /\ t3[j].thread = "there" /\ t3[j].turn = "none"

Reconciled == IF turn.by = "scan" THEN "notice" ELSE "answer"

Reconcile ==
    /\ turn.pc = "reconcile"
    /\ IF MayStart(turn.job)
       THEN Set(turn.job, "starting") /\ Goto("start")
       ELSE Set(turn.job, Seen(turn.job)) /\ Goto(Reconciled)
    /\ UNCHANGED <<voice, t3, wire, sent, asked, given, told, count>>

ReadFails ==
    /\ turn.pc = "reconcile" /\ count.failures < MaxFailures
    /\ count' = [count EXCEPT !.failures = @ + 1]
    /\ Goto(Reconciled)
    /\ UNCHANGED <<jobs, voice, t3, wire, sent, asked, given, told>>

\* Within three seconds T3 may be seen to accept the turn, and to start it.
Poll ==
    /\ turn.pc = "poll" /\ Seen(turn.job) # jobs[turn.job].state
    /\ Set(turn.job, Seen(turn.job))
    /\ UNCHANGED <<voice, turn, t3, wire, sent, asked, given, told, count>>

PollEnds ==
    /\ turn.pc = "poll" /\ Goto(Reconciled)
    /\ UNCHANGED <<jobs, voice, t3, wire, sent, asked, given, told, count>>

Answer ==
    /\ turn.pc = "answer"
    /\ told' = IF jobs[turn.job].state = "started"
               THEN [told EXCEPT !.jobs = @ \cup {turn.job}] ELSE told
    /\ EndTurn
    /\ UNCHANGED <<jobs, voice, t3, wire, sent, asked, given, count>>

-----------------------------------------------------------------------------
(* recover, a part of every scan; scans run between calls.                 *)

\* Broken variant: only jobs that are not settled are looked at.
ScanUnsettled ==
    /\ ~voice.live /\ turn.pc = "idle"
    /\ turn' = [NoTurn EXCEPT !.pc = "next", !.by = "scan",
                              !.todo = {j \in Jobs : jobs[j].state \in Unsettled}]
    /\ UNCHANGED <<jobs, voice, t3, wire, sent, asked, given, told, count>>

Scan ==
    /\ ~voice.live /\ turn.pc = "idle"
    /\ turn' = [NoTurn EXCEPT !.pc = "next", !.by = "scan",
                              !.todo = {j \in Jobs : jobs[j].state # "none"}]
    /\ UNCHANGED <<jobs, voice, t3, wire, sent, asked, given, told, count>>

NextJob ==
    /\ turn.pc = "next"
    /\ IF turn.todo = {} THEN EndTurn
       ELSE \E j \in turn.todo :
              turn' = [turn EXCEPT !.pc = "reconcile", !.job = j, !.todo = @ \ {j}]
    /\ UNCHANGED <<jobs, voice, t3, wire, sent, asked, given, told, count>>

\* Broken variant: the message is queued without a reservation.
ReserveUnsaved ==
    /\ turn.pc = "notice"
    /\ IF jobs[turn.job].state = "started" /\ ~jobs[turn.job].noticed
       THEN Goto("notify") ELSE Goto("next")
    /\ UNCHANGED <<jobs, voice, t3, wire, sent, asked, given, told, count>>

\* The message is reserved first, then queued.
Reserve ==
    /\ turn.pc = "notice"
    /\ IF jobs[turn.job].state = "started" /\ ~jobs[turn.job].noticed
       THEN jobs' = [jobs EXCEPT ![turn.job].noticed = TRUE] /\ Goto("notify")
       ELSE UNCHANGED jobs /\ Goto("next")
    /\ UNCHANGED <<voice, t3, wire, sent, asked, given, told, count>>

Notify ==
    /\ turn.pc = "notify"
    /\ told' = [jobs |-> told.jobs \cup {turn.job},
                notices |-> [told.notices EXCEPT ![turn.job] = @ + 1]]
    /\ Goto("next")
    /\ UNCHANGED <<jobs, voice, t3, wire, sent, asked, given, count>>

-----------------------------------------------------------------------------
(* T3, and crashes of the service.                                         *)

T3Creates(j) ==
    /\ <<j, "create">> \in wire /\ t3[j].thread = "none"
    /\ t3' = [t3 EXCEPT ![j].thread = "there"]
    /\ wire' = wire \ {<<j, "create">>}
    /\ UNCHANGED <<jobs, voice, turn, sent, asked, given, told, count>>

T3Starts(j) ==
    /\ <<j, "start">> \in wire /\ t3[j].thread = "there"
    /\ t3' = [t3 EXCEPT ![j].turn = "queued"]
    /\ wire' = wire \ {<<j, "start">>}
    /\ UNCHANGED <<jobs, voice, turn, sent, asked, given, told, count>>

T3Runs(j) ==
    /\ \/ t3[j].turn = "queued" /\ t3' = [t3 EXCEPT ![j].turn = "running"]
       \/ /\ t3[j].turn = "running"
          /\ \E s \in {"completed", "error"} : t3' = [t3 EXCEPT ![j].turn = s]
    /\ UNCHANGED <<jobs, voice, turn, wire, sent, asked, given, told, count>>

T3Archives(j) ==
    /\ t3[j].thread = "there"
    /\ t3' = [t3 EXCEPT ![j].thread = "gone"]
    /\ UNCHANGED <<jobs, voice, turn, wire, sent, asked, given, told, count>>

Crash ==
    /\ count.crashes < MaxCrashes
    /\ count' = [count EXCEPT !.crashes = @ + 1]
    /\ turn' = NoTurn
    /\ voice' = [voice EXCEPT !.live = FALSE, !.proposal = NoJob]
    /\ UNCHANGED <<jobs, t3, wire, sent, asked, given, told>>

-----------------------------------------------------------------------------

Init ==
    /\ jobs = [j \in Jobs |-> NewJob]
    /\ voice = [call |-> 0, live |-> FALSE, revision |-> 0, said |-> "none",
                proposal |-> NoJob]
    /\ turn = NoTurn
    /\ t3 = [j \in Jobs |-> [thread |-> "none", turn |-> "none"]]
    /\ wire = {}
    /\ sent = [j \in Jobs |-> [k \in Kinds |-> 0]]
    /\ asked = [j \in Jobs |-> [call |-> 0, turn |-> 0, revision |-> 0]]
    /\ given = [j \in Jobs |-> [call |-> 0, revision |-> 0]]
    /\ told = [jobs |-> {}, notices |-> [j \in Jobs |-> 0]]
    /\ count = [failures |-> 0, crashes |-> 0]

\* What the service does once it has the lock.
Work ==
    \/ Refused \/ Structure \/ Cancel \/ Decide \/ CheckFails \/ Replace
    \/ \E j \in Jobs : Propose(j) \/ Resume(j)
    \/ ConfirmAgain \/ Confirm \/ Commit
    \/ SendCreate \/ Created \/ Unconfirmed \/ Begin \/ SendStart \/ StartUnsent \/ Accepted
    \/ Reconcile \/ ReadFails \/ Poll \/ PollEnds \/ Answer
    \/ NextJob \/ Reserve \/ Notify

Next ==
    \/ Work \/ Scan \/ Delegate
    \/ CallBegins \/ CallEnds \/ Speak
    \/ \E j \in Jobs : T3Creates(j) \/ T3Starts(j) \/ T3Runs(j) \/ T3Archives(j)
    \/ Crash

Spec == Init /\ [][Next]_vars

\* Requests have timeouts and calls a limit of twenty minutes; scans come round.
Fairness == WF_vars(Work) /\ WF_vars(Scan) /\ WF_vars(CallEnds)
FairSpec == Spec /\ Fairness

-----------------------------------------------------------------------------
(* Properties.                                                             *)

Labels == {"idle", "route", "think", "decided", "replace", "checked", "create", "creating",
           "begin", "start", "starting", "poll", "reconcile", "answer", "next", "notice",
           "notify"}
JobType == [state : Settled \cup Unsettled, revision : Nat, text : Texts \cup {"none"},
            committed : BOOLEAN, noticed : BOOLEAN]
VoiceType == [call : Nat, live : BOOLEAN, revision : Nat, said : Texts \cup {"none"},
              proposal : Jobs \cup {NoJob}]
TurnType == [pc : Labels, by : {"none", "voice", "scan"}, job : Jobs \cup {NoJob},
             revision : Nat, said : Texts \cup {"none"}, caught : BOOLEAN,
             todo : SUBSET Jobs]
ThreadType == [thread : {"none", "there", "gone"},
               turn : {"none", "queued", "running", "completed", "error"}]

T3TypeOK ==
    /\ t3 \in [Jobs -> ThreadType]
    /\ wire \subseteq Jobs \X Kinds
    /\ sent \in [Jobs -> [Kinds -> Nat]]

HistoryTypeOK ==
    /\ asked \in [Jobs -> [call : Nat, turn : Nat, revision : Nat]]
    /\ given \in [Jobs -> [call : Nat, revision : Nat]]
    /\ told \in [jobs : SUBSET Jobs, notices : [Jobs -> Nat]]
    /\ count \in [failures : Nat, crashes : Nat]

TypeOK ==
    /\ jobs \in [Jobs -> JobType]
    /\ voice \in VoiceType
    /\ turn \in TurnType
    /\ T3TypeOK
    /\ HistoryTypeOK

\* The first turn of a job is only ever sent to a thread that T3 has created: the
\* create command and its late, lost or unconfirmed outcome come before it, across
\* the handler of confirm, the scans and restarts (tasks.py:100-132).
StartFollowsCreate == \A j \in Jobs : sent[j]["start"] > 0 => t3[j].thread # "none"

\* Nothing is sent about a job the user has not confirmed in the very call in which
\* it was last proposed, at a later revision: slots, resumptions and calls that
\* count revisions from zero never let an old word through (tasks.py:72-79).
ConfirmedWhereProposed ==
    \A j \in Jobs : sent[j]["create"] > 0 =>
        /\ given[j].call = asked[j].call
        /\ given[j].revision > asked[j].turn

\* A job that says started was started: T3 has its message, though reads fail and
\* the thread may be archived meanwhile (tasks.py:126-128).
StartedIsRead == \A j \in Jobs : jobs[j].state \in {"started", "failed"} => t3[j].turn # "none"

\* At most one message tells of a started job, also when the service stops between
\* the reservation and the message (tasks.py:137-140).
NoticedOnce == \A j \in Jobs : told.notices[j] <= 1

\* A job that was cancelled or superseded stays so and sends nothing any more, whatever
\* T3 makes of what was sent before (tasks.py:121, service.py:278 and 347).
WithdrawnSendsNothing ==
    [][\A j \in Jobs : jobs[j].state \in {"cancelled", "superseded"} =>
         jobs'[j].state = jobs[j].state /\ sent'[j] = sent[j]]_vars

\* A job whose thread T3 has created, though the create command was not confirmed or
\* the service stopped, gets its first turn or is withdrawn; and one that has started is
\* announced by a scan, unless the user withdraws it (tasks.py:130-140).
StartedIsAnnounced ==
    \A j \in Jobs :
        /\ (jobs[j].state \in {"creating", "created"} /\ t3[j].thread = "there")
              ~> (\/ jobs[j].state \in {"starting", "accepted", "started", "failed", "cancelled"}
                  \/ t3[j].thread = "gone")
        /\ (jobs[j].state = "started") ~> (jobs[j].noticed \/ jobs[j].state = "cancelled")

\* "All right, I will not start a new task" (i18n.py:145): the user does not hear this
\* about a job that T3 has started, and of which the user heard so.
CancelledIsNotStarted ==
    \A j \in Jobs : jobs[j].state = "cancelled" => j \notin told.jobs

\* "No thread is created until you confirm the exact proposal in the current
\* conversation" (docs/usage.md:54): the confirmation was spoken after the proposal
\* had been made.  Does not hold: a proposal carries the revision of the turn that asked
\* for it, not of the moment it exists (service.py:343, tasks.py:78).
ConfirmationFollowsProposal ==
    \A j \in Jobs : sent[j]["create"] > 0 => given[j].revision > asked[j].revision

\* Every command is recorded, then sent, once; success is reported after T3 was seen
\* to have executed it (docs/architecture.md:38 and 46-54).
Commands == Jobs \X Kinds
Recorded == {c \in Commands : jobs[c[1]].committed}
Sends == [c \in Commands |-> sent[c[1]][c[2]]]
Executed == {c \in Commands : IF c[2] = "create" THEN t3[c[1]].thread # "none"
                              ELSE t3[c[1]].turn # "none"}
Reported == told.jobs \X {"start"}

Once == INSTANCE CommandOnce WITH recorded <- Recorded, sends <- Sends,
                                  executed <- Executed, reported <- Reported

CommandsOnce == Once!Spec
=============================================================================
