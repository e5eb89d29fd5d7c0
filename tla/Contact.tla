-------------------------------- MODULE Contact --------------------------------
(***************************************************************************)
(* How the service reaches the user about open T3 questions: eotm's        *)
(* TelegramService (service.py) and Conversations (conversations.py).  The *)
(* main loop reads Telegram events, ends calls and hands jobs to one       *)
(* worker; the worker and the voice turns of a call change the durable     *)
(* operations under one lock; the results of jobs come back to the main    *)
(* loop later, when calls, texts and T3 may have moved on.  Every change   *)
(* of an operation is saved before the lock is released, so that a crash   *)
(* loses only what the main loop holds.                                    *)
(*                                                                         *)
(* A dialog turn is one step here; module Delegation opens it up.          *)
(***************************************************************************)
EXTENDS Integers, Sequences, FiniteSets

CONSTANTS
    MaxRequest,  \* T3 request ids are 1..MaxRequest, in the order pending_requests sorts them
    ThreadOf,    \* the thread of each request
    MaxTexts,    \* bound: text messages
    MaxRings,    \* bound: incoming calls
    MaxFollowups,\* bound: spoken follow-up messages to other threads
    MaxFailures, \* bound: T3 requests that fail for a while
    MaxLosses,   \* bound: threads T3 archives or removes
    MaxCrashes   \* bound: crashes and restarts of the service

Requests == 1..MaxRequest

ASSUME ConstantsAssumption ==
    /\ MaxRequest \in Nat \ {0}
    /\ ThreadOf \in [Requests -> Nat]
    /\ {MaxTexts, MaxRings, MaxFollowups, MaxFailures, MaxLosses, MaxCrashes} \subseteq Nat

VARIABLES
    ops,        \* durable operations, by the request each was created for
    ask,        \* T3: the state of each request
    threads,    \* T3: the state of each thread
    jobs,       \* the worker's queue with the results the main loop has not taken
    session,    \* the phone call of the service
    pending,    \* pending_incoming: the call waiting to be accepted, 0 for none
    cancelled,  \* incoming calls known to be over
    generation, \* input_generation, the number of text messages
    recovered,  \* the first scan of this run has been completed
    dials,      \* history: outgoing calls, each with operation and question
    count       \* how much of each bound is used

t3Vars == <<ask, threads>>
loopVars == <<session, pending, cancelled, generation>>
vars == <<ops, ask, threads, jobs, session, pending, cancelled, generation, recovered,
          dials, count>>

Threads == {ThreadOf[r] : r \in Requests}
None == 0
Contactable == {"open", "deferred"}

NoAttempt == [phase |-> "none", suppressed |-> FALSE, call |-> 0, run |-> 0]

Unknown ==
    [status |-> "none", request |-> 1, asked |-> {}, submitted |-> FALSE,
     completed |-> FALSE, deferred |-> FALSE, attempt |-> NoAttempt, first |-> "none"]

NewOperation(r) == [Unknown EXCEPT !.status = "open", !.request = r, !.asked = {r}]

NoSession == [kind |-> "none", call |-> 0, op |-> None, over |-> FALSE]

Use(bound) == count' = [count EXCEPT ![bound] = @ + 1]

Pending == {r \in Requests : ask[r] = "open" /\ threads[ThreadOf[r]] = "alive"}
Beside(r, S) == {q \in S : ThreadOf[q] = ThreadOf[r]}
LowestOf(S) == CHOOSE r \in S : \A q \in S : r <= q
Alive(o) == threads[ThreadOf[o.request]] = "alive"
Missing(o) == threads[ThreadOf[o.request]] = "missing"

-----------------------------------------------------------------------------
(* Reading T3.                                                             *)

\* _observe_source, given the requests pending in the operation's thread.
Observe(o, open) ==
    IF open = {} THEN o
    ELSE [o EXCEPT !.request = LowestOf(open), !.asked = @ \cup {LowestOf(open)},
                   !.submitted = FALSE, !.completed = FALSE]

\* Conversations.refresh of an operation whose thread can be read.
Refresh(o) ==
    IF o.status = "completed" /\ o.completed THEN o
    ELSE LET d == IF o.submitted THEN Observe(o, Beside(o.request, Pending)) ELSE o
         IN  [d EXCEPT !.status =
                IF d.completed THEN "completed"
                ELSE IF d.deferred THEN "deferred"
                ELSE IF ~o.submitted /\ o.request \notin Pending THEN "stale"
                ELSE IF d.status = "completed" THEN "open" ELSE d.status]

\* open_operations: raises when the thread of an open operation cannot be read.
Unreadable(O) == \E r \in Requests : O[r].status \in Contactable /\ Missing(O[r])

OpenOperations(O) ==
    [r \in Requests |->
        IF O[r].status \notin Contactable THEN O[r]
        ELSE IF Alive(O[r]) THEN Refresh(O[r])
        ELSE [O[r] EXCEPT !.status = "stale"]]

\* discover: operations that wait in a thread with a question are refreshed, and
\* pending requests no operation has had become operations, if they are due.
Discover(O, due) ==
    LET R == [r \in Requests |->
                IF /\ O[r].status \in Contactable /\ O[r].submitted
                   /\ Beside(O[r].request, Pending) # {}
                THEN Refresh(O[r]) ELSE O[r]]
        new == {r \in due : \A q \in Requests : r \notin R[q].asked}
    IN  [r \in Requests |-> IF r \in new THEN NewOperation(r) ELSE R[r]]

-----------------------------------------------------------------------------
(* One dialog turn, with what T3 makes of it: the operations it may leave. *)

\* Broken variant: a decision is kept under a status of its own.
SettledAsAnswered(o) == [o EXCEPT !.status = IF o.completed THEN "answered" ELSE "open"]

Settled(o) ==
    [o EXCEPT !.status = IF o.completed THEN "completed"
                         ELSE IF o.deferred THEN "deferred" ELSE "open"]

\* An outcome is an operation and the set of requests answered on the way.
Talk(o) ==
    LET seen == IF o.submitted THEN Observe(o, Beside(o.request, Pending)) ELSE o
        said == {[op |-> Settled(seen), answered |-> {}],
                 [op |-> Settled([seen EXCEPT !.deferred = TRUE]), answered |-> {}]}
    IN  IF o.submitted /\ seen # o
        THEN {[op |-> Settled(seen), answered |-> {}]}
        ELSE IF o.submitted
        THEN said \cup {[op |-> Settled([o EXCEPT !.completed = TRUE]), answered |-> {}]}
        ELSE IF o.request \notin Pending THEN said
        ELSE LET rest == Beside(o.request, Pending \ {o.request})
             IN  said \cup
                 {[op |-> Settled(Observe([o EXCEPT !.submitted = TRUE, !.completed = b], rest)),
                   answered |-> {o.request}] : b \in BOOLEAN}

Answered(S) == ask' = [r \in Requests |-> IF r \in S THEN "closed" ELSE ask[r]]

\* respond: the reply to a text about this operation.
Respond(o) ==
    LET seen == Refresh(o)
        fresh == [seen EXCEPT !.status = "open", !.deferred = FALSE,
                              !.completed = @ /\ seen.status # "completed"]
        stay == [op |-> seen, answered |-> {}]
        defer == [op |-> [seen EXCEPT !.deferred = TRUE, !.status = "deferred"],
                  answered |-> {}]
    IN  IF ~Alive(o) THEN {[op |-> o, answered |-> {}]}
        ELSE IF seen.status = "stale" \/ seen.request # o.request THEN {stay}
        ELSE IF seen.status = "completed" /\ Beside(o.request, Pending) # {} THEN {defer, stay}
        ELSE {defer} \cup Talk(fresh)

-----------------------------------------------------------------------------
(* Contact attempts.                                                       *)

\* finish_attempt: the attempt is over, and if the question is still open and no
\* text came in, one message is reserved.  A thread that cannot be read, or a
\* request that fails, leaves it at the first half.
Concluded(o) == [o EXCEPT !.attempt.phase = "finished", !.attempt.call = 0]

\* Broken variant: a text in the meantime does not suppress the message.
FinishUnsuppressed(o) ==
    LET c == Refresh(Concluded(o))
    IN  IF c.status = "open" /\ c.first = "none" THEN [c EXCEPT !.first = "reserved"] ELSE c

FinishAttempt(o) ==
    LET c == Refresh(Concluded(o))
    IN  IF c.status = "open" /\ c.first = "none" /\ ~c.attempt.suppressed
        THEN [c EXCEPT !.first = "reserved"]
        ELSE c

\* begin_incoming: contact in a call starts a new attempt, once per call.
BeginIncoming(o, call) ==
    IF o.attempt.phase # "none" /\ o.attempt.call = call THEN o
    ELSE [o EXCEPT !.attempt = [NoAttempt EXCEPT !.phase = "incoming", !.call = call,
                                                 !.run = count.crashes],
                   !.first = "none"]

\* Broken variant: an attempt that is over may be reserved again.
ReservableAgain(O) ==
    {r \in Requests : /\ O[r].status = "open" /\ O[r].request \in Pending
                      /\ O[r].attempt.phase \in {"none", "finished"}}

\* reserve_attempt, for an operation whose question is pending.
Reservable(O) ==
    {r \in Requests : /\ O[r].status = "open" /\ O[r].attempt.phase = "none"
                      /\ O[r].request \in Pending}

Reserve(o) == [o EXCEPT !.attempt = [NoAttempt EXCEPT !.phase = "starting",
                                                      !.run = count.crashes]]

\* recover: attempts a previous run left without a message.
Interrupted(O) ==
    {r \in Requests : /\ O[r].status \in Contactable /\ O[r].attempt.phase # "none"
                      /\ O[r].first = "none"}

-----------------------------------------------------------------------------
(* The worker.  A job that raises ends without its callback.               *)

Job(kind, op) == [kind |-> kind, op |-> op, generation |-> generation, done |-> FALSE]

\* The worker takes the first job that is not done; `result` replaces its operand.
Working(kind, i) ==
    /\ jobs[i].kind = kind /\ ~jobs[i].done
    /\ \A j \in 1..(i - 1) : jobs[j].done

Returns(i, result) ==
    /\ jobs' = [jobs EXCEPT ![i].done = TRUE, ![i].op = result]
    /\ UNCHANGED <<loopVars, threads, dials>>

Fails == count.failures < MaxFailures /\ Use("failures")

\* scan: discover, refresh, recover once per run, reserve one attempt.
ScanSucceeds(i) ==
    /\ Working("scan", i)
    /\ \E due \in SUBSET Pending :
        LET found == OpenOperations(Discover(ops, due))
            restored == [r \in Requests |-> IF ~recovered /\ r \in Interrupted(found)
                                            THEN FinishAttempt(found[r]) ELSE found[r]]
        IN  /\ ~Unreadable(Discover(ops, due))
            /\ recovered' = TRUE
            /\ \E r \in {None} \cup IF pending = 0 THEN Reservable(restored) ELSE {} :
                 /\ Returns(i, r)
                 /\ ops' = IF r = None THEN restored ELSE [restored EXCEPT ![r] = Reserve(@)]
            /\ UNCHANGED <<ask, count>>

ScanFails(i) ==
    /\ Working("scan", i) /\ Returns(i, None)
    /\ \E due \in SUBSET Pending :
         LET found == Discover(ops, due)
         IN  \/ /\ Unreadable(found)
                /\ ops' = found /\ UNCHANGED count
             \/ /\ Fails
                /\ \E part \in SUBSET IF recovered \/ Unreadable(found) THEN {}
                                      ELSE Interrupted(OpenOperations(found)) :
                     ops' = [r \in Requests |->
                               IF r \in part THEN FinishAttempt(OpenOperations(found)[r])
                               ELSE found[r]]
    /\ UNCHANGED <<ask, recovered>>

\* begin_outgoing's validate: the operation is refreshed once more.
Validate(i) ==
    /\ Working("validate", i)
    /\ LET r == jobs[i].op
       IN  \/ ~Alive(ops[r]) /\ Returns(i, None) /\ UNCHANGED <<ops, count>>
           \/ Fails /\ Returns(i, None) /\ UNCHANGED ops
           \/ /\ Alive(ops[r])
              /\ ops' = [ops EXCEPT ![r] = Refresh(@)]
              /\ Returns(i, IF ops'[r].status = "open" THEN r ELSE None)
              /\ UNCHANGED count
    /\ UNCHANGED <<ask, recovered>>

\* message: discover, then an answer to the operation it is about, or to none.  The
\* attempt's follow-up is suppressed before the reply is worked out.
Message(i) ==
    /\ Working("text", i) /\ Returns(i, None)
    /\ LET found == Discover(ops, Pending)
           known == OpenOperations(found)
           noted(r) == [known[r] EXCEPT !.attempt.suppressed = known[r].attempt.phase # "none"]
       IN  \/ /\ Unreadable(found)
              /\ ops' = found /\ UNCHANGED <<ask, count>>
           \/ /\ Fails
              /\ ops' = found /\ UNCHANGED ask
           \/ /\ ~Unreadable(found)
              /\ ops' = known /\ UNCHANGED <<ask, count>>
           \/ /\ ~Unreadable(found)
              /\ \E r \in {q \in Requests : known[q].status # "none"} :
                   \E out \in Respond(noted(r)) :
                     /\ ops' = [known EXCEPT ![r] = out.op]
                     /\ Answered(out.answered)
              /\ UNCHANGED count
    /\ UNCHANGED recovered

\* finish_attempt, for the operation the call that ended was about.
Finish(i) ==
    /\ Working("finish", i) /\ Returns(i, None)
    /\ LET o == ops[jobs[i].op]
       IN  \/ /\ Alive(o)
              /\ ops' = [ops EXCEPT ![jobs[i].op] = FinishAttempt(o)] /\ UNCHANGED count
           \/ /\ ops' = [ops EXCEPT ![jobs[i].op] = Concluded(o)]
              /\ IF Alive(o) THEN Fails ELSE UNCHANGED count
    /\ UNCHANGED <<ask, recovered>>

\* remember_call: an incoming call is recorded before it is accepted.
RememberCall(i) ==
    /\ Working("incoming", i) /\ Returns(i, jobs[i].op)
    /\ UNCHANGED <<ops, ask, recovered, count>>

Worker ==
    \E i \in 1..Len(jobs) :
        \/ ScanSucceeds(i) \/ ScanFails(i) \/ Validate(i) \/ Message(i) \/ Finish(i)
        \/ RememberCall(i)

-----------------------------------------------------------------------------
(* Voice turns: VoiceConversation._respond, under the worker's lock.       *)

\* A message to another thread detaches the question from the call.
Followup ==
    /\ session.kind # "none" /\ ~session.over
    /\ count.followups < MaxFollowups /\ Use("followups")
    /\ session' = [session EXCEPT !.op = None]
    /\ UNCHANGED <<ops, t3Vars, jobs, pending, cancelled, generation, recovered, dials>>

\* A turn about the attached operation, and about what else is open once that
\* one is completed.  A snapshot that cannot be read ends the turn.
Converse ==
    /\ session.kind # "none" /\ ~session.over
    /\ LET found == IF session.op = None THEN Discover(ops, Pending) ELSE ops
           known == OpenOperations(found)
           attached == session.op # None /\ known[session.op].status # "completed"
       IN  \/ /\ Unreadable(found)
              /\ ops' = found /\ UNCHANGED <<ask, session>>
           \/ /\ ~Unreadable(found) /\ attached
              /\ IF known[session.op].status \in Contactable
                 THEN \E out \in Talk([known[session.op] EXCEPT !.deferred = FALSE]) :
                        /\ ops' = [known EXCEPT ![session.op] = out.op]
                        /\ Answered(out.answered)
                 ELSE ops' = known /\ UNCHANGED ask
              /\ UNCHANGED session
           \/ /\ ~Unreadable(found) /\ ~attached
              /\ \E r \in {q \in Requests : known[q].status \in Contactable} \cup {None} :
                   /\ ops' = IF r = None THEN known
                             ELSE [known EXCEPT ![r] = BeginIncoming(@, session.call)]
                   /\ session' = [session EXCEPT !.op = r]
              /\ UNCHANGED ask
    /\ UNCHANGED <<threads, jobs, pending, cancelled, generation, recovered, dials, count>>

-----------------------------------------------------------------------------
(* The main loop: Telegram events, finished jobs, the end of a call.       *)

Submit(kind, op) == jobs' = Append(jobs, Job(kind, op))

\* A text ends the call, makes what is under way stale, and is queued.
TextArrives ==
    /\ generation < MaxTexts
    /\ generation' = generation + 1
    /\ session' = [session EXCEPT !.over = session.kind # "none"]
    /\ jobs' = Append(jobs, [Job("text", None) EXCEPT !.generation = generation'])
    /\ UNCHANGED <<ops, t3Vars, pending, cancelled, recovered, dials, count>>

\* A call that rings while another is under way is left unanswered.
CallRings ==
    /\ count.rings < MaxRings /\ Use("rings")
    /\ pending' = IF session.kind = "none" /\ pending = 0 THEN count'.rings ELSE pending
    /\ UNCHANGED <<ops, t3Vars, jobs, session, cancelled, generation, recovered, dials>>

CallerGivesUp ==
    /\ \E n \in (1..count.rings) \ cancelled :
         /\ cancelled' = cancelled \cup {n}
         /\ pending' = IF pending = n THEN 0 ELSE pending
         /\ session' = IF session.call = n THEN [session EXCEPT !.over = TRUE] ELSE session
    /\ UNCHANGED <<ops, t3Vars, jobs, generation, recovered, dials, count>>

\* Nobody answers, the call fails, one side hangs up, its time is used up.
CallEnds ==
    /\ session.kind # "none" /\ ~session.over
    /\ session' = [session EXCEPT !.over = TRUE]
    /\ UNCHANGED <<ops, t3Vars, jobs, pending, cancelled, generation, recovered, dials, count>>

\* The results of jobs are taken in order.
Takes(kind) ==
    /\ jobs # <<>> /\ Head(jobs).done /\ Head(jobs).kind = kind

NoCallback ==
    /\ jobs # <<>> /\ Head(jobs).done /\ Head(jobs).kind \in {"text", "finish"}
    /\ jobs' = Tail(jobs)
    /\ UNCHANGED <<ops, t3Vars, loopVars, recovered, dials, count>>

\* Broken variant: a text that came in meanwhile is not noticed.
OvertakenByCallsOnly(job) == pending # 0

Overtaken(job) == job.generation # generation \/ pending # 0

\* The scan's callback: nothing is begun once a text or a call has come in.
BeginOutgoing ==
    /\ Takes("scan")
    /\ jobs' = IF Head(jobs).op = None \/ Overtaken(Head(jobs)) THEN Tail(jobs)
               ELSE Append(Tail(jobs), Job("validate", Head(jobs).op))
    /\ UNCHANGED <<ops, t3Vars, loopVars, recovered, dials, count>>

StartOutgoing ==
    /\ Takes("validate")
    /\ jobs' = Tail(jobs)
    /\ LET r == Head(jobs).op
       IN  IF r = None \/ Overtaken(Head(jobs)) \/ session.kind # "none"
           THEN UNCHANGED <<session, dials>>
           ELSE /\ dials' = Append(dials, [op |-> r, request |-> ops[r].request])
                /\ session' = [kind |-> "out", call |-> -Len(dials'), op |-> r, over |-> FALSE]
    /\ UNCHANGED <<ops, t3Vars, pending, cancelled, generation, recovered, count>>

StartIncoming ==
    /\ Takes("incoming")
    /\ jobs' = Tail(jobs)
    /\ session' = IF session.kind # "none" \/ Head(jobs).op \in cancelled THEN session
                  ELSE [kind |-> "in", call |-> Head(jobs).op, op |-> None, over |-> FALSE]
    /\ UNCHANGED <<ops, t3Vars, pending, cancelled, generation, recovered, dials, count>>

Callback == NoCallback \/ BeginOutgoing \/ StartOutgoing \/ StartIncoming

\* Broken variant: a call about no operation is never put away.
TakeEndOfQuestion ==
    /\ session.over /\ session.op # None
    /\ session' = NoSession
    /\ IF ops[session.op].attempt.phase # "none"
       THEN Submit("finish", session.op) ELSE UNCHANGED jobs
    /\ UNCHANGED <<ops, t3Vars, pending, cancelled, generation, recovered, dials, count>>

\* The end of a call: the attempt of the operation it ended with is finished.
TakeEnd ==
    /\ session.over
    /\ session' = NoSession
    /\ IF session.op # None /\ ops[session.op].attempt.phase # "none"
       THEN Submit("finish", session.op) ELSE UNCHANGED jobs
    /\ UNCHANGED <<ops, t3Vars, pending, cancelled, generation, recovered, dials, count>>

\* An idle service takes the waiting call, and scans when there is none.
TakeCall ==
    /\ session.kind = "none" /\ jobs = <<>> /\ pending # 0
    /\ Submit("incoming", pending)
    /\ pending' = 0
    /\ UNCHANGED <<ops, t3Vars, session, cancelled, generation, recovered, dials, count>>

StartScan ==
    /\ session.kind = "none" /\ jobs = <<>> /\ pending = 0
    /\ Submit("scan", None)
    /\ UNCHANGED <<ops, t3Vars, loopVars, recovered, dials, count>>

Tick == Callback \/ TakeEnd \/ TakeCall \/ StartScan

-----------------------------------------------------------------------------
(* T3 and the process.                                                     *)

Asks ==
    /\ \E r \in Requests :
         /\ ask[r] = "unasked" /\ threads[ThreadOf[r]] = "alive"
         /\ ask' = [ask EXCEPT ![r] = "open"]
    /\ UNCHANGED <<ops, threads, jobs, loopVars, recovered, dials, count>>

Closes ==
    /\ \E r \in Pending : ask' = [ask EXCEPT ![r] = "closed"]
    /\ UNCHANGED <<ops, threads, jobs, loopVars, recovered, dials, count>>

\* A thread is archived, or cannot be read any more.
LosesThread ==
    /\ count.losses < MaxLosses /\ Use("losses")
    /\ \E t \in Threads, state \in {"archived", "missing"} :
         /\ threads[t] = "alive"
         /\ threads' = [threads EXCEPT ![t] = state]
    /\ UNCHANGED <<ops, ask, jobs, loopVars, recovered, dials>>

\* What was reserved for sending and not handed to Telegram is lost with the loop.
Crash ==
    /\ count.crashes < MaxCrashes /\ Use("crashes")
    /\ jobs' = <<>> /\ session' = NoSession /\ pending' = 0
    /\ recovered' = FALSE
    /\ UNCHANGED <<ops, t3Vars, cancelled, generation, dials>>

-----------------------------------------------------------------------------
Init ==
    /\ ops = [r \in Requests |-> Unknown]
    /\ ask = [r \in Requests |-> "unasked"]
    /\ threads = [t \in Threads |-> "alive"]
    /\ jobs = <<>> /\ dials = <<>>
    /\ session = NoSession /\ pending = 0 /\ cancelled = {} /\ generation = 0
    /\ recovered = FALSE
    /\ count = [rings |-> 0, followups |-> 0, failures |-> 0, losses |-> 0, crashes |-> 0]

Voice == Followup \/ Converse
Telegram == TextArrives \/ CallRings \/ CallerGivesUp \/ CallEnds
T3 == Asks \/ Closes \/ LosesThread

Next == Worker \/ Voice \/ Tick \/ Telegram \/ T3 \/ Crash

Spec == Init /\ [][Next]_vars

\* The worker runs its jobs, the main loop ticks, and a call has a deadline.
FairSpec == Spec /\ WF_vars(Worker) /\ WF_vars(Tick) /\ WF_vars(CallEnds)

-----------------------------------------------------------------------------
(* Properties.                                                             *)

AttemptType ==
    [phase : {"none", "starting", "incoming", "finished"}, suppressed : BOOLEAN,
     call : Int, run : Nat]

OperationType ==
    [status : {"none", "open", "deferred", "completed", "stale"}, request : Requests,
     asked : SUBSET Requests, submitted : BOOLEAN, completed : BOOLEAN, deferred : BOOLEAN,
     attempt : AttemptType, first : {"none", "reserved"}]

JobType ==
    [kind : {"scan", "validate", "text", "finish", "incoming"}, op : Nat,
     generation : Nat, done : BOOLEAN]

\* Every variable keeps its type.
TypeOK ==
    /\ ops \in [Requests -> OperationType]
    /\ ask \in [Requests -> {"unasked", "open", "closed"}]
    /\ threads \in [Threads -> {"alive", "archived", "missing"}]
    /\ jobs \in Seq(JobType)
    /\ session \in [kind : {"none", "out", "in"}, call : Int, op : Requests \cup {None},
                    over : BOOLEAN]
    /\ pending \in Nat /\ cancelled \subseteq Nat /\ generation \in Nat
    /\ recovered \in BOOLEAN
    /\ dials \in Seq([op : Requests, request : Requests])
    /\ count \in [{"rings", "followups", "failures", "losses", "crashes"} -> Nat]

\* An operation is dialed at most once in its life: over texts, callbacks, failures
\* and restarts the reservation is never made or used again.
DialedOnce == \A i, j \in 1..Len(dials) : dials[i].op = dials[j].op => i = j

\* Does not hold: a question is dialed about at most once (docs/architecture.md:85,
\* README.md:45).  Two questions of a thread are two operations; one is dialed about, a text
\* answers the other, whose operation adopts the open question and is dialed about it again.
OneDialPerQuestion ==
    \A i, j \in 1..Len(dials) : dials[i].request = dials[j].request => i = j

Queued(kind) == \E i \in 1..Len(jobs) : jobs[i].kind = kind /\ ~jobs[i].done

\* The service never places a call while a text waits to be read, or over a call
\* that is coming in.
OutgoingYields ==
    [][session.kind = "none" /\ session'.kind = "out" => ~Queued("text") /\ pending = 0]_vars

\* A completed first scan leaves no open question whose attempt a former run began
\* without the message that says so.
RestartMadeUp ==
    recovered =>
        \A r \in Requests :
            LET o == ops[r]
            IN  o.status = "open" /\ o.attempt.phase # "none" /\ o.attempt.run < count.crashes
                  => o.first # "none" \/ o.attempt.suppressed

\* Once the user has written about a question, the attempt behind it, under way or over, is
\* not followed by a message that the question is still open: the step that concludes it
\* reserves none, and no later step does.  After a restart the message is not missing
\* either, where one is owed.
NoticeFits ==
    /\ []RestartMadeUp
    /\ [][\A r \in Requests :
            ops[r].attempt.suppressed /\ ops'[r].first = "reserved"
              => ops[r].first = "reserved"]_vars

\* A call that came in and was not given up is taken by the service, and the first scan of
\* a run, which picks up what a crash interrupted, is completed: neither keeps the other from
\* its turn.
ServiceGoesOn ==
    /\ pending # 0 ~> pending = 0
    /\ ~recovered ~> recovered
=============================================================================
