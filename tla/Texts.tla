---------------------------------- MODULE Texts ----------------------------------
(* The conversation by text messages: what the user writes, which operation and    *)
(* which question it is about, the answers, and the messages the service sends on  *)
(* its own (conversations.py: message, select, respond, queue_text, delivery,      *)
(* poll_dialogs, finish_attempt; service.py: event, tick, close).                  *)
(*                                                                                 *)
(* One T3 thread asks one question after the other.  A dialog turn is two steps    *)
(* here, which module Delegation opens up; calls, the subject of module Contact,   *)
(* show in what they answer and in the messages after them.  An edited text is one *)
(* more text.                                                                      *)
EXTENDS Naturals, Sequences, FiniteSets

CONSTANTS
    MaxRequest,  \* T3 asks the questions 1..MaxRequest
    MaxReplies,  \* bound: replies of T3's agent
    MaxOwn,      \* bound: messages of the service that answer no text
    MaxTexts,    \* bound: texts of the user
    MaxFaults    \* bound: requests to T3 that fail, crashes and exits

ASSUME BoundsAssumption ==
    /\ MaxRequest \in Nat \ {0}
    /\ {MaxReplies, MaxOwn, MaxTexts, MaxFaults} \subseteq Nat

Requests == 1..MaxRequest
Texts == 1..MaxTexts
None == 0

VARIABLES
    t3,        \* the thread: its latest question, whether that is open, its agent's replies
    ops,       \* operations as saved, by the request each was created for
    updates,   \* texts that were taken up, as saved
    outbox,    \* messages of the service, as saved
    telegram,  \* what Telegram made of each of them
    outgoing,  \* messages the worker has given to the main loop
    jobs,      \* texts the worker is to read, one after the other
    worker,    \* where it is in the first of them
    closing,   \* the service is being closed
    texts,     \* the user's texts: what each replies to and names, and when it was written
    history,   \* texts acted upon, texts given up
    faults

durable == <<ops, updates, outbox>>
vars == <<t3, durable, telegram, outgoing, jobs, worker, closing, texts, history, faults>>

Unknown == [status |-> "none", request |-> 1, asked |-> {}, submitted |-> FALSE,
            completed |-> FALSE, deferred |-> FALSE, uncertain |-> FALSE, baseline |-> 0, reply |-> 0, report |-> FALSE,
            notice |-> <<>>, silenced |-> FALSE]   \* an attempt owes no message
Idle == [step |-> "idle", op |-> None, decided |-> None]

Init ==
    /\ t3 = [asked |-> 0, open |-> FALSE, replies |-> 0]
    /\ ops = [r \in Requests |-> Unknown]
    /\ updates = [m \in Texts |-> "none"]
    /\ outbox = <<>> /\ telegram = <<>> /\ outgoing = <<>>
    /\ jobs = <<>> /\ worker = Idle /\ closing = FALSE
    /\ texts = <<>>
    /\ history = [acted |-> [m \in Texts |-> 0], dropped |-> {}]
    /\ faults = 0

-----------------------------------------------------------------------------
(* Operations and T3.                                                            *)

Pending(r) == t3.open /\ t3.asked = r
Contactable == {"open", "deferred"}

\* _observe_source: news of the agent, and a question that is adopted.
Observe(o) ==
    LET news == t3.replies > o.baseline
        heard == [o EXCEPT !.reply = IF news THEN t3.replies ELSE @, !.report = @ \/ news]
    IN  IF ~t3.open THEN heard
        ELSE [heard EXCEPT !.request = t3.asked, !.asked = @ \cup {t3.asked},
                           !.submitted = FALSE, !.completed = FALSE, !.report = TRUE,
                           !.reply = IF news THEN t3.replies ELSE 0]

\* What the dialog knows goes before what its question has become: an operation the user
\* deferred does not turn stale.
Refresh(o) ==
    IF o.status = "completed" /\ o.completed THEN o
    ELSE LET d == IF o.submitted THEN Observe(o) ELSE o
         IN  [d EXCEPT !.status =
                IF d.completed THEN "completed"
                ELSE IF d.deferred THEN "deferred"
                ELSE IF ~o.submitted /\ ~Pending(o.request) THEN "stale"
                ELSE IF @ = "completed" THEN "open" ELSE @]

OpenOperations(O) == [r \in Requests |-> IF O[r].status \in Contactable THEN Refresh(O[r]) ELSE O[r]]

\* discover: the pending question becomes an operation, unless one has had it.
Discover(O, due) ==
    LET R == IF t3.open
             THEN [r \in Requests |-> IF O[r].status \in Contactable /\ O[r].submitted
                                      THEN Refresh(O[r]) ELSE O[r]]
             ELSE O
        new(r) == due /\ Pending(r) /\ \A q \in Requests : r \notin R[q].asked
    IN  OpenOperations([r \in Requests |->
            IF new(r) THEN [Unknown EXCEPT !.status = "open", !.request = r, !.asked = {r},
                                           !.baseline = t3.replies]
            ELSE R[r]])

-----------------------------------------------------------------------------
(* The outbox.                                                                   *)

\* What a message about an operation tells: the question and the agent's reply.
NoticeKey(o) == <<o.request, o.reply>>

\* A message is recorded, with the notice of its operation, and given to the main loop.
\* `to` is the text it answers.
QueueText(O, r, purpose, to) ==
    /\ outbox' = Append(outbox,
          [op |-> r, request |-> IF r = None THEN None ELSE O[r].request, purpose |-> purpose,
           status |-> "reserved", to |-> to,
           notice |-> IF r = None THEN <<>> ELSE NoticeKey(O[r])])
    /\ ops' = IF r = None THEN O
              ELSE [O EXCEPT ![r].notice = NoticeKey(O[r]),
                             ![r].silenced = @ \/ purpose = "first"]
    /\ outgoing' = Append(outgoing, Len(outbox'))
    /\ telegram' = Append(telegram, "none")

-----------------------------------------------------------------------------
(* The user, T3 and Telegram.                                                    *)

Shown == {i \in DOMAIN telegram : telegram[i] = "sent"}
Names == {outbox[i].op : i \in Shown} \cup {None}

\* A text may reply to a message and may name an operation.
WriteText(reply, named) ==
    /\ Len(texts) < MaxTexts /\ ~closing
    /\ texts' = Append(texts, [reply |-> reply, named |-> named, written |-> t3.asked])
    /\ jobs' = Append(jobs, Len(texts'))
    /\ UNCHANGED <<t3, durable, telegram, outgoing, worker, closing, history, faults>>

Asks ==
    /\ ~t3.open /\ t3.asked < MaxRequest
    /\ t3' = [t3 EXCEPT !.asked = @ + 1, !.open = TRUE]
    /\ UNCHANGED <<durable, telegram, outgoing, jobs, worker, closing, texts, history, faults>>

\* Another client answers the question, or the agent takes it back.
Closes ==
    /\ t3.open /\ t3' = [t3 EXCEPT !.open = FALSE]
    /\ UNCHANGED <<durable, telegram, outgoing, jobs, worker, closing, texts, history, faults>>

\* The agent says nothing while it waits for an answer.
Replies ==
    /\ ~t3.open /\ t3.asked > 0 /\ t3.replies < MaxReplies /\ t3' = [t3 EXCEPT !.replies = @ + 1]
    /\ UNCHANGED <<durable, telegram, outgoing, jobs, worker, closing, texts, history, faults>>

\* The message reaches the user, and delivery records the id it has; one that fails stays
\* "given".
Sends(i) ==
    /\ telegram[i] = "given" /\ \A j \in 1..(i - 1) : telegram[j] # "given"
    /\ telegram' = [telegram EXCEPT ![i] = "sent"]
    /\ outbox' = [outbox EXCEPT ![i].status = "sent"]
    /\ UNCHANGED <<t3, ops, updates, outgoing, jobs, worker, closing, texts, history, faults>>

-----------------------------------------------------------------------------
(* The worker: texts.                                                            *)

At(step) == jobs # <<>> /\ worker.step = step /\ ~closing
Done == jobs' = Tail(jobs) /\ worker' = Idle
Goto(step, r) == worker' = [Idle EXCEPT !.step = step, !.op = r] /\ UNCHANGED jobs
world == <<t3, closing, texts>>
Text == texts[Head(jobs)]

\* Broken variant: a text is recorded only when it has been answered.
TakeTextUnsaved ==
    /\ At("idle")
    /\ IF updates[Head(jobs)] # "none" THEN Done ELSE Goto("reading", None)
    /\ UNCHANGED <<world, durable, telegram, outgoing, history, faults>>

\* A text is taken up once.
TakeText ==
    /\ At("idle")
    /\ IF updates[Head(jobs)] # "none" THEN Done /\ UNCHANGED updates
       ELSE Goto("reading", None) /\ updates' = [updates EXCEPT ![Head(jobs)] = "processing"]
    /\ UNCHANGED <<world, ops, outbox, telegram, outgoing, history, faults>>

Acted == history' = [history EXCEPT !.acted[Head(jobs)] = @ + 1]

\* A message to a thread, a question about the status: the answer is about no operation.
ReadOther ==
    /\ At("reading")
    /\ ops' = ops \/ (Text.reply = None /\ ops' = Discover(ops, TRUE))
    /\ Goto("queueing", None) /\ Acted
    /\ UNCHANGED <<world, updates, outbox, telegram, outgoing, faults>>

\* select: the operations that the text names and that it replies to must be one; a text
\* that does neither is about the only one there is.
Linked == IF Text.reply # None /\ outbox[Text.reply].status = "sent"
          THEN {outbox[Text.reply].op} \ {None} ELSE {}
Select(O) ==
    LET candidates == ({Text.named} \ {None}) \cup Linked
        available == {r \in Requests : O[r].status \in Contactable}
    IN  IF Cardinality(candidates) = 1 THEN candidates
        ELSE IF candidates = {} /\ Text.reply = None /\ Cardinality(available) = 1 THEN available
        ELSE {}

\* Broken variant: the question behind the message replied to is not looked at.
IsOlderNever(o) == FALSE

\* The text replies to a message about another question of the operation.
IsOlder(o) == Linked # {} /\ outbox[Text.reply].request # o.request

ReadText ==
    /\ At("reading")
    /\ LET found == Discover(ops, TRUE)
       IN  \/ /\ Select(found) = {}
              /\ ops' = found /\ Goto("queueing", None) /\ Acted /\ UNCHANGED updates
           \/ \E r \in Select(found) :
                IF Text.written < r
                THEN /\ ops' = found /\ Done
                     /\ updates' = [updates EXCEPT ![Head(jobs)] = "stale"] /\ UNCHANGED history
                ELSE IF IsOlder(found[r])
                THEN ops' = found /\ Goto("queueing", r) /\ Acted /\ UNCHANGED updates
                ELSE /\ \E attempt \in BOOLEAN :   \* there is one to silence
                          ops' = [found EXCEPT ![r].silenced = @ \/ attempt]
                     /\ Goto("responding", r) /\ UNCHANGED <<updates, history>>
    /\ UNCHANGED <<world, outbox, telegram, outgoing, faults>>

Decides(step, o) ==
    worker' = [step |-> step, op |-> worker.op, decided |-> o.request] /\ UNCHANGED jobs

\* respond, up to the end of the dialog's request to T3: what is said, deferred, answered,
\* or sent with an outcome that stays unknown.
Respond ==
    /\ At("responding")
    /\ LET r == worker.op
           seen == Refresh(ops[r])
           fresh == [seen EXCEPT !.status = "open", !.completed = FALSE, !.deferred = FALSE]
           moved == seen.status = "stale" \/ seen.request # ops[r].request
           closed == seen.status = "completed" /\ t3.open
           ready == /\ ~moved /\ ~closed /\ ~seen.uncertain
                    /\ seen.submitted \/ Pending(seen.request)
       IN  \/ /\ ops' = [ops EXCEPT ![r] = IF moved \/ closed THEN seen ELSE fresh]
              /\ Goto("queueing", r) /\ Acted /\ UNCHANGED t3
           \/ /\ ~moved
              /\ \E o \in {seen} \cup {n \in {fresh} : ~closed} :
                   ops' = [ops EXCEPT ![r] = [o EXCEPT !.status = "deferred", !.deferred = TRUE]]
              /\ Goto("queueing", r) /\ Acted /\ UNCHANGED t3
           \/ /\ ready
              /\ \E decision \in BOOLEAN :
                   ops' = [ops EXCEPT ![r] = [fresh EXCEPT !.completed = decision,
                                                           !.submitted = TRUE,
                                                           !.baseline = t3.replies]]
              /\ t3' = [t3 EXCEPT !.open = FALSE]
              /\ Decides("awaiting", seen) /\ Acted
           \/ /\ ready
              /\ ops' = [ops EXCEPT ![r] = [fresh EXCEPT !.uncertain = TRUE]]
              /\ t3' \in {t3, [t3 EXCEPT !.open = FALSE]}
              /\ Decides("queueing", seen) /\ Acted
    /\ UNCHANGED <<closing, texts, updates, outbox, telegram, outgoing, faults>>

\* The dialog waits for the agent; a question that comes meanwhile is adopted.
Awaits ==
    /\ At("awaiting")
    /\ LET o == Observe(ops[worker.op])
       IN  ops' = [ops EXCEPT ![worker.op] =
                      [o EXCEPT !.status = IF o.completed THEN "completed" ELSE @]]
    /\ Goto("queueing", worker.op)
    /\ UNCHANGED <<world, updates, outbox, telegram, outgoing, history, faults>>

AnswerText ==
    /\ At("queueing")
    /\ QueueText(ops, worker.op, "reply", Head(jobs))
    /\ updates' = [updates EXCEPT ![Head(jobs)] = "handled"]
    /\ Done
    /\ UNCHANGED <<world, history, faults>>

\* T3 cannot be read: the job ends, and the text is not taken up again.
TextFails ==
    /\ \E step \in {"reading", "responding"} : At(step)
    /\ faults < MaxFaults /\ faults' = faults + 1
    /\ history' = [history EXCEPT !.dropped = @ \cup {Head(jobs)}]
    /\ Done
    /\ UNCHANGED <<world, durable, telegram, outgoing>>

-----------------------------------------------------------------------------
(* The worker: scans and the ends of attempts.                                   *)

\* Broken variant: whatever the user was told last.
HasNewsAlways(o) == o.notice # <<>> /\ ~o.uncertain /\ o.report

\* The agent has said something since the last message about the operation.
HasNews(o) == o.notice # <<>> /\ ~o.uncertain /\ o.report /\ o.notice # NoticeKey(o)

OwnBound == Cardinality({i \in DOMAIN outbox : outbox[i].to = None}) < MaxOwn

\* discover and poll_dialogs, with a question that is due and one that is not; what two
\* operations have to tell takes two scans.  A tick hands over what is to be sent before.
Scan(due) ==
    /\ jobs = <<>> /\ outgoing = <<>> /\ ~closing
    /\ LET found == Discover(ops, due)
           news == {r \in Requests : found[r].status = "open" /\ HasNews(found[r])}
       IN  \/ \E r \in news : OwnBound /\ QueueText(found, r, "source_reply", None)
           \/ news = {} /\ ops' = found /\ UNCHANGED <<outbox, telegram, outgoing>>
    /\ UNCHANGED <<world, jobs, worker, updates, history, faults>>

\* A call answers the question in the dialog of the texts; one of the user's own is a new
\* attempt.
CallAnswers(r) ==
    /\ jobs = <<>> /\ ~closing
    /\ LET found == OpenOperations(ops)
       IN  /\ found[r].status \in Contactable /\ Pending(found[r].request) /\ ~found[r].uncertain
           /\ \E decision \in BOOLEAN :
                ops' = [found EXCEPT ![r].status = IF decision THEN "completed" ELSE "open",
                                     ![r].completed = decision, ![r].deferred = FALSE,
                                     ![r].submitted = TRUE, ![r].baseline = t3.replies,
                                     ![r].silenced = FALSE]
    /\ t3' = [t3 EXCEPT !.open = FALSE]
    /\ UNCHANGED <<closing, texts, jobs, worker, updates, outbox, telegram, outgoing, history, faults>>

\* finish_attempt, at the end of a call or after a restart: one message, unless the user
\* has written since.
FinishAttempt(r) ==
    /\ jobs = <<>> /\ ~closing
    /\ ops[r].status # "none" /\ ~ops[r].silenced
    /\ LET found == [ops EXCEPT ![r] = Refresh(@)]
       IN  IF found[r].status = "open" THEN OwnBound /\ QueueText(found, r, "first", None)
           ELSE ops' = found /\ UNCHANGED <<outbox, telegram, outgoing>>
    /\ UNCHANGED <<world, jobs, worker, updates, history, faults>>

-----------------------------------------------------------------------------
(* The main loop and the process.                                                *)

Give(T, Q) == [i \in DOMAIN T |-> IF \E n \in DOMAIN Q : Q[n] = i THEN "given" ELSE T[i]]

\* tick hands the messages over to TDLib.
HandOver ==
    /\ outgoing # <<>>
    /\ telegram' = Give(telegram, outgoing) /\ outgoing' = <<>>
    /\ UNCHANGED <<t3, durable, jobs, worker, closing, texts, history, faults>>

Waiting(m) == (\E i \in DOMAIN jobs : jobs[i] = m) \/ updates[m] = "processing"

\* close: the running job is waited for, the others are cancelled.
Close ==
    /\ worker = Idle /\ ~closing
    /\ faults < MaxFaults /\ faults' = faults + 1
    /\ closing' = TRUE /\ jobs' = <<>>
    /\ history' = [history EXCEPT !.dropped = @ \cup {m \in Texts : Waiting(m)}]
    /\ UNCHANGED <<t3, durable, telegram, outgoing, worker, texts>>

\* Of a message whose first id was not recorded the service hears no more.
Untold(state) == IF state = "given" THEN {"given", "sent"} ELSE {state}
Stops ==
    /\ telegram' \in {T \in [DOMAIN telegram -> {"none", "given", "sent"}] :
                        \A i \in DOMAIN T : T[i] \in Untold(telegram[i])}
    /\ jobs' \in {<<>>} \cup {<<m>> : m \in {n \in Texts : Waiting(n)}}
    /\ outgoing' = <<>> /\ worker' = Idle /\ closing' = FALSE
    /\ UNCHANGED <<t3, durable, texts>>

\* Broken variant: what is still to be sent is not.
ExitUndrained == closing /\ Stops /\ UNCHANGED <<history, faults>>

\* close goes on until all messages are handed over; the next start reads what is saved.
Exit == closing /\ outgoing = <<>> /\ Stops /\ UNCHANGED <<history, faults>>

Crash ==
    /\ faults < MaxFaults /\ faults' = faults + 1
    /\ Stops
    /\ history' = [history EXCEPT !.dropped = @ \cup
                      {m \in Texts : Waiting(m) \/ \E n \in DOMAIN outgoing : outbox[outgoing[n]].to = m}]

-----------------------------------------------------------------------------
Worker == TakeText \/ ReadOther \/ ReadText \/ Respond \/ Awaits \/ AnswerText \/ TextFails

Next ==
    \/ \E reply \in Shown \cup {None}, named \in Names : WriteText(reply, named)
    \/ Asks \/ Closes \/ Replies
    \/ \E i \in DOMAIN telegram : Sends(i)
    \/ Worker
    \/ \E due \in BOOLEAN : Scan(due)
    \/ \E r \in Requests : CallAnswers(r) \/ FinishAttempt(r)
    \/ HandOver \/ Close \/ Exit \/ Crash

Spec == Init /\ [][Next]_vars

\* The worker runs its jobs, whose requests to T3 have timeouts, and the main loop ticks.
FairSpec == Spec /\ WF_vars(Worker) /\ WF_vars(HandOver)

-----------------------------------------------------------------------------
(* Properties.                                                                   *)

OperationType ==
    [status : {"none", "open", "deferred", "completed", "stale"}, request : Requests,
     asked : SUBSET Requests, submitted : BOOLEAN, completed : BOOLEAN, deferred : BOOLEAN,
     uncertain : BOOLEAN,
     baseline : 0..MaxReplies, reply : 0..MaxReplies, report : BOOLEAN,
     notice : {<<>>} \cup (Requests \X (0..MaxReplies)),
     silenced : BOOLEAN]

ItemType ==
    [op : Requests \cup {None}, request : Requests \cup {None},
     purpose : {"reply", "first", "source_reply"},
     status : {"reserved", "sent"},
     to : Texts \cup {None}, notice : {<<>>} \cup (Requests \X (0..MaxReplies))]

\* Every variable keeps its type, and a text that is being read is saved as such.
TypeOK ==
    /\ ops \in [Requests -> OperationType]
    /\ updates \in [Texts -> {"none", "processing", "handled", "stale"}]
    /\ \A i \in DOMAIN outbox : outbox[i] \in ItemType
    /\ worker.step # "idle" => jobs # <<>> /\ updates[Head(jobs)] = "processing"
    /\ Len(telegram) = Len(outbox)
    /\ history.dropped \subseteq Texts

\* "A crash cannot replay a decision" (conversations.py:450): a text is acted upon at most
\* once, though the service stops at any point and TDLib tells of the text again.
ActedOnce == \A m \in Texts : history.acted[m] <= 1

\* A text that replies to a message about a question decides no other, though meanwhile
\* T3 asks the next one, which a scan, the text itself or an answer that is waited for
\* makes the question of the same operation.  (A text that also names the operation may
\* reply to a message the service has forgotten.  docs/telegram-service.md:11)
ReplyFits ==
    worker.decided # None /\ Text.reply # None /\ Text.named = None
    => worker.decided = outbox[Text.reply].request

\* What the service writes on its own about the agent's replies is news: no earlier message
\* about the operation, an answer or an own one, was sent with the same reply in it or
\* already known, over scans, texts and restarts (conversations.py:269-275).
OnlyNews ==
    \A i, j \in DOMAIN outbox :
        /\ i < j /\ outbox[j].purpose = "source_reply" /\ outbox[i].op = outbox[j].op
        => outbox[i].notice # outbox[j].notice

\* A text gets its answer on the way to Telegram, also when the service is being closed,
\* unless T3 could not be read, the service stopped before it was read or crashed, or it
\* was written before the question.
TextAnswered ==
    \A m \in Texts :
        Waiting(m) ~> \/ updates[m] = "stale" \/ m \in history.dropped
                      \/ \E i \in DOMAIN outbox : outbox[i].to = m /\ telegram[i] # "none"
=============================================================================
