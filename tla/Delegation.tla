------------------------------ MODULE Delegation ------------------------------
(***************************************************************************)
(* One durable conversation about one T3 thread: the T3Delegation object   *)
(* of eotm/t3.py with the two callers that serialise on the worker lock,   *)
(* VoiceConversation._respond (service.py) and Conversations.message       *)
(* (conversations.py), and the scans that refresh it.  `op` is the         *)
(* operation in memory, `saved` its checkpoint in conversations.json: a    *)
(* crash goes back to it.  A call of the dialog is not atomic: it reads    *)
(* several snapshots, waits for a language model, dispatches, and polls,   *)
(* while T3, the user and other T3 clients move on.                        *)
(*                                                                         *)
(* The structuring model may return anything parse_coordinator accepts.    *)
(* Commands travel through `inbox`: T3 may execute one late or never,      *)
(* whatever the RPC reported.                                              *)
(***************************************************************************)
EXTENDS Integers, FiniteSets

CONSTANTS
    Protocol,    \* T3's orchestration protocol, 1 or 2: only 2 reads an answer back
    MaxRequest,  \* T3 request ids are 1..MaxRequest, in the order pending_requests sorts them
    MaxInputs,   \* bound: utterances and text messages of the user
    MaxCalls,    \* bound: phone calls
    MaxVersions, \* bound: times T3 replaces an open question under its id
    MaxCrashes   \* bound: crashes of the service

ASSUME ConstantsAssumption ==
    /\ Protocol \in {1, 2}
    /\ MaxRequest \in Nat \ {0}
    /\ {MaxInputs, MaxCalls, MaxVersions, MaxCrashes} \subseteq Nat

VARIABLES
    op,         \* the operation and its dialog in the service's memory
    saved,      \* the same, as last checkpointed
    pc,         \* where the dialog call in progress stands
    turn,       \* that call: channel, transcript revision, input it is about
    call,       \* the phone call: on, its number, input_revision, last utterance
    heard,      \* the turn the phone's voice has taken from the transcript, before its lock
    texts,      \* text messages not yet processed
    inputs,     \* number of utterances and texts so far
    thread,     \* the T3 thread as T3 has it
    inbox,      \* commands on their way to T3
    dispatched, \* per request: answer commands handed to the transport so far
    sent,       \* history: those commands
    crashes

userVars == <<call, heard, texts, inputs>>
t3Vars == <<thread, inbox, dispatched, sent>>
vars == <<op, saved, pc, turn, call, heard, texts, inputs, thread, inbox, dispatched, sent,
          crashes>>

Requests == 1..MaxRequest
NoRevision == -1
Intents == {"decision", "clarification"}
Statuses == {"open", "deferred", "completed", "stale"}
Steps == {"idle", "respond", "start", "coordinate", "decide", "send_answer",
          "await", "send_turn", "turn_receipt", "watch"}

\* adopted_by and adopted_at are history: who took the current question into the
\* dialog, or cleared the mark of that since, and how many inputs there had been.
NewOperation ==
    [status |-> "open", request |-> 1, version |-> 0, submitted |-> FALSE,
     completed |-> FALSE, deferred |-> FALSE, uncertain |-> FALSE, delivered |-> {},
     adopted |-> NoRevision, adopted_by |-> "discovery", adopted_at |-> 0]

NoTurn == [channel |-> "none", call |-> 0, revision |-> 0, input |-> 0,
           intent |-> "clarification"]

Pending == {r \in Requests : thread.alive /\ thread.ask[r] = "open"}
LowestOf(S) == CHOOSE r \in S : \A q \in S : r <= q

\* dialog.cancelled and dialog.revision: those of the call the turn belongs to, which are
\* taken back when the turn is over.
Over(t) == t.channel = "voice" /\ ~(call.on /\ call.number = t.call)
Cancelled == Over(turn)
Revision == IF turn.channel = "voice" THEN IF Cancelled THEN turn.revision ELSE call.revision
            ELSE 0

-----------------------------------------------------------------------------
(* Reading T3.                                                             *)

\* prepare_handoff: the dialog is about this request, as it reads now.
Handoff(o, r) == [o EXCEPT !.request = r, !.version = thread.version[r]]

\* Broken variant: the question is taken over with what is known of the old one.
AdoptKeepingMark(o, r, revision, who) ==
    [Handoff(o, r) EXCEPT !.submitted = FALSE, !.completed = FALSE,
                          !.adopted_by = who, !.adopted_at = inputs]

\* Another question takes the place of the current one; speech up to this revision
\* does not answer it.
Adopt(o, r, revision, who) ==
    [Handoff(o, r) EXCEPT !.submitted = FALSE, !.completed = FALSE, !.adopted = revision,
                          !.adopted_by = who, !.adopted_at = inputs]

\* _observe_source: a pending request that was not answered here is adopted.
Observe(o, revision, who) ==
    LET fresh == Pending \ o.delivered
    IN  IF fresh = {} THEN o ELSE Adopt(o, LowestOf(fresh), revision, who)

\* Conversations.refresh, for a thread that is not archived or deleted.
Refresh(o) ==
    IF o.status = "completed" /\ o.completed THEN o
    ELSE LET d == IF o.submitted THEN Observe(o, 0, "refresh") ELSE o
             gone == ~o.submitted /\ o.request \notin Pending
             status == CASE d.completed -> "completed"
                         [] ~d.completed /\ d.deferred -> "deferred"
                         [] ~d.completed /\ ~d.deferred /\ gone -> "stale"
                         [] ~d.completed /\ ~d.deferred /\ ~gone /\ d.status = "completed"
                              -> "open"
                         [] OTHER -> d.status
         IN  [d EXCEPT !.status = status]

Contactable(o) == o.status \in {"open", "deferred"}

-----------------------------------------------------------------------------
(* The end of a dialog call: its caller stores the outcome and checkpoints *)
(* the dialog, also when the call ended with a GateError it swallowed.     *)

\* Broken variant: an outcome the callers do not know.
OutcomeUnconfirmed(o) ==
    [o EXCEPT !.status = IF o.uncertain THEN "unconfirmed"
                         ELSE IF o.completed THEN "completed" ELSE "open"]

Outcome(o) ==
    [o EXCEPT !.status = IF o.completed THEN "completed"
                         ELSE IF o.deferred THEN "deferred" ELSE "open"]

\* Broken variant: the mark of a mutation under way ends with the call.
ReturnUnmarked(o) ==
    /\ op' = [Outcome(o) EXCEPT !.uncertain = FALSE] /\ saved' = op'
    /\ pc' = "idle" /\ turn' = NoTurn

Return(o) ==
    /\ op' = Outcome(o) /\ saved' = Outcome(o)
    /\ pc' = "idle" /\ turn' = NoTurn

Leave(o) == op' = o /\ saved' = o /\ pc' = "idle" /\ turn' = NoTurn

Abort == UNCHANGED <<op, saved>> /\ pc' = "idle" /\ turn' = NoTurn

Goto(step) == pc' = step /\ turn' = turn

-----------------------------------------------------------------------------
(* The callers.                                                            *)

\* A scan: discover, open_operations and poll_dialogs refresh the operation; a
\* thread that went away makes it stale.
Scan ==
    /\ pc = "idle" /\ op.status \notin {"stale", "completed"}
    /\ Leave(IF thread.alive THEN Refresh(op) ELSE [op EXCEPT !.status = "stale"])
    /\ UNCHANGED <<userVars, t3Vars, crashes>>

\* The voice takes transcript and revision, one turn at a time, and waits for the lock
\* behind whatever the worker is at: a scan, or a text.
VoiceTurn ==
    /\ heard = NoTurn /\ turn.channel # "voice"
    /\ call.on /\ call.revision > 0
    /\ heard' = [NoTurn EXCEPT !.channel = "voice", !.call = call.number,
                               !.revision = call.revision, !.input = call.last]
    /\ UNCHANGED <<op, saved, pc, turn, call, texts, inputs, t3Vars, crashes>>

\* With the lock: the open operations are refreshed before the dialog learns the
\* call's revision, so a question adopted here is adopted at revision 0.
VoiceRespond ==
    /\ pc = "idle" /\ heard # NoTurn
    /\ heard' = NoTurn
    /\ \/ Abort   \* the call is over, nothing is open, or a snapshot cannot be read
       \/ /\ ~Over(heard) /\ op.status # "completed" /\ ~thread.alive
          /\ Leave([op EXCEPT !.status = "stale"])
       \/ /\ ~Over(heard) /\ op.status # "completed" /\ thread.alive
          /\ LET o == Refresh(op)
             IN  IF Contactable(o)
                 THEN /\ op' = [o EXCEPT !.deferred = FALSE] /\ saved' = o
                      /\ pc' = "start" /\ turn' = heard
                 ELSE Leave(o)
    /\ UNCHANGED <<call, texts, inputs, t3Vars, crashes>>

\* message(): discover and select refresh the operation before respond() looks at
\* it; a reply to a notice about another question is turned away.
TakeText ==
    /\ pc = "idle" /\ texts # {}
    /\ LET m == LowestOf(texts)
           o == IF Contactable(op) THEN Refresh(op) ELSE op
       IN  /\ texts' = texts \ {m}
           /\ \/ Abort
              \/ thread.alive /\ Leave(o)
              \/ /\ thread.alive
                 /\ op' = o /\ saved' = o
                 /\ pc' = "respond"
                 /\ turn' = [NoTurn EXCEPT !.channel = "text", !.input = m]
    /\ UNCHANGED <<call, heard, inputs, t3Vars, crashes>>

\* respond(): its own refresh, the deferral words, a late correction of a
\* completed decision, and fresh input that clears the adoption mark.
Respond ==
    /\ pc = "respond"
    /\ \/ Abort
       \/ /\ thread.alive
          /\ LET o == Refresh(op)
                 fresh == [o EXCEPT !.status = "open", !.deferred = FALSE,
                                    !.adopted = NoRevision, !.adopted_by = "text",
                                    !.completed = @ /\ o.status # "completed"]
             IN  \/ /\ o.status = "stale" \/ o.request # op.request
                    /\ Leave(o)
                 \/ /\ o.status # "stale" /\ o.request = op.request
                    /\ Leave([o EXCEPT !.deferred = TRUE, !.status = "deferred"])
                 \/ /\ o.status = "completed" /\ o.request = op.request /\ Pending # {}
                    /\ Leave(o)
                 \/ /\ o.status # "stale" /\ o.request = op.request
                    /\ o.status = "completed" => Pending = {}
                    /\ op' = fresh /\ saved' = fresh /\ Goto("start")
    /\ UNCHANGED <<userVars, t3Vars, crashes>>

-----------------------------------------------------------------------------
(* T3Delegation.__call__.                                                  *)

StartDialog ==
    /\ pc = "start"
    /\ \/ (Cancelled \/ op.uncertain) /\ Return(op)
       \/ op.submitted /\ Return(op)   \* the snapshot cannot be read
       \/ /\ ~Cancelled /\ ~op.uncertain
          /\ op.submitted => thread.alive
          /\ LET o == IF op.submitted THEN Observe(op, Revision, turn.channel) ELSE op
             IN  IF o # op \/ (op.submitted /\ o.completed) \/ turn.revision <= o.adopted
                 THEN Return(o)
                 ELSE Goto("coordinate") /\ UNCHANGED <<op, saved>>
    /\ UNCHANGED <<userVars, t3Vars, crashes>>

\* The slow fallback of the structuring request: the dialog is checkpointed with the
\* coordination thread it created (which module Settle is about).
CreateCoordinator == saved' = op /\ UNCHANGED <<op, pc, turn>>

Coordinate ==
    /\ pc = "coordinate"
    /\ \/ CreateCoordinator
       \/ Return(op)   \* a failure, or a reply without an answer
       \/ Return([op EXCEPT !.deferred = TRUE])
       \/ \E i \in Intents :
            /\ turn' = [turn EXCEPT !.intent = i]
            /\ pc' = "decide"
            /\ UNCHANGED <<op, saved>>
    /\ UNCHANGED <<userVars, t3Vars, crashes>>

\* Broken variant: the mark is not saved before the command is sent.
DecideUnsaved ==
    /\ pc = "decide"
    /\ LET marked == [op EXCEPT !.uncertain = TRUE]
       IN  \/ Return(op)
           \/ /\ ~Cancelled /\ Revision = turn.revision /\ thread.alive
              /\ op.submitted => Pending = {} /\ thread.turn = "completed"
              /\ op' = marked /\ saved' = saved
              /\ Goto(IF op.submitted THEN "send_turn" ELSE "send_answer")
    /\ UNCHANGED <<userVars, t3Vars, crashes>>

\* The last checks on the user's side, a fresh snapshot, and the mark that a
\* mutation is under way, saved before anything is dispatched.
Decide ==
    /\ pc = "decide"
    /\ LET marked == [op EXCEPT !.uncertain = TRUE]
       IN  \/ Return(op)   \* cancelled, or the snapshot cannot be read
           \/ /\ ~Cancelled /\ Revision = turn.revision /\ thread.alive /\ ~op.submitted
              /\ op' = marked /\ saved' = marked /\ Goto("send_answer")
           \/ /\ ~Cancelled /\ Revision = turn.revision /\ thread.alive /\ op.submitted
              /\ IF Pending # {}
                 THEN Return(Observe(op, Revision, turn.channel))
                 ELSE IF thread.turn # "completed" THEN Return(op)
                      ELSE op' = marked /\ saved' = marked /\ Goto("send_turn")
    /\ UNCHANGED <<userVars, t3Vars, crashes>>

Command(kind) == [kind |-> kind, request |-> op.request, intent |-> turn.intent]

\* return_answer: prepare_answer rechecks the question on a fresh snapshot.
SendAnswer ==
    /\ pc = "send_answer"
    /\ \/ Return(op) /\ UNCHANGED t3Vars
       \/ /\ op.request \in Pending /\ thread.version[op.request] = op.version
          /\ dispatched' = [dispatched EXCEPT ![op.request] = @ + 1]
          /\ inbox' = inbox \cup {Command("answer")}
          /\ sent' = sent \cup {Command("answer")}
          /\ Goto("await")
          /\ UNCHANGED <<op, saved, thread>>
    /\ UNCHANGED <<userVars, crashes>>

Confirm(o) ==
    LET done == [o EXCEPT !.submitted = TRUE, !.completed = turn.intent = "decision",
                          !.uncertain = FALSE]
    IN  /\ saved' = done
        /\ op' = [done EXCEPT !.adopted = NoRevision]
        /\ Goto("watch")

\* Broken variant: any answer to the question counts as this one.
AwaitResolved ==
    /\ pc = "await"
    /\ \/ Return(op)
       \/ /\ thread.ask[op.request] = "resolved"
          /\ Confirm([op EXCEPT !.delivered = @ \cup {op.request}])
    /\ UNCHANGED <<userVars, t3Vars, crashes>>

\* The answer counts as delivered once T3's own record shows the question as resolved,
\* under protocol 2 with the same answers, whoever gave them; no receipt, a rejection, a
\* hangup and a timeout do not count.
Await ==
    /\ pc = "await"
    /\ \/ Return(op)
       \/ /\ thread.ask[op.request] = "resolved"
          /\ Protocol = 2 => thread.answer[op.request] = turn.intent
          /\ Confirm([op EXCEPT !.delivered = @ \cup {op.request}])
    /\ UNCHANGED <<userVars, t3Vars, crashes>>

SendTurn ==
    /\ pc = "send_turn"
    /\ \/ Return(op) /\ UNCHANGED inbox
       \/ /\ thread.alive /\ thread.turn = "completed"
          /\ inbox' = inbox \cup {Command("turn")}
          /\ Goto("turn_receipt")
          /\ UNCHANGED <<op, saved>>
    /\ UNCHANGED <<userVars, thread, dispatched, sent, crashes>>

TurnReceipt ==
    /\ pc = "turn_receipt"
    /\ \/ Return(op)
       \/ /\ Command("turn") \in thread.accepted
          /\ Confirm(op)
    /\ UNCHANGED <<userVars, t3Vars, crashes>>

Watch ==
    /\ pc = "watch"
    /\ \/ Return(op)
       \/ thread.alive /\ Return(Observe(op, Revision, turn.channel))
    /\ UNCHANGED <<userVars, t3Vars, crashes>>

-----------------------------------------------------------------------------
(* The user, T3 and the process.                                           *)

\* A call is taken up or placed whatever texts wait or are worked on.  Stopping the media
\* of the call before it has waited for that call's last turn, or the service would have
\* stopped.
StartCall ==
    /\ ~call.on /\ call.number < MaxCalls
    /\ heard = NoTurn /\ turn.channel # "voice"
    /\ call' = [call EXCEPT !.on = TRUE, !.number = @ + 1, !.revision = 0]
    /\ UNCHANGED <<op, saved, pc, turn, heard, texts, inputs, t3Vars, crashes>>

Speak ==
    /\ call.on /\ inputs < MaxInputs
    /\ inputs' = inputs + 1
    /\ call' = [call EXCEPT !.revision = @ + 1, !.last = inputs']
    /\ UNCHANGED <<op, saved, pc, turn, heard, texts, t3Vars, crashes>>

EndCall ==
    /\ call.on
    /\ call' = [call EXCEPT !.on = FALSE]
    /\ UNCHANGED <<op, saved, pc, turn, heard, texts, inputs, t3Vars, crashes>>

\* A text message ends a call.
Text ==
    /\ inputs < MaxInputs
    /\ inputs' = inputs + 1
    /\ texts' = texts \cup {inputs'}
    /\ call' = [call EXCEPT !.on = FALSE]
    /\ UNCHANGED <<op, saved, pc, turn, heard, t3Vars, crashes>>

T3Asks ==
    /\ thread.alive
    /\ \E r \in Requests :
         /\ thread.ask[r] = "unasked"
         /\ thread' = [thread EXCEPT !.ask[r] = "open", !.turn = "running"]
    /\ UNCHANGED <<op, saved, pc, turn, userVars, inbox, dispatched, sent, crashes>>

\* Another T3 client answers, maybe just what is on its way from here; the provider fails
\* the request; or T3 replaces the question under the same id.
T3Closes ==
    /\ \E r \in Pending :
         \/ \E a \in {"other"} \cup {c.intent : c \in {d \in sent : d.request = r}} :
              thread' = [thread EXCEPT !.ask[r] = "resolved", !.answer[r] = a]
         \/ thread' = [thread EXCEPT !.ask[r] = "failed"]
         \/ /\ \A q \in Requests : thread.version[q] < MaxVersions
            /\ thread' = [thread EXCEPT !.version[r] = @ + 1]
    /\ UNCHANGED <<op, saved, pc, turn, userVars, inbox, dispatched, sent, crashes>>

\* The turn is completed; one that fails or is interrupted is, here, never completed.
T3Runs ==
    /\ thread.turn = "running" /\ Pending = {}
    /\ thread' = [thread EXCEPT !.turn = "completed"]
    /\ UNCHANGED <<op, saved, pc, turn, userVars, inbox, dispatched, sent, crashes>>

T3Archives ==
    /\ thread.alive
    /\ thread' = [thread EXCEPT !.alive = FALSE]
    /\ UNCHANGED <<op, saved, pc, turn, userVars, inbox, dispatched, sent, crashes>>

\* A command that is lost or rejected is, here, never executed.
T3Executes ==
    /\ \E c \in inbox :
         /\ inbox' = inbox \ {c}
         /\ \/ /\ c.kind = "answer" /\ c.request \in Pending
               /\ thread' = [thread EXCEPT !.ask[c.request] = "resolved",
                                           !.answer[c.request] = c.intent]
            \/ /\ c.kind = "turn" /\ thread.alive
               /\ thread' = [thread EXCEPT !.turn = "running", !.accepted = @ \cup {c}]
    /\ UNCHANGED <<op, saved, pc, turn, userVars, dispatched, sent, crashes>>

Crash ==
    /\ crashes < MaxCrashes
    /\ crashes' = crashes + 1
    /\ op' = saved /\ pc' = "idle" /\ turn' = NoTurn
    /\ call' = [call EXCEPT !.on = FALSE]
    /\ heard' = NoTurn /\ texts' \in SUBSET texts
    /\ UNCHANGED <<saved, inputs, t3Vars>>

-----------------------------------------------------------------------------
Init ==
    /\ op = NewOperation /\ saved = NewOperation
    /\ pc = "idle" /\ turn = NoTurn
    /\ call = [on |-> FALSE, number |-> 0, revision |-> 0, last |-> 0]
    /\ heard = NoTurn /\ sent = {} /\ texts = {} /\ inputs = 0 /\ inbox = {} /\ crashes = 0
    /\ dispatched = [r \in Requests |-> 0]
    /\ thread = [alive |-> TRUE, turn |-> "running", accepted |-> {},
                 ask |-> [r \in Requests |-> IF r = 1 THEN "open" ELSE "unasked"],
                 answer |-> [r \in Requests |-> "none"],
                 version |-> [r \in Requests |-> 0]]

Dialog ==
    \/ VoiceRespond \/ Respond \/ StartDialog \/ Coordinate \/ Decide
    \/ SendAnswer \/ Await \/ SendTurn \/ TurnReceipt \/ Watch

User == StartCall \/ Speak \/ EndCall \/ Text
T3 == T3Asks \/ T3Closes \/ T3Runs \/ T3Archives \/ T3Executes

Next == Scan \/ VoiceTurn \/ TakeText \/ Dialog \/ User \/ T3 \/ Crash

Spec == Init /\ [][Next]_vars

-----------------------------------------------------------------------------
(* Properties.                                                             *)

OperationType ==
    [status : Statuses, request : Requests, version : Nat, submitted : BOOLEAN,
     completed : BOOLEAN, deferred : BOOLEAN, uncertain : BOOLEAN,
     delivered : SUBSET Requests, adopted : Nat \cup {NoRevision},
     adopted_by : {"discovery", "refresh", "voice", "text"}, adopted_at : Nat]

TurnType ==
    [channel : {"none", "voice", "text"}, call : Nat, revision : Nat, input : Nat,
     intent : Intents]

CommandType == [kind : {"answer", "turn"}, request : Requests, intent : Intents]

ThreadType ==
    [alive : BOOLEAN, turn : {"running", "completed"},
     accepted : SUBSET CommandType,
     ask : [Requests -> {"unasked", "open", "resolved", "failed"}],
     answer : [Requests -> {"none", "other"} \cup Intents],
     version : [Requests -> Nat]]

DialogTypeOK ==
    op \in OperationType /\ saved \in OperationType /\ pc \in Steps /\ turn \in TurnType

UserTypeOK ==
    /\ call \in [on : BOOLEAN, number : Nat, revision : Nat, last : Nat]
    /\ heard \in TurnType
    /\ texts \subseteq Nat
    /\ inputs \in Nat

T3TypeOK ==
    /\ thread \in ThreadType
    /\ inbox \subseteq CommandType /\ sent \subseteq CommandType
    /\ dispatched \in [Requests -> Nat]

\* Every variable keeps its type.
TypeOK == DialogTypeOK /\ UserTypeOK /\ T3TypeOK /\ crashes \in Nat

\* At most one answer is ever dispatched for a question, whatever T3 reports,
\* however often the service crashes and whoever repeats the input.
AnsweredAtMostOnce == \A r \in Requests : dispatched[r] <= 1

\* What is on disk of the answers: those confirmed, and the one that may be under way.
Marked == saved.delivered \cup {r \in Requests : saved.uncertain /\ r = saved.request}

\* The answers of ours that T3's record of their question shows (another client may have
\* given the same one first), and the questions that have one.
Shown == {c \in sent : thread.answer[c.request] = c.intent}
Taken == {c.request : c \in Shown}

\* Protocol 1 does not tell what answer resolved a question: nothing is promised of it.
Told == IF Protocol = 2 THEN saved.delivered ELSE {}

\* Persist before dispatch: an answer leaves the process only when its question is marked on
\* disk (t3.py:515), no answer leaves twice, and what counts as delivered is an answer that
\* was sent and that T3's record of the question holds.
Answers == INSTANCE CommandOnce WITH Commands <- Requests, recorded <- Marked,
               sends <- dispatched, executed <- Taken, reported <- Told
AnswersOnce == Answers!Spec

\* "Decided" is said only of a decision that was sent for this very question and that T3
\* has: as the answer in its record of it, or as a follow-up turn it accepted.
CompletedMeansDelivered ==
    op.completed =>
        \E c \in Shown \cup thread.accepted : c.request = op.request /\ c.intent = "decision"

\* Once the outcome of a mutation is unknown the dialog sends nothing more, in this
\* run or after a restart: only the call that sent it can clear the mark.
UncertainIsFinal ==
    [][op.uncertain /\ pc \in {"idle", "respond", "start"} =>
         op'.uncertain /\ dispatched' = dispatched /\ inbox' \subseteq inbox]_vars

\* A question a voice turn adopted, and reports, and that no text has been about since, is
\* answered on the phone only with speech that came after the adoption, in this call or a
\* later one, also when texts are read during the call.
SpokenQuestionNeedsNewSpeech ==
    [][\A r \in Requests :
         dispatched'[r] # dispatched[r] /\ turn.channel = "voice" /\ op.adopted_by = "voice"
           => turn.input > op.adopted_at]_vars

\* The same of every question and every channel.  Does not hold: a refresh adopts a
\* question just before the dialog reads an earlier input (service.py:289-292).
NewQuestionNeedsNewInput ==
    [][\A r \in Requests : dispatched'[r] # dispatched[r] => turn.input > op.adopted_at]_vars
=============================================================================
