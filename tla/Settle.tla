-------------------------------- MODULE Settle --------------------------------
(* What becomes of the coordination threads of a call.  A call creates a status  *)
(* coordinator of its own and uses the coordinator of the operation it is about;  *)
(* when it is over both go into the durable settle queue, and the worker settles  *)
(* them in T3 between calls (service.py: main loop, settle_after_call, scan,      *)
(* close; conversations.py: the queue; call_history.py: what a restart finds;     *)
(* t3.py: settle_coordinator).                                                    *)
(*                                                                                *)
(* The store is saved with each change of the queue and of an operation; the call *)
(* history is written by a thread of its own, so memory and file differ.          *)
EXTENDS Naturals, Sequences, FiniteSets

CONSTANTS
    MaxCalls,    \* bound on the calls of all runs
    MaxRestarts, \* bound on crashes and exits
    MaxOthers,   \* bound on the jobs of other kinds that wait at once
    JobLimit,    \* jobs the main loop may have submitted (128)
    Indirect     \* calls whose direct structuring request may fail, so that they use a coordinator

\* The history keeps the last eight calls (MAX_CALLS).
ASSUME BoundsAssumption ==
    /\ MaxCalls \in 1..8 /\ MaxRestarts \in Nat /\ MaxOthers \in Nat /\ JobLimit \in Nat \ {0}
    /\ Indirect \subseteq 1..MaxCalls

Calls == 1..MaxCalls
Op == 0                      \* the coordinator of the operation
Threads == {Op} \cup Indirect   \* and the status coordinators of the calls

VARIABLES
    service,  \* the main loop: its state, the session's call, and two facts of this run
    voices,   \* what the VoiceConversation of each call has used
    turn,     \* the dialog turn on the session's thread, and whether it holds the lock
    jobs,     \* submitted jobs, in the order the one worker takes them
    worker,   \* where the worker is in the job it is running
    calls,    \* the call history in memory (of the calls that may use a coordinator)
    file,     \* the call history on disk
    op,       \* the operation and its attempt, as saved
    queue,    \* the settle queue, as saved
    t3,       \* the threads in T3
    count     \* calls begun and restarts, for the bounds

durable == <<file, op, queue>>
vars == <<service, voices, turn, jobs, worker, calls, durable, t3, count>>

NewService == [main |-> "on", session |-> 0, writer |-> FALSE, recovered |-> FALSE]
NoVoice == [coordinator |-> FALSE, op |-> FALSE]
NoTurn == [step |-> "none", call |-> 0]
Idle == [step |-> "idle", left |-> {}, flush |-> FALSE]
NoCall == [state |-> "none", coordinator |-> FALSE, settle |-> FALSE]

Init ==
    /\ service = NewService /\ turn = NoTurn
    /\ voices = [c \in Calls |-> NoVoice]
    /\ jobs = <<>> /\ worker = Idle
    /\ calls = [c \in Indirect |-> NoCall] /\ file = calls
    /\ op = [status |-> "open", coordinator |-> FALSE, attempt |-> FALSE, call |-> 0,
             settle |-> FALSE, first |-> FALSE]
    /\ queue = [k \in Threads |-> "none"]
    /\ t3 = [k \in Threads |-> "none"]
    /\ count = [calls |-> 0, restarts |-> 0]

-----------------------------------------------------------------------------
(* The queue.                                                                   *)

\* A later call on the same coordinator refreshes the entry.
RequestSettle(q, k) == [q EXCEPT ![k] = "queued"]

\* The marker of the attempt and the entry are saved together.
Unmarked(o) == o.attempt /\ ~o.settle
QueueOp(q, o) == IF Unmarked(o) /\ o.coordinator THEN RequestSettle(q, Op) ELSE q
MarkOp(o) == IF Unmarked(o) THEN [o EXCEPT !.settle = TRUE] ELSE o

\* Broken variant: only calls that were cut off by a crash.
SettleCandidatesOfCrash == {c \in Indirect : /\ calls[c].state = "interrupted"
                                             /\ calls[c].coordinator /\ ~calls[c].settle}

\* Ended or interrupted calls whose coordinator was not handed to the queue.
SettleCandidates == {c \in Indirect : /\ calls[c].state \notin {"none", "active"}
                                   /\ calls[c].coordinator /\ ~calls[c].settle}

-----------------------------------------------------------------------------
(* The main loop.                                                               *)

On == service.main = "on"
InCall == service.session # 0
Job(kind, c) == [kind |-> kind, call |-> c, done |-> FALSE]

\* Broken variant: the limit is not looked at.
SubmitUnbounded(new, s) == jobs' = jobs \o new /\ service' = s

\* A submission beyond the limit raises in the main loop, which ends the service.
Submit(new, s) ==
    LET all == jobs \o new
    IN  IF Len(all) <= JobLimit THEN jobs' = all /\ service' = s
        ELSE jobs' = SubSeq(all, 1, JobLimit) /\ service' = [s EXCEPT !.main = "quit"]

\* Broken variant: a scan is submitted while other jobs are on their way.
SubmitScanAnytime ==
    /\ On /\ ~InCall
    /\ Submit(<<Job("scan", 0)>>, service)
    /\ UNCHANGED <<voices, turn, worker, calls, durable, t3, count>>

SubmitScan ==
    /\ On /\ ~InCall /\ jobs = <<>>
    /\ Submit(<<Job("scan", 0)>>, service)
    /\ UNCHANGED <<voices, turn, worker, calls, durable, t3, count>>

\* A call comes in; it is recorded and then accepted.
SubmitAccept ==
    /\ On /\ ~InCall /\ jobs = <<>> /\ count.calls < MaxCalls
    /\ Submit(<<Job("accept", 0)>>, service)
    /\ UNCHANGED <<voices, turn, worker, calls, durable, t3, count>>

\* Texts, deliveries and prefetched context are jobs that come at any time; at most
\* MaxOthers wait at once.
Others == {i \in DOMAIN jobs : jobs[i].kind = "other"}
SubmitOther ==
    /\ On /\ Cardinality(Others) < MaxOthers
    /\ Submit(<<Job("other", 0)>>, service)
    /\ UNCHANGED <<voices, turn, worker, calls, durable, t3, count>>

StartCall(rest, about) ==
    LET c == count.calls + 1
    IN  /\ ~InCall /\ c <= MaxCalls
        /\ count' = [count EXCEPT !.calls = c]
        /\ calls' = [calls EXCEPT ![c].state = "active"]
        /\ service' = [service EXCEPT !.session = c, !.writer = TRUE]
        /\ voices' = [voices EXCEPT ![c].op = about]
        /\ op' = IF about THEN [op EXCEPT !.call = c] ELSE op
        /\ jobs' = rest

\* The loop calls back for jobs that are done; it may find a later one done when it has
\* not seen an earlier one so.  An incoming call is accepted, the operation that a scan
\* reserved is validated and then dialed, unless a text or a call overtook it.
Callback(i) ==
    /\ On /\ jobs[i].done
    /\ LET rest == SubSeq(jobs, 1, i - 1) \o SubSeq(jobs, i + 1, Len(jobs))
           kind == jobs[i].kind
       IN  \/ kind \in {"accept", "validate"} /\ StartCall(rest, kind = "validate")
           \/ /\ jobs' = IF kind = "reserved" THEN Append(rest, Job("validate", 0)) ELSE rest
              /\ UNCHANGED <<service, voices, calls, op, count>>
           \/ jobs' = rest /\ UNCHANGED <<service, voices, calls, op, count>>
    /\ UNCHANGED <<turn, worker, file, queue, t3>>

\* The session came to its end: the threads of the call may be settled, and the attempt
\* of its operation is finished unless the call was detached from it.  An end that is
\* not confirmed ends the service.
EndCall(detached, confirmed) ==
    /\ On /\ InCall
    /\ LET c == service.session
           finish == confirmed /\ voices[c].op /\ ~detached /\ op.attempt
           over == [service EXCEPT !.session = 0, !.main = IF confirmed THEN @ ELSE "quit"]
       IN  /\ calls' = [calls EXCEPT ![c].state = "ended"]
           /\ Submit(<<Job("settle", c)>> \o (IF finish THEN <<Job("finish", c)>> ELSE <<>>), over)
    /\ UNCHANGED <<voices, turn, worker, durable, t3, count>>

-----------------------------------------------------------------------------
(* The end of the process and the next start.                                    *)

Loaded(f) == [c \in Indirect |-> IF f[c].state = "active" THEN [f[c] EXCEPT !.state = "interrupted"]
                              ELSE f[c]]

Restart ==
    /\ count.restarts < MaxRestarts
    /\ count' = [count EXCEPT !.restarts = @ + 1]
    /\ service' = NewService /\ turn' = NoTurn /\ jobs' = <<>> /\ worker' = Idle
    /\ voices' = [c \in Calls |-> NoVoice]
    /\ UNCHANGED t3

\* An orderly end, also after an error in the main loop: the job that is running is
\* waited for, the others are cancelled, and a call that is on is handed over.
Exit ==
    /\ worker = Idle
    /\ Restart
    /\ LET c == service.session
           status == InCall /\ voices[c].coordinator
           about == InCall /\ voices[c].op
           left == IF InCall THEN [calls EXCEPT ![c].state = "ended", ![c].settle = @ \/ status] ELSE calls
           q == IF status THEN RequestSettle(queue, c) ELSE queue
       IN  /\ file' = left /\ calls' = Loaded(left)
           /\ queue' = IF about THEN QueueOp(q, op) ELSE q
           /\ op' = IF about THEN MarkOp(op) ELSE op

Crash == Restart /\ calls' = Loaded(file) /\ UNCHANGED durable

\* The writer of the history runs from the first call of a run on.
Flush == service.writer /\ file' = calls
         /\ UNCHANGED <<service, voices, turn, jobs, worker, calls, op, queue, t3, count>>

-----------------------------------------------------------------------------
(* The dialog turns of a call, on the session's thread.  A turn holds the lock    *)
(* that each job holds, may outlive the call, and tells the history at its end    *)
(* what it has used, when the lock is free again.                                 *)

TurnBegins ==
    /\ InCall /\ turn.step = "none" /\ worker.step = "idle"
    /\ turn' = [step |-> "locked", call |-> service.session]
    /\ UNCHANGED <<service, voices, jobs, worker, calls, durable, t3, count>>

InTurn == turn.step = "locked"

CreateStatusCoordinator ==
    /\ InTurn /\ turn.call \in Indirect /\ ~voices[turn.call].coordinator
    /\ voices' = [voices EXCEPT ![turn.call].coordinator = TRUE]
    /\ t3' = [t3 EXCEPT ![turn.call] = "active"]
    /\ UNCHANGED <<service, turn, jobs, worker, calls, durable, count>>

\* The caller picks the operation up: it gets a new attempt for this call.
SelectOperation ==
    /\ InTurn /\ InCall /\ ~voices[turn.call].op /\ op.status = "open"
    /\ voices' = [voices EXCEPT ![turn.call].op = TRUE]
    /\ op' = [op EXCEPT !.attempt = TRUE, !.call = turn.call, !.settle = FALSE, !.first = FALSE]
    /\ UNCHANGED <<service, turn, jobs, worker, calls, file, queue, t3, count>>

\* Structuring runs on the operation's coordinator, which wakes it in T3 if it still
\* exists; the turn may close the operation.
UseCoordinator ==
    /\ op.status = "open"
    /\ op' \in {[op EXCEPT !.coordinator = TRUE, !.status = s] : s \in {"open", "closed"}}
    /\ \/ t3' = [t3 EXCEPT ![Op] = "active"]
       \/ t3[Op] = "inactive" /\ UNCHANGED t3

OperationTurn ==
    /\ InTurn /\ voices[turn.call].op
    /\ UseCoordinator
    /\ UNCHANGED <<service, voices, turn, jobs, worker, calls, file, queue, count>>

TurnUnlocks ==
    /\ InTurn /\ turn' = [turn EXCEPT !.step = "remembers"]
    /\ UNCHANGED <<service, voices, jobs, worker, calls, durable, t3, count>>

TurnRemembers ==
    /\ turn.step = "remembers" /\ turn' = NoTurn
    /\ calls' = [calls EXCEPT ![turn.call].coordinator = voices[turn.call].coordinator]
    /\ UNCHANGED <<service, voices, jobs, worker, durable, t3, count>>

-----------------------------------------------------------------------------
(* The worker.  Its steps end where the store is saved or T3 is asked.           *)

Current == CHOOSE i \in DOMAIN jobs : ~jobs[i].done /\ \A j \in 1..(i - 1) : jobs[j].done
Job1 == jobs[Current]
Working(kind, step) == /\ \E i \in DOMAIN jobs : ~jobs[i].done
                       /\ Job1.kind = kind /\ worker.step = step /\ ~InTurn
Done == jobs' = [jobs EXCEPT ![Current].done = TRUE] /\ worker' = Idle
Goto(step, left) == worker' = [Idle EXCEPT !.step = step, !.left = left] /\ UNCHANGED jobs
others == <<service, voices, turn, count>>

\* Recording or validating a call leaves the threads alone.
RunPlain ==
    /\ \E kind \in {"accept", "validate"} : Working(kind, "idle")
    /\ Done
    /\ UNCHANGED <<others, calls, durable, t3>>

\* A text may be a turn about the operation, the other jobs leave the threads alone.
RunOther ==
    /\ Working("other", "idle") /\ Done
    /\ UseCoordinator \/ UNCHANGED <<op, t3>>
    /\ UNCHANGED <<others, calls, file, queue>>

\* settle_after_call: first the status coordinator, then the operation.
RunSettleStatus ==
    /\ Working("settle", "idle") /\ Goto("operations", {})
    /\ LET c == Job1.call
           status == voices[c].coordinator
       IN  /\ queue' = IF status THEN RequestSettle(queue, c) ELSE queue
           /\ calls' = IF status THEN [calls EXCEPT ![c].settle = TRUE] ELSE calls
    /\ UNCHANGED <<others, file, op, t3>>

RunSettleOperations ==
    /\ Working("settle", "operations") /\ Done
    /\ queue' = IF voices[Job1.call].op THEN QueueOp(queue, op) ELSE queue
    /\ op' = IF voices[Job1.call].op THEN MarkOp(op) ELSE op
    /\ UNCHANGED <<others, calls, file, t3>>

\* The attempt is concluded, with a message if the question is still open.
Finish == /\ queue' = QueueOp(queue, op)
          /\ \E sent \in BOOLEAN : op' = [MarkOp(op) EXCEPT !.first = @ \/ (sent /\ op.status = "open")]

RunFinish ==
    /\ Working("finish", "idle") /\ Done
    /\ Finish
    /\ UNCHANGED <<others, calls, file, t3>>

\* T3 may fail a scan before it comes to the queue.
ScanFails ==
    /\ Working("scan", "idle") /\ Done
    /\ UNCHANGED <<others, calls, durable, t3>>

\* A scan refreshes the operation and may find the question answered or withdrawn.
ScanRefreshes ==
    /\ Working("scan", "idle") /\ op.status = "open"
    /\ op' = [op EXCEPT !.status = "closed"]
    /\ UNCHANGED <<others, jobs, worker, calls, file, queue, t3>>

\* The first scan that gets so far concludes what a former run left; the request to T3
\* in it may fail, and the next scan tries again.
ScanRecover ==
    /\ Working("scan", "idle") /\ ~service.recovered
    /\ \/ /\ op.status = "open" /\ op.attempt /\ ~op.first
          /\ Finish
          /\ Goto("candidates", SettleCandidates) \/ Done
       \/ /\ op.status # "open" \/ ~op.attempt \/ op.first
          /\ Goto("candidates", SettleCandidates)
          /\ UNCHANGED <<op, queue>>
    /\ UNCHANGED <<others, calls, file, t3>>

ScanCandidate(c) ==
    /\ Working("scan", "candidates") /\ c \in worker.left
    /\ queue' = RequestSettle(queue, c)
    /\ calls' = [calls EXCEPT ![c].settle = TRUE]
    /\ worker' = [worker EXCEPT !.left = @ \ {c}, !.flush = TRUE]
    /\ UNCHANGED <<others, jobs, file, op, t3>>

ScanRecovered ==
    /\ Working("scan", "candidates") /\ worker.left = {}
    /\ file' = IF worker.flush THEN calls ELSE file
    /\ service' = [service EXCEPT !.recovered = TRUE]
    /\ Goto("recovered", {})
    /\ UNCHANGED <<voices, turn, count, calls, op, queue, t3>>

\* settle_coordinators: the entries that are due.
ScanSettles(due) ==
    /\ (Working("scan", "idle") /\ service.recovered) \/ Working("scan", "recovered")
    /\ due \subseteq {k \in Threads : queue[k] = "queued"}
    /\ Goto("settling", due)
    /\ UNCHANGED <<others, calls, durable, t3>>

\* A look at the thread, then the command, then a look again.  A thread that is archived,
\* deleted or settled already needs no command; a command may be refused or lost, or
\* carried out later than the worker waits, as the next look will show.
SettleInT3(k, result) ==
    \/ result = "no need" /\ t3' = [t3 EXCEPT ![k] = "inactive"]
    \/ result = "busy" /\ UNCHANGED t3
    \/ /\ result \in {"settled", "unconfirmed"} /\ t3[k] = "active"
       /\ t3' = [t3 EXCEPT ![k] = "inactive"]
    \/ result = "unconfirmed" /\ t3[k] = "active" /\ UNCHANGED t3

SettleTerminal == {"settled", "no need"}

\* The outcome is saved; an entry requested too long ago (SETTLE_GIVE_UP_SECONDS) is given
\* up.  A failed request counts as busy or unconfirmed.
SettleCoordinator(k, result) ==
    /\ Working("scan", "settling") /\ k \in worker.left
    /\ SettleInT3(k, result)
    /\ IF result \in SettleTerminal THEN queue' = [queue EXCEPT ![k] = "none"]
       ELSE UNCHANGED queue \/ queue' = [queue EXCEPT ![k] = "given up"]
    /\ worker' = [worker EXCEPT !.left = @ \ {k}]
    /\ UNCHANGED <<others, jobs, calls, file, op>>

\* At its end the scan may reserve the attempt of the open question.
ScanEnds ==
    /\ Working("scan", "settling") /\ worker.left = {}
    /\ \/ Done /\ UNCHANGED op
       \/ /\ op.status = "open" /\ ~op.attempt
          /\ op' = [op EXCEPT !.attempt = TRUE]
          /\ worker' = Idle
          /\ jobs' = [jobs EXCEPT ![Current].done = TRUE, ![Current].kind = "reserved"]
    /\ UNCHANGED <<others, calls, file, queue, t3>>

-----------------------------------------------------------------------------

MainNext ==
    \/ SubmitScan \/ SubmitAccept \/ SubmitOther
    \/ \E i \in DOMAIN jobs : Callback(i)
    \/ \E detached, confirmed \in BOOLEAN : EndCall(detached, confirmed)

TurnNext ==
    \/ TurnBegins \/ CreateStatusCoordinator \/ SelectOperation \/ OperationTurn
    \/ TurnUnlocks \/ TurnRemembers

WorkerNext ==
    \/ RunPlain \/ RunOther \/ RunSettleStatus \/ RunSettleOperations \/ RunFinish
    \/ ScanFails \/ ScanRefreshes \/ ScanRecover \/ ScanRecovered \/ ScanEnds
    \/ \E c \in Indirect : ScanCandidate(c)
    \/ \E due \in SUBSET Threads : ScanSettles(due)
    \/ \E k \in Threads, result \in SettleTerminal \cup {"busy", "unconfirmed"} :
          SettleCoordinator(k, result)

Environment ==
    Exit \/ Crash \/ Flush

Next == MainNext \/ TurnNext \/ WorkerNext \/ Environment
Spec == Init /\ [][Next]_vars

-----------------------------------------------------------------------------
(* Properties.                                                                   *)

ServiceType == [main : {"on", "quit"}, session : {0} \cup Calls,
                writer : BOOLEAN, recovered : BOOLEAN]
VoiceType == [coordinator : BOOLEAN, op : BOOLEAN]
TurnType == [step : {"none", "locked", "remembers"}, call : {0} \cup Calls]
JobType == [kind : {"scan", "reserved", "accept", "validate", "other", "settle", "finish"},
            call : {0} \cup Calls, done : BOOLEAN]
WorkerType == [step : {"idle", "operations", "candidates", "recovered", "settling"},
               left : SUBSET Threads, flush : BOOLEAN]
CallType == [state : {"none", "active", "ended", "interrupted"},
             coordinator : BOOLEAN, settle : BOOLEAN]
OpType == [status : {"open", "closed"}, coordinator : BOOLEAN, attempt : BOOLEAN,
           call : {0} \cup Calls, settle : BOOLEAN, first : BOOLEAN]

\* Every variable keeps its type, and the queue of jobs its limit.
TypeOK ==
    /\ service \in ServiceType /\ voices \in [Calls -> VoiceType]
    /\ turn \in TurnType /\ worker \in WorkerType
    /\ jobs \in Seq(JobType) /\ Len(jobs) <= JobLimit
    /\ calls \in [Indirect -> CallType] /\ file \in [Indirect -> CallType]
    /\ op \in OpType
    /\ queue \in [Threads -> {"none", "queued", "given up"}]
    /\ t3 \in [Threads -> {"none", "active", "inactive"}]
    /\ count \in [calls : 0..MaxCalls, restarts : 0..MaxRestarts]

\* "The actual T3 command runs from settle_coordinators, never during a live call"
\* (conversations.py:97): no thread is settled while a session is on, though calls are
\* started by the callbacks of other jobs and texts submit jobs at any time.
NeverDuringCall == worker.step = "settling" => ~InCall

\* Still to come: the settle job of the call, or the recovery of the next start.
Ahead(c) == \/ service.session = c \/ service.main = "quit" \/ ~service.recovered
            \/ \E i \in DOMAIN jobs : jobs[i].kind = "settle" /\ jobs[i].call = c /\ ~jobs[i].done

\* The coordinators of a call that is over are not forgotten (docs/telegram-service.md:27):
\* what the history or an open operation knows of is handed to the queue, or a job or the
\* recovery after a restart will do so, whatever full job queues, exits and crashes come
\* between; and what counts as handed over stays queued until T3 has settled or lost the
\* thread or it is given up.
NotForgotten ==
    /\ \A c \in Indirect : calls[c].coordinator /\ ~calls[c].settle => Ahead(c)
    /\ \A c \in Indirect : calls[c].settle =>
          queue[c] # "none" \/ t3[c] = "inactive"
    /\ op.attempt /\ op.call # 0 /\ ~op.settle /\ op.status = "open" => Ahead(op.call)
=============================================================================
