-------------------------- MODULE TaskLauncher_proofs --------------------------
(***************************************************************************)
(* Proofs about TaskLauncher, for any number of jobs, calls, scans and     *)
(* crashes: types, the safety properties, and that the launcher implements *)
(* CommandOnce.                                                            *)
(***************************************************************************)
EXTENDS TaskLauncher, TLAPS

-----------------------------------------------------------------------------
(* Types.                                                                  *)

Holding == {"replace", "checked", "create", "creating", "begin", "start", "starting",
            "poll", "reconcile", "answer", "notice", "notify"}

\* From the proposal on, the holder of the lock works on a job.
Engaged == turn.pc \in Holding => turn.job \in Jobs

TypeInv == TypeOK /\ Engaged

LEMMA SetType ==
    ASSUME jobs \in [Jobs -> JobType], NEW j \in Jobs, NEW s \in Settled \cup Unsettled
    PROVE  [jobs EXCEPT ![j].state = s] \in [Jobs -> JobType]
<1>1. [jobs[j] EXCEPT !.state = s] \in JobType
    BY DEF JobType
<1> QED
    BY <1>1

LEMMA GotoType ==
    ASSUME turn \in TurnType, NEW label \in Labels
    PROVE  /\ [turn EXCEPT !.pc = label] \in TurnType
           /\ [turn EXCEPT !.pc = label].pc = label
           /\ [turn EXCEPT !.pc = label].job = turn.job
BY DEF TurnType

LEMMA NoTurnType == NoTurn \in TurnType /\ NoTurn.pc = "idle"
BY DEF NoTurn, TurnType, Labels

LEMMA TypeInit == Init => TypeInv
<1> SUFFICES ASSUME Init PROVE TypeInv
    OBVIOUS
<1>1. jobs \in [Jobs -> JobType]
    BY DEF Init, NewJob, JobType, Settled
<1>2. voice \in VoiceType /\ turn \in TurnType /\ Engaged
    BY NoTurnType DEF Init, VoiceType, Engaged, Holding
<1>3. T3TypeOK /\ HistoryTypeOK
    BY DEF Init, T3TypeOK, HistoryTypeOK, ThreadType
<1> QED
    BY <1>1, <1>2, <1>3 DEF TypeInv, TypeOK

LEMMA SeenType ==
    ASSUME NEW j \in Jobs, jobs \in [Jobs -> JobType]
    PROVE  Seen(j) \in Settled \cup Unsettled
BY DEF Seen, Outcome, JobType, Settled, Unsettled

Speech == CallBegins \/ CallEnds \/ Speak

Talk == \/ Delegate \/ Refused \/ Structure \/ Cancel \/ Decide \/ CheckFails \/ Replace
        \/ \E j \in Jobs : Propose(j) \/ Resume(j)

Ordering == ConfirmAgain \/ Confirm \/ Commit \/ SendCreate \/ Created \/ Unconfirmed
            \/ Begin \/ SendStart \/ StartUnsent \/ Accepted

Looking == Reconcile \/ ReadFails \/ Poll \/ PollEnds \/ Answer \/ Scan \/ NextJob
           \/ Reserve \/ Notify

T3 == \E j \in Jobs : T3Creates(j) \/ T3Starts(j) \/ T3Runs(j) \/ T3Archives(j)

LEMMA NextIs == Next <=> Speech \/ Talk \/ Ordering \/ Looking \/ T3 \/ Crash
BY DEF Next, Work, Speech, Talk, Ordering, Looking, T3

LEMMA JobsTypeStep ==
    ASSUME TypeInv, Next
    PROVE  jobs' \in [Jobs -> JobType]
<1> USE DEF TypeInv, TypeOK
<1>1. CASE Speech \/ T3 \/ Crash
    BY <1>1 DEF Speech, CallBegins, CallEnds, Speak, T3, T3Creates, T3Starts, T3Runs, T3Archives, Crash
<1>2. CASE Talk
  <2>1. ASSUME NEW j \in Jobs, Propose(j) \/ Resume(j)
        PROVE  jobs' \in [Jobs -> JobType]
    <3>1. turn.revision \in Nat /\ turn.said \in Texts \cup {"none"}
        BY DEF TurnType
    <3>2. /\ [jobs[j] EXCEPT !.state = "proposed", !.revision = turn.revision,
                             !.text = turn.said] \in JobType
          /\ [jobs[j] EXCEPT !.revision = turn.revision, !.text = "none"] \in JobType
        BY <3>1 DEF JobType, Settled
    <3> QED
        BY <2>1, <3>2 DEF Propose, Resume
  <2>2. CASE Cancel \/ Replace
    <3>1. voice.proposal # NoJob => voice.proposal \in Jobs
        BY DEF VoiceType
    <3> QED
        BY <2>2, <3>1, SetType DEF Cancel, Replace, Set, Settled
  <2> QED
      BY <1>2, <2>1, <2>2 DEF Talk, Delegate, Refused, Structure, Decide, CheckFails
<1>3. CASE Ordering
  <2>1. CASE Commit
    <3>1. turn.job \in Jobs
        BY <2>1 DEF Commit, Engaged, Holding
    <3>2. [jobs[turn.job] EXCEPT !.state = "creating", !.committed = TRUE] \in JobType
        BY <3>1 DEF JobType, Unsettled
    <3> QED
        BY <2>1, <3>1, <3>2 DEF Commit
  <2>2. CASE Created \/ Begin
      BY <2>2, SetType DEF Created, Begin, Set, Engaged, Holding, Unsettled
  <2> QED
      BY <1>3, <2>1, <2>2 DEF Ordering, ConfirmAgain, Confirm, SendCreate, Unconfirmed, SendStart, StartUnsent, Accepted
<1>4. CASE Looking
  <2>1. CASE Reconcile \/ Poll
      BY <2>1, SetType, SeenType DEF Reconcile, Poll, Set, Engaged, Holding, Unsettled
  <2>2. CASE Reserve
    <3>1. turn.job \in Jobs
        BY <2>2 DEF Reserve, Engaged, Holding
    <3>2. [jobs[turn.job] EXCEPT !.noticed = TRUE] \in JobType
        BY <3>1 DEF JobType
    <3> QED
        BY <2>2, <3>1, <3>2 DEF Reserve
  <2> QED
      BY <1>4, <2>1, <2>2 DEF Looking, ReadFails, PollEnds, Answer, Scan, NextJob, Notify
<1> QED
    BY <1>1, <1>2, <1>3, <1>4, NextIs

LEMMA VoiceTypeStep ==
    ASSUME TypeInv, Next
    PROVE  voice' \in VoiceType
<1> USE DEF TypeInv, TypeOK
<1>1. CASE Speech \/ Crash
  <2>1. CASE CallBegins
      BY <2>1 DEF CallBegins, VoiceType
  <2>2. CASE CallEnds \/ Crash
      BY <2>2 DEF CallEnds, Crash, VoiceType
  <2>3. CASE Speak
    <3>1. PICK text \in Texts : voice' = [voice EXCEPT !.revision = @ + 1, !.said = text]
        BY <2>3 DEF Speak
    <3>2. voice.revision + 1 \in Nat /\ text \in Texts \cup {"none"}
        BY DEF VoiceType
    <3>3. \A n \in Nat, said \in Texts \cup {"none"} :
            [voice EXCEPT !.revision = n, !.said = said] \in VoiceType
        BY DEF VoiceType
    <3> QED
        BY <3>1, <3>2, <3>3
  <2> QED
      BY <1>1, <2>1, <2>2, <2>3 DEF Speech
<1>2. CASE Talk
  <2>1. \A p \in Jobs \cup {NoJob} : [voice EXCEPT !.proposal = p] \in VoiceType
      BY DEF VoiceType
  <2>2. CASE Replace
      BY <2>1, <2>2 DEF Replace, Engaged, Holding
  <2>3. CASE \E j \in Jobs : Propose(j) \/ Resume(j)
      BY <2>1, <2>3 DEF Propose, Resume
  <2>4. CASE Structure \/ Cancel
      BY <2>1, <2>4 DEF Structure, Cancel
  <2>5. CASE Delegate \/ Refused \/ Decide \/ CheckFails
      BY <2>5 DEF Delegate, Refused, Decide, CheckFails
  <2> QED
      BY <1>2, <2>2, <2>3, <2>4, <2>5 DEF Talk
<1>3. CASE Ordering \/ Looking \/ T3
    BY <1>3 DEF Ordering, ConfirmAgain, Confirm, Commit, SendCreate, Created, Unconfirmed, Begin, SendStart,
         StartUnsent, Accepted, Looking, Reconcile, ReadFails, Poll, PollEnds, Answer, Scan, NextJob,
         Reserve, Notify, T3, T3Creates, T3Starts, T3Runs, T3Archives
<1> QED
    BY <1>1, <1>2, <1>3, NextIs

LEMMA TurnTypeStep ==
    ASSUME TypeInv, Next
    PROVE  turn' \in TurnType /\ Engaged'
<1> USE DEF TypeInv, TypeOK
<1>1. CASE Speech \/ T3 \/ Crash
    BY <1>1, NoTurnType DEF Speech, CallBegins, CallEnds, Speak, T3, T3Creates, T3Starts, T3Runs, T3Archives, Crash,
           Engaged, Holding
<1>2. CASE EndTurn
    BY <1>2, NoTurnType DEF EndTurn, Engaged, Holding
<1>3. ASSUME NEW label \in Labels, Goto(label), turn.pc \in Holding \/ label \notin Holding
      PROVE  turn' \in TurnType /\ Engaged'
    BY <1>3, GotoType DEF Goto, Engaged
<1>4. CASE Talk
  <2>1. ASSUME NEW j \in Jobs, Propose(j)
        PROVE  turn' \in TurnType /\ Engaged'
      BY <2>1 DEF Propose, TurnType, Engaged, Labels
  <2>2. CASE Delegate
      BY <2>2 DEF Delegate, NoTurn, TurnType, VoiceType, Engaged, Holding, Labels
  <2>3. Structure => Goto("think")
      BY DEF Structure
  <2>4. Decide => EndTurn \/ Goto("decided")
      BY DEF Decide
  <2>5. CASE Structure \/ Decide
      BY <1>2, <1>3, <2>3, <2>4, <2>5 DEF Labels, Holding
  <2>6. CASE Refused \/ Cancel \/ CheckFails \/ Replace \/ \E j \in Jobs : Resume(j)
      BY <1>2, <2>6 DEF Refused, Cancel, CheckFails, Replace, Resume
  <2> QED
      BY <1>4, <2>1, <2>2, <2>5, <2>6 DEF Talk
<1>5. CASE Ordering
  <2>1. CASE ConfirmAgain \/ Confirm
      BY <1>2, <2>1 DEF ConfirmAgain, Confirm, Confirming, TurnType, VoiceType, Engaged, Labels
  <2>2. CASE Commit
      BY <1>2, <2>2 DEF Commit, TurnType, Engaged, Holding, Labels
  <2>3. CASE Unconfirmed \/ StartUnsent
      BY <1>2, <2>3 DEF Unconfirmed, StartUnsent, Raise, TurnType, Engaged, Holding, Labels
  <2>4. CASE SendCreate \/ Created \/ Begin \/ SendStart \/ Accepted
      BY <1>3, <2>4 DEF SendCreate, Created, Begin, SendStart, Accepted, Holding, Labels
  <2> QED
      BY <1>5, <2>1, <2>2, <2>3, <2>4 DEF Ordering
<1>6. CASE Looking
  <2>1. CASE Reconcile \/ ReadFails \/ PollEnds \/ Reserve \/ Notify
      BY <1>3, <2>1 DEF Reconcile, Reconciled, ReadFails, PollEnds, Reserve, Notify, Holding, Labels
  <2>2. CASE Scan
      BY <2>2 DEF Scan, NoTurn, TurnType, Engaged, Holding, Labels
  <2>3. CASE NextJob
    <3>1. ASSUME NEW j \in turn.todo,
                 turn' = [turn EXCEPT !.pc = "reconcile", !.job = j, !.todo = @ \ {j}]
          PROVE  turn' \in TurnType /\ Engaged'
        BY <3>1 DEF TurnType, Engaged, Labels
    <3> QED
        BY <1>2, <2>3, <3>1 DEF NextJob
  <2>4. CASE Poll \/ Answer
      BY <1>2, <2>4 DEF Poll, Answer, Engaged
  <2> QED
      BY <1>6, <2>1, <2>2, <2>3, <2>4 DEF Looking
<1> QED
    BY <1>1, <1>4, <1>5, <1>6, NextIs

LEMMA DispatchType ==
    ASSUME T3TypeOK, turn.job \in Jobs, NEW kind \in Kinds, Dispatch(kind), UNCHANGED t3
    PROVE  T3TypeOK'
BY DEF T3TypeOK, Dispatch

LEMMA T3TypeStep ==
    ASSUME TypeInv, Next
    PROVE  T3TypeOK'
<1> USE DEF TypeInv, TypeOK
<1>1. CASE UNCHANGED <<t3, wire, sent>>
    BY <1>1 DEF T3TypeOK
<1>2. CASE SendCreate \/ SendStart
    BY <1>2, DispatchType DEF SendCreate, SendStart, Engaged, Holding, Kinds
<1>3. CASE T3
  <2>1. PICK j \in Jobs : T3Creates(j) \/ T3Starts(j) \/ T3Runs(j) \/ T3Archives(j)
      BY <1>3 DEF T3
  <2>2. wire' \subseteq wire /\ sent' = sent
      BY <2>1 DEF T3Creates, T3Starts, T3Runs, T3Archives
  <2>3. \/ \E s \in {"there", "gone"} : t3' = [t3 EXCEPT ![j].thread = s]
        \/ \E s \in {"queued", "running", "completed", "error"} : t3' = [t3 EXCEPT ![j].turn = s]
      BY <2>1 DEF T3Creates, T3Starts, T3Runs, T3Archives
  <2> QED
      BY <2>2, <2>3 DEF T3TypeOK, ThreadType
<1> QED
    BY <1>1, <1>2, <1>3, NextIs
       DEF Speech, CallBegins, CallEnds, Speak, Crash, Talk, Delegate, Refused, Structure, Cancel, Decide, CheckFails,
           Replace, Propose, Resume, Ordering, ConfirmAgain, Confirm, Commit, Created, Unconfirmed, Begin,
           StartUnsent, Accepted, Looking, Reconcile, ReadFails, Poll, PollEnds, Answer, Scan,
           NextJob, Reserve, Notify

LEMMA HistoryTypeStep ==
    ASSUME TypeInv, Next
    PROVE  HistoryTypeOK'
<1> USE DEF TypeInv, TypeOK
<1>1. CASE UNCHANGED <<asked, given, told, count>>
    BY <1>1 DEF HistoryTypeOK
<1>2. Moment \in [call : Nat, turn : Nat, revision : Nat]
    BY DEF Moment, VoiceType, TurnType
<1>3. ASSUME NEW j \in Jobs, Propose(j) \/ Resume(j)
      PROVE  HistoryTypeOK'
  <2>1. asked' = [asked EXCEPT ![j] = Moment] /\ UNCHANGED <<given, told, count>>
      BY <1>3 DEF Propose, Resume
  <2> QED
      BY <1>2, <2>1 DEF HistoryTypeOK
<1>4. CASE Commit
    BY <1>4 DEF Commit, HistoryTypeOK, VoiceType, TurnType
<1>5. CASE Answer \/ Notify
    BY <1>5 DEF Answer, Notify, HistoryTypeOK, Engaged, Holding
<1>6. CASE ReadFails \/ Crash
    BY <1>6 DEF ReadFails, Crash, HistoryTypeOK
<1> QED
    BY <1>1, <1>3, <1>4, <1>5, <1>6, NextIs
       DEF Speech, CallBegins, CallEnds, Speak, Talk, Delegate, Refused, Structure, Cancel, Decide, CheckFails,
           Replace, Ordering, ConfirmAgain, Confirm, SendCreate, Created, Unconfirmed, Begin,
           SendStart, StartUnsent, Accepted, Looking, Reconcile, Poll, PollEnds, Scan,
           NextJob, Reserve, T3, T3Creates, T3Starts, T3Runs, T3Archives

LEMMA TypeStep == TypeInv /\ [Next]_vars => TypeInv'
<1>1. ASSUME TypeInv, UNCHANGED vars
      PROVE  TypeInv'
    BY <1>1 DEF TypeInv, TypeOK, T3TypeOK, HistoryTypeOK, Engaged, vars
<1> QED
    BY <1>1, JobsTypeStep, VoiceTypeStep, TurnTypeStep, T3TypeStep, HistoryTypeStep
       DEF TypeInv, TypeOK

\* The launcher's data keep their types: a job is always in a state the code names
\* (tasks.py:57-140).
THEOREM TypeCorrect == Spec => []TypeOK
BY TypeInit, TypeStep, PTL DEF Spec, TypeInv

-----------------------------------------------------------------------------
(* Safety.                                                                 *)

\* What the durable state of a job says of its commands and of T3.
JobInv ==
    \A j \in Jobs :
        /\ jobs[j].state \in {"none", "proposed"} => ~jobs[j].committed
        /\ jobs[j].state \in Unsettled \cup {"started", "failed"} => jobs[j].committed
        /\ ~jobs[j].committed => sent[j]["create"] = 0 /\ sent[j]["start"] = 0
        /\ jobs[j].state \in {"none", "proposed", "creating", "created"} => sent[j]["start"] = 0
        /\ jobs[j].state \in {"started", "failed"} => t3[j].turn # "none"

\* What was sent, what is on its way and what T3 and the user know.
CommandInv ==
    /\ \A j \in Jobs, k \in Kinds :
         sent[j][k] <= 1 /\ (<<j, k>> \in wire => sent[j][k] = 1)
    /\ \A j \in Jobs : sent[j]["start"] > 0 => t3[j].thread # "none"
    /\ \A j \in told.jobs : t3[j].turn # "none"

\* What the holder of the lock may rely on at each step.
TurnInv ==
    LET j == turn.job
    IN  /\ turn.pc = "checked" => jobs[j].state = "proposed"
        /\ turn.pc = "create" => jobs[j].state = "creating" /\ sent[j]["create"] = 0
        /\ turn.pc = "creating" => jobs[j].state = "creating"
        /\ turn.pc = "begin" => jobs[j].state = "created" /\ t3[j].thread # "none"
        /\ turn.pc = "start" =>
             jobs[j].state = "starting" /\ sent[j]["start"] = 0 /\ t3[j].thread # "none"
        /\ turn.pc = "notify" =>
             jobs[j].state = "started" /\ jobs[j].noticed /\ told.notices[j] = 0

NoticeInv ==
    \A j \in Jobs : told.notices[j] <= 1 /\ (~jobs[j].noticed => told.notices[j] = 0)

\* A job was last proposed in this call, at the revision it carries.
ProposedHere(j) == asked[j].call = voice.call /\ asked[j].turn = jobs[j].revision

SlotInv ==
    /\ voice.proposal # NoJob =>
         /\ jobs[voice.proposal].state # "superseded"
         /\ jobs[voice.proposal].state = "proposed" => ProposedHere(voice.proposal)
    /\ turn.pc \in {"think", "decided", "replace"} => voice.proposal = NoJob
    /\ turn.pc = "replace" => ProposedHere(turn.job) /\ jobs[turn.job].state = "proposed"
    /\ turn.pc = "checked" =>
         asked[turn.job].call = voice.call /\ turn.revision > asked[turn.job].turn
    /\ \A j \in Jobs : jobs[j].committed =>
         given[j].call = asked[j].call /\ given[j].revision > asked[j].turn

SafeInv == JobInv /\ CommandInv /\ TurnInv /\ NoticeInv /\ SlotInv

LEMMA SafeInit == Init => SafeInv
BY DEF Init, SafeInv, JobInv, CommandInv, TurnInv, NoticeInv, SlotInv, NewJob, NoTurn, Unsettled, Kinds

\* The state of one job changes and nothing else of any job.
LEMMA SetFacts ==
    ASSUME jobs \in [Jobs -> JobType], NEW j \in Jobs, NEW s, Set(j, s)
    PROVE  /\ jobs'[j].state = s
           /\ \A i \in Jobs : i # j => jobs'[i] = jobs[i]
           /\ \A i \in Jobs : /\ jobs'[i].committed = jobs[i].committed
                              /\ jobs'[i].noticed = jobs[i].noticed
                              /\ jobs'[i].revision = jobs[i].revision
<1>1. jobs'[j] = [jobs[j] EXCEPT !.state = s]
    BY DEF Set
<1>2. jobs[j] \in JobType
    OBVIOUS
<1>3. /\ jobs'[j].state = s
      /\ jobs'[j].committed = jobs[j].committed
      /\ jobs'[j].noticed = jobs[j].noticed
      /\ jobs'[j].revision = jobs[j].revision
    BY <1>1, <1>2 DEF JobType
<1>4. \A i \in Jobs : i # j => jobs'[i] = jobs[i]
    BY DEF Set
<1> QED
    BY <1>3, <1>4

LEMMA ProposeFacts ==
    ASSUME TypeInv, NEW j \in Jobs, Propose(j) \/ Resume(j)
    PROVE  /\ jobs[j].state \in {"none", "proposed"}
           /\ jobs'[j].state = "proposed" /\ jobs'[j].revision = turn.revision
           /\ \A i \in Jobs : i # j => jobs'[i] = jobs[i] /\ asked'[i] = asked[i]
           /\ \A i \in Jobs : /\ jobs'[i].committed = jobs[i].committed
                              /\ jobs'[i].noticed = jobs[i].noticed
           /\ asked'[j].call = voice.call /\ asked'[j].turn = turn.revision
<1>1. jobs[j] \in JobType
    BY DEF TypeInv, TypeOK
<1>2. \/ jobs'[j] = [jobs[j] EXCEPT !.state = "proposed", !.revision = turn.revision, !.text = turn.said]
      \/ jobs'[j] = [jobs[j] EXCEPT !.revision = turn.revision, !.text = "none"]
         /\ jobs[j].state = "proposed"
    BY DEF Propose, Resume, TypeInv, TypeOK
<1>3. /\ jobs'[j].state = "proposed" /\ jobs'[j].revision = turn.revision
      /\ jobs'[j].committed = jobs[j].committed
      /\ jobs'[j].noticed = jobs[j].noticed
    BY <1>1, <1>2 DEF JobType
<1>4. \A i \in Jobs : i # j => jobs'[i] = jobs[i] /\ asked'[i] = asked[i]
    BY DEF Propose, Resume, TypeInv, TypeOK, HistoryTypeOK
<1>5. asked'[j] = Moment
    BY DEF Propose, Resume, TypeInv, TypeOK, HistoryTypeOK
<1>6. jobs[j].state \in {"none", "proposed"}
    BY DEF Propose, Resume
<1> QED
    BY <1>3, <1>4, <1>5, <1>6 DEF Moment

LEMMA CommitFacts ==
    ASSUME TypeInv, Commit
    PROVE  \/ EndTurn /\ UNCHANGED <<jobs, given>>
           \/ /\ turn' = [turn EXCEPT !.pc = "create", !.caught = TRUE]
              /\ jobs'[turn.job].state = "creating" /\ jobs'[turn.job].committed
              /\ jobs'[turn.job].noticed = jobs[turn.job].noticed
              /\ \A i \in Jobs : i # turn.job => jobs'[i] = jobs[i] /\ given'[i] = given[i]
              /\ given'[turn.job].call = voice.call
              /\ given'[turn.job].revision = turn.revision
<1>1. turn.job \in Jobs
    BY DEF TypeInv, Commit, Engaged, Holding
<1>2. jobs[turn.job] \in JobType /\ jobs \in [Jobs -> JobType]
    BY <1>1 DEF TypeInv, TypeOK
<1>3. CASE jobs' = [jobs EXCEPT ![turn.job].state = "creating", ![turn.job].committed = TRUE]
  <2>1. jobs'[turn.job] = [jobs[turn.job] EXCEPT !.state = "creating", !.committed = TRUE]
      BY <1>1, <1>2, <1>3
  <2>2. /\ jobs'[turn.job].state = "creating" /\ jobs'[turn.job].committed
        /\ jobs'[turn.job].noticed = jobs[turn.job].noticed
      BY <1>2, <2>1 DEF JobType
  <2>3. \A i \in Jobs : i # turn.job => jobs'[i] = jobs[i]
      BY <1>1, <1>2, <1>3
  <2> QED
      BY <1>1, <2>2, <2>3 DEF Commit, TypeInv, TypeOK, HistoryTypeOK
<1> QED
    BY <1>3 DEF Commit

LEMMA ReserveFacts ==
    ASSUME TypeInv, Reserve
    PROVE  \/ UNCHANGED jobs /\ Goto("next")
           \/ /\ jobs[turn.job].state = "started" /\ ~jobs[turn.job].noticed /\ Goto("notify")
              /\ jobs'[turn.job].noticed
              /\ \A i \in Jobs : i # turn.job => jobs'[i] = jobs[i]
              /\ \A i \in Jobs : /\ jobs'[i].state = jobs[i].state
                                 /\ jobs'[i].committed = jobs[i].committed
                                 /\ jobs'[i].revision = jobs[i].revision
<1>1. turn.job \in Jobs /\ jobs \in [Jobs -> JobType]
    BY DEF TypeInv, TypeOK, Reserve, Engaged, Holding
<1>2. CASE jobs' = [jobs EXCEPT ![turn.job].noticed = TRUE]
  <2>1. jobs'[turn.job] = [jobs[turn.job] EXCEPT !.noticed = TRUE] /\ jobs[turn.job] \in JobType
      BY <1>1, <1>2
  <2>2. /\ jobs'[turn.job].noticed
        /\ jobs'[turn.job].state = jobs[turn.job].state
        /\ jobs'[turn.job].committed = jobs[turn.job].committed
        /\ jobs'[turn.job].revision = jobs[turn.job].revision
      BY <2>1 DEF JobType
  <2>3. \A i \in Jobs : i # turn.job => jobs'[i] = jobs[i]
      BY <1>1, <1>2
  <2> QED
      BY <2>2, <2>3 DEF Reserve
<1> QED
    BY <1>2 DEF Reserve

LEMMA SeenFacts ==
    ASSUME NEW j \in Jobs
    PROVE  \/ Seen(j) = jobs[j].state
           \/ /\ jobs[j].state \in Unsettled /\ t3[j].turn # "none"
              /\ Seen(j) \in {"started", "failed", "accepted"}
BY DEF Seen, Outcome

\* A command of the job in hand is sent: one more of its kind, and no other.
LEMMA DispatchFacts ==
    ASSUME TypeInv, turn.job \in Jobs, NEW kind \in Kinds, Dispatch(kind)
    PROVE  /\ wire' = wire \cup {<<turn.job, kind>>}
           /\ sent'[turn.job][kind] = sent[turn.job][kind] + 1
           /\ \A j \in Jobs, k \in Kinds :
                <<j, k>> # <<turn.job, kind>> => sent'[j][k] = sent[j][k]
BY DEF Dispatch, TypeInv, TypeOK, T3TypeOK

LEMMA T3Facts ==
    ASSUME TypeInv, T3
    PROVE  /\ wire' \subseteq wire /\ UNCHANGED <<jobs, voice, turn, sent, asked, given, told>>
           /\ \A j \in Jobs : /\ t3[j].thread # "none" => t3'[j].thread # "none"
                              /\ t3[j].turn # "none" => t3'[j].turn # "none"
<1>1. PICK j \in Jobs : T3Creates(j) \/ T3Starts(j) \/ T3Runs(j) \/ T3Archives(j)
    BY DEF T3
<1>2. wire' \subseteq wire /\ UNCHANGED <<jobs, voice, turn, sent, asked, given, told>>
    BY <1>1 DEF T3Creates, T3Starts, T3Runs, T3Archives
<1>3. \/ \E s \in {"there", "gone"} : t3' = [t3 EXCEPT ![j].thread = s]
      \/ \E s \in {"queued", "running", "completed", "error"} : t3' = [t3 EXCEPT ![j].turn = s]
    BY <1>1 DEF T3Creates, T3Starts, T3Runs, T3Archives
<1> QED
    BY <1>2, <1>3 DEF TypeInv, TypeOK, T3TypeOK, ThreadType

LEMMA JobStep ==
    ASSUME TypeInv, SafeInv, Next
    PROVE  JobInv'
<1>0. /\ jobs \in [Jobs -> JobType] /\ turn \in TurnType /\ voice \in VoiceType
      /\ JobInv /\ TurnInv
      /\ turn.pc \in Holding => turn.job \in Jobs
    BY DEF TypeInv, TypeOK, SafeInv, Engaged
<1>1. CASE UNCHANGED <<jobs, sent, t3>>
    BY <1>0, <1>1 DEF JobInv
<1>2. ASSUME NEW j \in Jobs, Propose(j) \/ Resume(j)
      PROVE  JobInv'
  <2>1. UNCHANGED <<sent, t3>>
      BY <1>2 DEF Propose, Resume
  <2> QED
      BY <1>0, <1>2, <2>1, ProposeFacts DEF JobInv, Unsettled
<1>3. ASSUME NEW j \in Jobs, NEW s, Set(j, s), UNCHANGED <<sent, t3>>,
             \/ s \in {"cancelled", "superseded"}
             \/ jobs[j].state \in Unsettled /\ s \in {"starting", "accepted"}
             \/ jobs[j].state = "creating" /\ s = "created"
             \/ jobs[j].state \in Unsettled /\ s \in {"started", "failed"} /\ t3[j].turn # "none"
             \/ s = jobs[j].state
      PROVE  JobInv'
    BY <1>0, <1>3, SetFacts DEF JobInv, Unsettled
<1>4. CASE Cancel \/ Replace
  <2>1. voice.proposal # NoJob => voice.proposal \in Jobs
      BY <1>0 DEF VoiceType
  <2> QED
      BY <1>1, <1>3, <1>4, <2>1 DEF Cancel, Replace
<1>5. CASE Commit
  <2>1. turn.pc = "checked" /\ turn.job \in Jobs /\ UNCHANGED <<sent, t3>>
      BY <1>0, <1>5 DEF Commit, Holding
  <2> QED
      BY <1>0, <1>1, <1>5, <2>1, CommitFacts DEF JobInv, TurnInv, Unsettled
<1>6. CASE Created \/ Begin
    BY <1>0, <1>3, <1>6 DEF Created, Begin, TurnInv, Holding, Unsettled
<1>7. CASE Reconcile \/ Poll
  <2>1. turn.job \in Jobs /\ UNCHANGED <<sent, t3>>
      BY <1>0, <1>7 DEF Reconcile, Poll, Holding
  <2>2. \/ Set(turn.job, Seen(turn.job))
        \/ Set(turn.job, "starting") /\ jobs[turn.job].state \in Unsettled
      BY <1>7 DEF Reconcile, Poll, MayStart, Unsettled
  <2> QED
      BY <1>3, <2>1, <2>2, SeenFacts
<1>8. CASE Reserve
  <2>1. UNCHANGED <<sent, t3>>
      BY <1>8 DEF Reserve
  <2>2. \A j \in Jobs : jobs'[j].state = jobs[j].state /\ jobs'[j].committed = jobs[j].committed
      BY <1>8, ReserveFacts
  <2> QED
      BY <1>0, <2>1, <2>2 DEF JobInv
<1>9. CASE SendCreate
  <2>1. /\ turn.job \in Jobs /\ jobs[turn.job].state = "creating" /\ UNCHANGED <<jobs, t3>>
        /\ Dispatch("create")
      BY <1>0, <1>9 DEF SendCreate, TurnInv, Holding
  <2>2. \A j \in Jobs : /\ sent'[j]["start"] = sent[j]["start"]
                        /\ j # turn.job => sent'[j]["create"] = sent[j]["create"]
      BY <2>1, DispatchFacts DEF Kinds
  <2> QED
      BY <1>0, <2>1, <2>2 DEF JobInv, Unsettled
<1>10. CASE SendStart
  <2>1. /\ turn.job \in Jobs /\ jobs[turn.job].state = "starting" /\ UNCHANGED <<jobs, t3>>
        /\ Dispatch("start")
      BY <1>0, <1>10 DEF SendStart, TurnInv, Holding
  <2>2. \A j \in Jobs : /\ sent'[j]["create"] = sent[j]["create"]
                        /\ j # turn.job => sent'[j]["start"] = sent[j]["start"]
      BY <2>1, DispatchFacts DEF Kinds
  <2> QED
      BY <1>0, <2>1, <2>2 DEF JobInv, Unsettled
<1>11. CASE T3
    BY <1>0, <1>11, T3Facts DEF JobInv
<1> QED
    BY <1>1, <1>2, <1>4, <1>5, <1>6, <1>7, <1>8, <1>9, <1>10, <1>11, NextIs
       DEF Speech, CallBegins, CallEnds, Speak, Crash, Talk, Delegate, Refused, Structure, Decide, CheckFails,
           Ordering, ConfirmAgain, Confirm, Unconfirmed, StartUnsent, Accepted, Looking, ReadFails,
           PollEnds, Answer, Scan, NextJob, Notify

LEMMA CommandStep ==
    ASSUME TypeInv, SafeInv, Next
    PROVE  CommandInv'
<1>0. /\ CommandInv /\ TurnInv /\ JobInv
      /\ sent \in [Jobs -> [Kinds -> Nat]] /\ wire \subseteq Jobs \X Kinds
      /\ told.jobs \subseteq Jobs
      /\ turn.pc \in Holding => turn.job \in Jobs
    BY DEF TypeInv, TypeOK, T3TypeOK, HistoryTypeOK, SafeInv, Engaged
<1>1. CASE UNCHANGED <<wire, sent, t3, told>>
    BY <1>0, <1>1 DEF CommandInv
<1>2. CASE SendCreate
  <2>1. /\ turn.job \in Jobs /\ sent[turn.job]["create"] = 0 /\ UNCHANGED <<t3, told>>
        /\ Dispatch("create") /\ "create" \in Kinds
      BY <1>0, <1>2 DEF SendCreate, TurnInv, Holding, Kinds
  <2>2. /\ wire' = wire \cup {<<turn.job, "create">>}
        /\ sent'[turn.job]["create"] = 1
        /\ \A j \in Jobs, k \in Kinds :
             <<j, k>> # <<turn.job, "create">> => sent'[j][k] = sent[j][k]
      BY <2>1, DispatchFacts
  <2> QED
      BY <1>0, <2>1, <2>2 DEF CommandInv, Kinds
<1>3. CASE SendStart
  <2>1. /\ turn.job \in Jobs /\ sent[turn.job]["start"] = 0 /\ UNCHANGED <<t3, told>>
        /\ t3[turn.job].thread # "none"
        /\ Dispatch("start") /\ "start" \in Kinds
      BY <1>0, <1>3 DEF SendStart, TurnInv, Holding, Kinds
  <2>2. /\ wire' = wire \cup {<<turn.job, "start">>}
        /\ sent'[turn.job]["start"] = 1
        /\ \A j \in Jobs, k \in Kinds :
             <<j, k>> # <<turn.job, "start">> => sent'[j][k] = sent[j][k]
      BY <2>1, DispatchFacts
  <2> QED
      BY <1>0, <2>1, <2>2 DEF CommandInv, Kinds
<1>4. CASE T3
    BY <1>0, <1>4, T3Facts DEF CommandInv
<1>5. CASE Answer \/ Notify
  <2>1. /\ turn.job \in Jobs /\ UNCHANGED <<wire, sent, t3>>
        /\ told'.jobs # told.jobs =>
             told'.jobs = told.jobs \cup {turn.job} /\ jobs[turn.job].state = "started"
    <3>1. told \in [jobs : SUBSET Jobs, notices : [Jobs -> Nat]]
        BY DEF TypeInv, TypeOK, HistoryTypeOK
    <3>2. CASE Answer
      <4>1. turn.job \in Jobs /\ UNCHANGED <<wire, sent, t3>>
          BY <1>0, <3>2 DEF Answer, Holding
      <4>2. [told EXCEPT !.jobs = @ \cup {turn.job}].jobs = told.jobs \cup {turn.job}
          BY <3>1
      <4> QED
          BY <3>2, <4>1, <4>2 DEF Answer
    <3>3. CASE Notify
        BY <1>0, <3>3 DEF Notify, TurnInv, Holding
    <3> QED
        BY <1>5, <3>2, <3>3
  <2> QED
      BY <1>0, <2>1 DEF CommandInv, JobInv
<1> QED
    BY <1>1, <1>2, <1>3, <1>4, <1>5, NextIs
       DEF Speech, CallBegins, CallEnds, Speak, Crash, Talk, Delegate, Refused, Structure, Cancel, Decide, CheckFails,
           Replace, Propose, Resume, Ordering, ConfirmAgain, Confirm, Commit, Created, Unconfirmed,
           Begin, StartUnsent, Accepted, Looking, Reconcile, ReadFails, Poll, PollEnds, Scan,
           NextJob, Reserve

LEMMA NoticeStep ==
    ASSUME TypeInv, SafeInv, Next
    PROVE  NoticeInv'
<1>0. /\ NoticeInv /\ TurnInv /\ jobs \in [Jobs -> JobType]
      /\ told \in [jobs : SUBSET Jobs, notices : [Jobs -> Nat]]
      /\ turn.pc \in Holding => turn.job \in Jobs
    BY DEF TypeInv, TypeOK, HistoryTypeOK, SafeInv, Engaged
<1>1. CASE /\ told'.notices = told.notices
           /\ \A j \in Jobs : jobs[j].noticed => jobs'[j].noticed
    BY <1>0, <1>1 DEF NoticeInv
<1>2. CASE Notify
  <2>1. /\ turn.job \in Jobs /\ jobs[turn.job].noticed /\ told.notices[turn.job] = 0
        /\ UNCHANGED jobs
        /\ told'.notices = [told.notices EXCEPT ![turn.job] = @ + 1]
      BY <1>0, <1>2 DEF Notify, TurnInv, Holding
  <2> QED
      BY <1>0, <2>1 DEF NoticeInv
<1>3. ASSUME NEW j \in Jobs, NEW s, Set(j, s)
      PROVE  \A i \in Jobs : jobs[i].noticed => jobs'[i].noticed
    BY <1>0, <1>3, SetFacts
<1>4. CASE (\E j \in Jobs : Propose(j) \/ Resume(j)) \/ Commit
    BY <1>1, <1>4, ProposeFacts, CommitFacts DEF Propose, Resume, Commit
<1>5. CASE Cancel \/ Replace
  <2>1. voice.proposal # NoJob => voice.proposal \in Jobs
      BY DEF TypeInv, TypeOK, VoiceType
  <2> QED
      BY <1>1, <1>3, <1>5, <2>1 DEF Cancel, Replace
<1>6. CASE Created \/ Begin \/ Reconcile \/ Poll
    BY <1>0, <1>1, <1>3, <1>6 DEF Created, Begin, Reconcile, Poll, Holding
<1>7. CASE Reserve
    BY <1>1, <1>7, ReserveFacts DEF Reserve
<1>8. CASE Answer
    BY <1>0, <1>1, <1>8 DEF Answer
<1>9. CASE UNCHANGED <<jobs, told>>
    BY <1>1, <1>9
<1> QED
    BY <1>2, <1>4, <1>5, <1>6, <1>7, <1>8, <1>9, T3Facts, NextIs
       DEF Speech, CallBegins, CallEnds, Speak, Crash, Talk, Delegate, Refused, Structure, Decide, CheckFails,
           Ordering, ConfirmAgain, Confirm, SendCreate, Unconfirmed,
           SendStart, StartUnsent, Accepted, Looking, ReadFails, PollEnds, Scan,
           NextJob

LEMMA TurnStep ==
    ASSUME TypeInv, SafeInv, Next
    PROVE  TurnInv'
<1>0. /\ TurnInv /\ SlotInv /\ NoticeInv /\ jobs \in [Jobs -> JobType] /\ turn \in TurnType
      /\ turn.pc \in Holding => turn.job \in Jobs
    BY DEF TypeInv, TypeOK, SafeInv, Engaged
<1>1. CASE turn'.pc \notin {"checked", "create", "creating", "begin", "start", "notify"}
    BY <1>1 DEF TurnInv
<1>2. CASE EndTurn
    BY <1>1, <1>2, NoTurnType DEF EndTurn
<1>3. ASSUME NEW label \in Labels, Goto(label)
      PROVE  turn'.pc = label /\ turn'.job = turn.job
    BY <1>0, <1>3, GotoType DEF Goto
<1>4. CASE UNCHANGED <<turn, jobs, sent, told>>
           /\ \A j \in Jobs : t3[j].thread # "none" => t3'[j].thread # "none"
    BY <1>0, <1>4 DEF TurnInv, Holding
<1>5. CASE Speech \/ T3
    BY <1>4, <1>5, T3Facts DEF Speech, CallBegins, CallEnds, Speak
<1>6. CASE Crash
    BY <1>1, <1>6, NoTurnType DEF Crash
<1>7. CASE Talk
  <2>1. CASE Delegate
      BY <1>1, <2>1 DEF Delegate, NoTurn
  <2>2. CASE \E j \in Jobs : Propose(j)
      BY <1>0, <1>1, <2>2 DEF Propose, TurnType
  <2>3. CASE Structure \/ Decide
      BY <1>1, <1>2, <1>3, <2>3 DEF Structure, Decide, Labels
  <2>4. CASE Refused \/ Cancel \/ CheckFails \/ Replace \/ \E j \in Jobs : Resume(j)
      BY <1>2, <2>4 DEF Refused, Cancel, CheckFails, Replace, Resume
  <2> QED
      BY <1>7, <2>1, <2>2, <2>3, <2>4 DEF Talk
<1>8. CASE Ordering
  <2>1. CASE ConfirmAgain
      BY <1>0, <1>1, <2>1 DEF ConfirmAgain, TurnType
  <2>2. CASE Confirm
    <3>1. CASE turn' = [turn EXCEPT !.job = voice.proposal, !.pc = "checked"]
        BY <1>0, <2>2, <3>1 DEF Confirm, TurnInv, TurnType
    <3> QED
        BY <1>2, <2>2, <3>1 DEF Confirm
  <2>3. CASE Commit
    <3>1. turn.job \in Jobs /\ jobs[turn.job].state = "proposed" /\ UNCHANGED sent
        BY <1>0, <2>3 DEF Commit, TurnInv, Holding
    <3>2. sent[turn.job]["create"] = 0
        BY <3>1 DEF SafeInv, JobInv
    <3>3. CASE turn' = [turn EXCEPT !.pc = "create", !.caught = TRUE]
               /\ jobs'[turn.job].state = "creating"
        BY <1>0, <3>1, <3>2, <3>3 DEF TurnInv, TurnType
    <3> QED
        BY <1>2, <2>3, <3>3, CommitFacts
  <2>4. CASE SendCreate
      BY <1>0, <1>3, <2>4 DEF SendCreate, TurnInv, Labels
  <2>5. CASE Created
      BY <1>0, <1>3, <2>5, SetFacts DEF Created, TurnInv, Holding, Labels
  <2>6. CASE Unconfirmed \/ StartUnsent
      BY <1>0, <1>1, <1>2, <2>6 DEF Unconfirmed, StartUnsent, Raise, TurnType
  <2>7. CASE Begin
    <3>1. /\ turn.job \in Jobs /\ jobs[turn.job].state = "created"
          /\ t3[turn.job].thread # "none" /\ UNCHANGED <<sent, t3>>
        BY <1>0, <2>7 DEF Begin, TurnInv, Holding
    <3>2. sent[turn.job]["start"] = 0
        BY <3>1 DEF SafeInv, JobInv
    <3> QED
        BY <1>0, <1>3, <2>7, <3>1, <3>2, SetFacts DEF Begin, TurnInv, Labels
  <2>8. CASE SendStart \/ Accepted
      BY <1>1, <1>3, <2>8 DEF SendStart, Accepted, Labels
  <2> QED
      BY <1>8, <2>1, <2>2, <2>3, <2>4, <2>5, <2>6, <2>7, <2>8 DEF Ordering
<1>9. CASE Looking
  <2>1. CASE Reconcile
    <3>1. turn.job \in Jobs
        BY <1>0, <2>1 DEF Reconcile, Holding
    <3>2. CASE MayStart(turn.job)
      <4>1. sent[turn.job]["start"] = 0 /\ t3[turn.job].thread # "none"
          BY <3>1, <3>2 DEF MayStart, SafeInv, JobInv
      <4> QED
          BY <1>0, <1>3, <2>1, <3>1, <3>2, <4>1, SetFacts DEF Reconcile, TurnInv, Labels
    <3> QED
        BY <1>1, <1>3, <2>1, <3>2 DEF Reconcile, Reconciled, Labels
  <2>2. CASE ReadFails \/ PollEnds \/ Notify
      BY <1>1, <1>3, <2>2 DEF ReadFails, PollEnds, Notify, Reconciled, Labels
  <2>3. CASE Poll \/ Answer
      BY <1>1, <1>2, <2>3 DEF Poll, Answer
  <2>4. CASE Scan
      BY <1>1, <2>4 DEF Scan, NoTurn
  <2>5. CASE NextJob
    <3>1. ASSUME NEW j \in turn.todo,
                 turn' = [turn EXCEPT !.pc = "reconcile", !.job = j, !.todo = @ \ {j}]
          PROVE  turn'.pc = "reconcile"
        BY <1>0, <3>1 DEF TurnType
    <3> QED
        BY <1>1, <1>2, <2>5, <3>1 DEF NextJob
  <2>6. CASE Reserve
    <3>1. turn.job \in Jobs /\ UNCHANGED told
        BY <1>0, <2>6 DEF Reserve, Holding
    <3> QED
        BY <1>0, <1>1, <1>3, <2>6, <3>1, ReserveFacts DEF TurnInv, NoticeInv, Labels
  <2> QED
      BY <1>9, <2>1, <2>2, <2>3, <2>4, <2>5, <2>6 DEF Looking
<1> QED
    BY <1>5, <1>6, <1>7, <1>8, <1>9, NextIs

LEMMA SlotStep ==
    ASSUME TypeInv, SafeInv, Next
    PROVE  SlotInv'
<1>0. /\ TurnInv /\ SlotInv /\ JobInv /\ jobs \in [Jobs -> JobType] /\ turn \in TurnType
      /\ voice \in VoiceType /\ given \in [Jobs -> [call : Nat, revision : Nat]]
      /\ turn.pc \in Holding => turn.job \in Jobs
      /\ voice.proposal # NoJob => voice.proposal \in Jobs
      /\ \A p \in Jobs \cup {NoJob} : [voice EXCEPT !.proposal = p].proposal = p
                                     /\ [voice EXCEPT !.proposal = p].call = voice.call
    BY DEF TypeInv, TypeOK, HistoryTypeOK, SafeInv, Engaged, VoiceType
<1>1. ASSUME UNCHANGED <<voice.call, voice.proposal, jobs, asked, given>>,
             turn' = turn \/ turn'.pc \notin {"think", "decided", "replace", "checked"}
      PROVE  SlotInv'
    BY <1>0, <1>1 DEF SlotInv, ProposedHere
<1>2. EndTurn => turn'.pc = "idle"
    BY NoTurnType DEF EndTurn
<1>3. ASSUME NEW label \in Labels, Goto(label)
      PROVE  turn'.pc = label /\ turn'.job = turn.job
    BY <1>0, <1>3, GotoType DEF Goto
<1>4. ASSUME NEW j \in Jobs, NEW s, Set(j, s), s \notin {"proposed", "superseded"},
             UNCHANGED <<voice, asked, given>>,
             turn'.pc \notin {"think", "decided", "replace", "checked"}
      PROVE  SlotInv'
    BY <1>0, <1>4, SetFacts DEF SlotInv, ProposedHere
<1>5. CASE Speech
  <2>1. CASE CallBegins
      BY <1>0, <2>1 DEF CallBegins, SlotInv
  <2>2. CASE CallEnds \/ Speak
    <3>1. voice'.call = voice.call /\ voice'.proposal = voice.proposal
        BY <1>0, <2>2 DEF CallEnds, Speak, VoiceType
    <3> QED
        BY <1>1, <2>2, <3>1 DEF CallEnds, Speak
  <2> QED
      BY <1>5, <2>1, <2>2 DEF Speech
<1>6. CASE T3
    BY <1>1, <1>6, T3Facts
<1>7. CASE Crash
  <2>1. voice'.proposal = NoJob /\ turn'.pc = "idle" /\ UNCHANGED <<jobs, asked, given>>
      BY <1>0, <1>7, NoTurnType DEF Crash, VoiceType
  <2> QED
      BY <1>0, <2>1 DEF SlotInv
<1>8. CASE Talk
  <2>1. CASE Delegate \/ Refused \/ CheckFails
      BY <1>1, <1>2, <2>1 DEF Delegate, Refused, CheckFails, NoTurn
  <2>2. CASE Structure
    <3>1. voice'.proposal = NoJob /\ turn'.pc = "think" /\ UNCHANGED <<jobs, asked, given>>
        BY <1>0, <1>3, <2>2 DEF Structure, Labels
    <3> QED
        BY <1>0, <3>1 DEF SlotInv
  <2>3. CASE Cancel
    <3>1. /\ voice'.proposal = NoJob /\ turn'.pc = "idle" /\ UNCHANGED <<asked, given>>
          /\ \A i \in Jobs : jobs'[i].committed = jobs[i].committed
        BY <1>0, <1>2, <2>3, SetFacts DEF Cancel
    <3> QED
        BY <1>0, <3>1 DEF SlotInv
  <2>4. CASE Decide
    <3>0. EndTurn \/ Goto("decided")
        BY <2>4, Zenon DEF Decide
    <3>1. turn.pc = "think" /\ turn'.pc \in {"idle", "decided"}
        BY <1>2, <1>3, <2>4, <3>0 DEF Decide, Labels
    <3> QED
        BY <1>0, <2>4, <3>1 DEF Decide, SlotInv, ProposedHere
  <2>5. CASE Replace
    <3>1. voice.proposal = NoJob /\ turn.job \in Jobs /\ ProposedHere(turn.job)
          /\ jobs[turn.job].state = "proposed"
        BY <1>0, <2>5 DEF Replace, SlotInv, Holding
    <3>2. UNCHANGED <<jobs, asked, given>> /\ turn'.pc = "idle"
          /\ voice'.proposal = turn.job /\ voice'.call = voice.call
        BY <1>0, <1>2, <2>5, <3>1 DEF Replace
    <3> QED
        BY <1>0, <3>1, <3>2 DEF SlotInv, ProposedHere
  <2>6. ASSUME NEW j \in Jobs, Propose(j) \/ Resume(j)
        PROVE  SlotInv'
    <3>1. \A i \in Jobs : jobs'[i].committed => given'[i].call = asked'[i].call
                                              /\ given'[i].revision > asked'[i].turn
      <4>1. given' = given /\ ~jobs[j].committed
          BY <1>0, <2>6, ProposeFacts DEF JobInv, Propose, Resume
      <4> QED
          BY <1>0, <2>6, <4>1, ProposeFacts DEF SlotInv
    <3>2. CASE Propose(j)
      <4>1. voice' = voice /\ turn'.pc = "replace" /\ turn'.job = j
          BY <1>0, <3>2 DEF Propose, TurnType
      <4>2. voice.proposal = NoJob
          BY <1>0, <3>2 DEF Propose, SlotInv
      <4> QED
          BY <2>6, <3>1, <4>1, <4>2, ProposeFacts DEF SlotInv, ProposedHere
    <3>3. CASE Resume(j)
      <4>1. voice'.proposal = j /\ voice'.call = voice.call /\ turn'.pc = "idle"
          BY <1>0, <1>2, <3>3 DEF Resume
      <4> QED
          BY <2>6, <3>1, <4>1, ProposeFacts DEF SlotInv, ProposedHere
    <3> QED
        BY <2>6, <3>2, <3>3
  <2> QED
      BY <1>8, <2>1, <2>2, <2>3, <2>4, <2>5, <2>6 DEF Talk
<1>9. CASE Ordering
  <2>1. CASE ConfirmAgain
      BY <1>0, <1>1, <2>1 DEF ConfirmAgain, TurnType
  <2>2. CASE Confirm
    <3>1. CASE /\ Fresh(voice.proposal)
               /\ turn' = [turn EXCEPT !.job = voice.proposal, !.pc = "checked"]
      <4>1. /\ turn'.pc = "checked" /\ turn'.job = voice.proposal
            /\ turn'.revision = turn.revision
            /\ UNCHANGED <<jobs, voice, asked, given>>
          BY <1>0, <2>2, <3>1 DEF Confirm, TurnType
      <4>2. /\ voice.proposal \in Jobs /\ ProposedHere(voice.proposal)
            /\ turn.revision > jobs[voice.proposal].revision
          BY <1>0, <2>2, <3>1 DEF Confirm, Confirming, SlotInv, Fresh
      <4> QED
          BY <1>0, <4>1, <4>2 DEF SlotInv, ProposedHere
    <3> QED
        BY <1>1, <1>2, <2>2, <3>1 DEF Confirm
  <2>3. CASE Commit
    <3>1. CASE EndTurn /\ UNCHANGED <<jobs, given>>
        BY <1>1, <1>2, <2>3, <3>1 DEF Commit
    <3>2. CASE ~UNCHANGED <<jobs, given>> \/ ~EndTurn
      <4>1. /\ turn'.pc = "create" /\ UNCHANGED <<voice, asked>> /\ turn.job \in Jobs
            /\ asked[turn.job].call = voice.call /\ turn.revision > asked[turn.job].turn
          BY <1>0, <2>3, <3>2, CommitFacts DEF Commit, SlotInv, TurnType, Holding
      <4> QED
          BY <1>0, <2>3, <3>2, <4>1, CommitFacts DEF SlotInv, ProposedHere
    <3> QED
        BY <3>1, <3>2
  <2>4. CASE SendCreate \/ SendStart \/ Accepted
      BY <1>1, <1>3, <2>4 DEF SendCreate, SendStart, Accepted, Labels
  <2>5. CASE Created \/ Begin
      BY <1>0, <1>3, <1>4, <2>5 DEF Created, Begin, Holding, Labels
  <2>6. CASE Unconfirmed \/ StartUnsent
      BY <1>0, <1>1, <1>2, <2>6 DEF Unconfirmed, StartUnsent, Raise, TurnType
  <2> QED
      BY <1>9, <2>1, <2>2, <2>3, <2>4, <2>5, <2>6 DEF Ordering
<1>10. CASE Looking
  <2>1. ASSUME Reconcile \/ Poll, Set(turn.job, Seen(turn.job))
        PROVE  SlotInv'
    <3>1. turn.job \in Jobs /\ UNCHANGED <<voice, asked, given>>
          /\ turn'.pc \notin {"think", "decided", "replace", "checked"}
        BY <1>0, <1>3, <2>1 DEF Reconcile, Reconciled, Poll, Holding, Labels
    <3>2. CASE Seen(turn.job) = jobs[turn.job].state
      <4>1. \A i \in Jobs : jobs'[i].state = jobs[i].state
          BY <1>0, <2>1, <3>1, <3>2, SetFacts
      <4> QED
          BY <1>0, <2>1, <3>1, <4>1, SetFacts DEF SlotInv, ProposedHere
    <3> QED
        BY <1>4, <2>1, <3>1, <3>2, SeenFacts
  <2>2. CASE Reconcile
    <3>1. CASE MayStart(turn.job)
        BY <1>0, <1>3, <1>4, <2>2, <3>1 DEF Reconcile, Holding, Labels
    <3> QED
        BY <2>1, <2>2, <3>1 DEF Reconcile
  <2>3. CASE ReadFails \/ PollEnds \/ Notify \/ Answer
      BY <1>1, <1>2, <1>3, <2>3 DEF ReadFails, PollEnds, Notify, Answer, Reconciled, Labels
  <2>4. CASE Scan
      BY <1>1, <2>4 DEF Scan, NoTurn
  <2>5. CASE NextJob
    <3>1. ASSUME NEW j \in turn.todo,
                 turn' = [turn EXCEPT !.pc = "reconcile", !.job = j, !.todo = @ \ {j}]
          PROVE  turn'.pc = "reconcile"
        BY <1>0, <3>1 DEF TurnType
    <3> QED
        BY <1>1, <1>2, <2>5, <3>1 DEF NextJob
  <2>6. CASE Reserve
    <3>1. /\ UNCHANGED <<voice, asked, given>>
          /\ turn'.pc \in {"next", "notify"}
          /\ \A i \in Jobs : /\ jobs'[i].state = jobs[i].state
                             /\ jobs'[i].committed = jobs[i].committed
                             /\ jobs'[i].revision = jobs[i].revision
        BY <1>3, <2>6, ReserveFacts DEF Reserve, Labels
    <3> QED
        BY <1>0, <3>1 DEF SlotInv, ProposedHere
  <2>7. CASE Poll
      BY <2>1, <2>7 DEF Poll
  <2> QED
      BY <1>10, <2>2, <2>3, <2>4, <2>5, <2>6, <2>7 DEF Looking
<1> QED
    BY <1>5, <1>6, <1>7, <1>8, <1>9, <1>10, NextIs

LEMMA SafeStep == TypeInv /\ SafeInv /\ [Next]_vars => SafeInv'
<1>1. ASSUME SafeInv, UNCHANGED vars
      PROVE  SafeInv'
    BY <1>1 DEF SafeInv, JobInv, CommandInv, TurnInv, NoticeInv, SlotInv, ProposedHere, vars
<1> QED
    BY <1>1, JobStep, CommandStep, TurnStep, NoticeStep, SlotStep DEF SafeInv

LEMMA Safe == Spec => [](TypeInv /\ SafeInv)
BY TypeInit, TypeStep, SafeInit, SafeStep, PTL DEF Spec

\* The first turn of a job is only sent to a thread that T3 has created, through
\* confirm, its handler, scans and restarts (tasks.py:100-132).
THEOREM ThreadBeforeTurn == Spec => []StartFollowsCreate
<1>1. TypeInv /\ SafeInv => StartFollowsCreate
    BY DEF SafeInv, CommandInv, StartFollowsCreate
<1> QED
    BY <1>1, Safe, PTL

\* Nothing is sent about a job that was not confirmed in the call in which it was last
\* proposed, at a later revision (tasks.py:72-79).
THEOREM NoStaleConfirmation == Spec => []ConfirmedWhereProposed
<1>1. TypeInv /\ SafeInv => ConfirmedWhereProposed
    BY DEF TypeInv, TypeOK, JobType, SafeInv, JobInv, SlotInv, ConfirmedWhereProposed
<1> QED
    BY <1>1, Safe, PTL

\* A job that says started or failed has its message in T3, also when reads fail
\* (tasks.py:126-128).
THEOREM StartedWasRead == Spec => []StartedIsRead
<1>1. TypeInv /\ SafeInv => StartedIsRead
    BY DEF SafeInv, JobInv, StartedIsRead
<1> QED
    BY <1>1, Safe, PTL

\* At most one message tells of a started job, whatever crashes (tasks.py:137-140).
THEOREM OneNotice == Spec => []NoticedOnce
<1>1. TypeInv /\ SafeInv => NoticedOnce
    BY DEF SafeInv, NoticeInv, NoticedOnce
<1> QED
    BY <1>1, Safe, PTL

\* A job that was cancelled or superseded stays so and sends nothing any more
\* (tasks.py:121, service.py:278 and 347).
THEOREM WithdrawnIsFinal == Spec => WithdrawnSendsNothing
<1> DEFINE Final == \A j \in Jobs : jobs[j].state \in {"cancelled", "superseded"} =>
                      jobs'[j].state = jobs[j].state /\ sent'[j] = sent[j]
<1>1. ASSUME TypeInv, SafeInv, Next
      PROVE  Final
  <2>0. /\ TurnInv /\ SlotInv /\ jobs \in [Jobs -> JobType]
        /\ sent \in [Jobs -> [Kinds -> Nat]]
        /\ turn.pc \in Holding => turn.job \in Jobs
        /\ voice.proposal # NoJob => voice.proposal \in Jobs
      BY <1>1 DEF TypeInv, TypeOK, T3TypeOK, SafeInv, Engaged, VoiceType
  <2>1. ASSUME NEW j \in Jobs, NEW s, Set(j, s), UNCHANGED sent,
               jobs[j].state \in {"cancelled", "superseded"} => s = jobs[j].state
        PROVE  Final
      BY <2>0, <2>1, SetFacts
  <2>2. CASE UNCHANGED <<jobs, sent>>
      BY <2>2
  <2>3. ASSUME NEW j \in Jobs, Propose(j) \/ Resume(j)
        PROVE  Final
      BY <1>1, <2>3, ProposeFacts DEF Propose, Resume
  <2>4. CASE Cancel \/ Replace
      BY <2>0, <2>1, <2>2, <2>4 DEF Cancel, Replace, SlotInv
  <2>5. CASE Commit
    <3>1. turn.job \in Jobs /\ jobs[turn.job].state = "proposed" /\ UNCHANGED sent
        BY <2>0, <2>5 DEF Commit, TurnInv, Holding
    <3> QED
        BY <1>1, <2>5, <3>1, CommitFacts
  <2>6. CASE Created \/ Begin
      BY <2>0, <2>1, <2>6 DEF Created, Begin, TurnInv, Holding
  <2>7. CASE Reconcile \/ Poll
    <3>1. turn.job \in Jobs /\ UNCHANGED sent
        BY <2>0, <2>7 DEF Reconcile, Poll, Holding
    <3>2. \/ Set(turn.job, Seen(turn.job))
          \/ Set(turn.job, "starting") /\ jobs[turn.job].state \in {"creating", "created"}
        BY <2>7 DEF Reconcile, Poll, MayStart
    <3> QED
        BY <2>1, <3>1, <3>2, SeenFacts DEF Unsettled
  <2>8. CASE Reserve
      BY <1>1, <2>8, ReserveFacts DEF Reserve
  <2>9. CASE SendCreate \/ SendStart
    <3>1. /\ turn.job \in Jobs /\ jobs[turn.job].state \in {"creating", "starting"}
          /\ UNCHANGED jobs /\ \E kind \in Kinds : Dispatch(kind)
        BY <2>0, <2>9 DEF SendCreate, SendStart, TurnInv, Holding, Kinds
    <3> QED
        BY <2>0, <3>1 DEF Dispatch
  <2>10. CASE T3
      BY <1>1, <2>10, T3Facts
  <2> QED
      BY <1>1, <2>2, <2>3, <2>4, <2>5, <2>6, <2>7, <2>8, <2>9, <2>10, NextIs
         DEF Speech, CallBegins, CallEnds, Speak, Crash, Talk, Delegate, Refused, Structure, Decide,
             CheckFails, Ordering, ConfirmAgain, Confirm, Unconfirmed, StartUnsent, Accepted,
             Looking, ReadFails, PollEnds, Answer, Scan, NextJob, Notify
<1>2. TypeInv /\ SafeInv /\ [Next]_vars => [Final]_vars
    BY <1>1
<1> QED
    BY <1>2, TypeInit, TypeStep, SafeInit, SafeStep, PTL DEF Spec, WithdrawnSendsNothing

-----------------------------------------------------------------------------
(* The launcher implements CommandOnce.                                    *)

LEMMA OnceInit == Init => Once!Init
<1> SUFFICES ASSUME Init PROVE Once!Init
    OBVIOUS
<1>1. Recorded = {} /\ Executed = {} /\ Reported = {}
    BY DEF Init, Recorded, Executed, Reported, Commands, Kinds, NewJob
<1>2. Sends = [c \in Commands |-> 0]
    BY DEF Init, Sends, Commands
<1> QED
    BY <1>1, <1>2 DEF Once!Init

LEMMA OnceStep ==
    ASSUME TypeInv, SafeInv, TypeInv', SafeInv', Next
    PROVE  Once!Next \/ UNCHANGED Once!vars
<1>0. /\ TurnInv /\ CommandInv /\ JobInv /\ jobs \in [Jobs -> JobType] /\ jobs' \in [Jobs -> JobType]
      /\ sent \in [Jobs -> [Kinds -> Nat]] /\ sent' \in [Jobs -> [Kinds -> Nat]]
      /\ t3 \in [Jobs -> ThreadType] /\ wire \subseteq Jobs \X Kinds
      /\ told \in [jobs : SUBSET Jobs, notices : [Jobs -> Nat]]
      /\ turn.pc \in Holding => turn.job \in Jobs
      /\ voice.proposal # NoJob => voice.proposal \in Jobs
    BY DEF TypeInv, TypeOK, T3TypeOK, HistoryTypeOK, SafeInv, Engaged, VoiceType
<1>1. ASSUME \A j \in Jobs : jobs'[j].committed = jobs[j].committed
      PROVE  UNCHANGED Recorded
    BY <1>1 DEF Recorded, Commands
<1>2. UNCHANGED sent => UNCHANGED Sends
    BY DEF Sends
<1>3. UNCHANGED t3 => UNCHANGED Executed
    BY DEF Executed
<1>4. told'.jobs = told.jobs => UNCHANGED Reported
    BY DEF Reported
<1>5. ASSUME UNCHANGED <<sent, t3>>, told'.jobs = told.jobs,
             \A j \in Jobs : jobs'[j].committed = jobs[j].committed
      PROVE  UNCHANGED Once!vars
    BY <1>1, <1>2, <1>3, <1>4, <1>5 DEF Once!vars
<1>6. ASSUME NEW j \in Jobs, NEW s, Set(j, s), UNCHANGED <<sent, t3, told>>
      PROVE  UNCHANGED Once!vars
    BY <1>0, <1>5, <1>6, SetFacts
<1>7. ASSUME NEW j \in Jobs, Propose(j) \/ Resume(j)
      PROVE  UNCHANGED Once!vars
    BY <1>5, <1>7, ProposeFacts DEF Propose, Resume
<1>8. CASE Cancel \/ Replace \/ Created \/ Begin \/ Reconcile \/ Poll
    BY <1>0, <1>5, <1>6, <1>8 DEF Cancel, Replace, Created, Begin, Reconcile, Poll, Holding
<1>9. CASE Reserve
    BY <1>5, <1>9, ReserveFacts DEF Reserve
<1>10. CASE Commit
  <2>1. turn.job \in Jobs /\ UNCHANGED <<sent, t3, told>>
      BY <1>0, <1>10 DEF Commit, Holding
  <2>2. CASE UNCHANGED jobs
      BY <1>5, <2>1, <2>2
  <2>3. CASE jobs'[turn.job].committed /\ \A i \in Jobs : i # turn.job => jobs'[i] = jobs[i]
    <3>1. Recorded \subseteq Recorded' /\ Recorded' \subseteq Commands
        BY <2>3 DEF Recorded, Commands
    <3>2. Recorded' = Recorded \cup (Recorded' \ Recorded)
          /\ Recorded' \ Recorded \in SUBSET (Commands \ Recorded)
        BY <3>1
    <3>3. Once!Record
        BY <1>2, <1>3, <1>4, <2>1, <3>2 DEF Once!Record
    <3> QED
        BY <3>3 DEF Once!Next
  <2> QED
      BY <1>10, <2>2, <2>3, CommitFacts
<1>11. ASSUME NEW kind \in Kinds, turn.job \in Jobs, Dispatch(kind),
              sent[turn.job][kind] = 0, jobs[turn.job].committed, UNCHANGED <<jobs, t3, told>>
       PROVE  Once!Next
  <2> DEFINE c == <<turn.job, kind>>
  <2>1. c \in Commands /\ c \in Recorded /\ Sends[c] = 0
      BY <1>11 DEF Commands, Recorded, Sends
  <2>2. Sends' = [Sends EXCEPT ![c] = 1]
    <3>1. \A d \in Commands : Sends'[d] = IF d = c THEN 1 ELSE Sends[d]
        BY <1>0, <1>11, DispatchFacts DEF Sends, Commands
    <3>2. Sends' = [d \in Commands |-> Sends'[d]] /\ Sends = [d \in Commands |-> Sends[d]]
        BY DEF Sends, Commands
    <3> QED
        BY <3>1, <3>2
  <2>3. Once!Send(c)
      BY <1>1, <1>3, <1>4, <1>11, <2>1, <2>2 DEF Once!Send
  <2> QED
      BY <2>1, <2>3 DEF Once!Next
<1>12. CASE SendCreate \/ SendStart
  <2>1. turn.job \in Jobs /\ jobs[turn.job].state \in Unsettled
      BY <1>0, <1>12 DEF SendCreate, SendStart, TurnInv, Holding, Unsettled
  <2>2. jobs[turn.job].committed
      BY <1>0, <2>1 DEF JobInv
  <2> QED
      BY <1>0, <1>11, <1>12, <2>1, <2>2 DEF SendCreate, SendStart, TurnInv, Kinds
<1>13. CASE T3
  <2>1. UNCHANGED <<jobs, sent, told>>
      BY <1>13, T3Facts
  <2>2. PICK j \in Jobs : T3Creates(j) \/ T3Starts(j) \/ T3Runs(j) \/ T3Archives(j)
      BY <1>13 DEF T3
  <2>3. ASSUME NEW c \in Commands, Sends[c] = 1, Executed' = Executed \cup {c}
        PROVE  Once!Next
    <3>1. Once!Execute(c)
        BY <1>1, <1>2, <1>4, <2>1, <2>3 DEF Once!Execute
    <3> QED
        BY <2>3, <3>1 DEF Once!Next
  <2>4. CASE T3Creates(j)
    <3>1. <<j, "create">> \in Commands /\ Sends[<<j, "create">>] = 1
        BY <1>0, <2>4 DEF T3Creates, Commands, Sends, CommandInv, Kinds
    <3>2. t3'[j].thread = "there" /\ \A i \in Jobs : /\ i # j => t3'[i] = t3[i]
                                                     /\ t3'[i].turn = t3[i].turn
        BY <1>0, <2>4 DEF T3Creates, ThreadType
    <3>3. Executed' = Executed \cup {<<j, "create">>}
        BY <3>2 DEF Executed, Commands, Kinds
    <3> QED
        BY <2>3, <3>1, <3>3
  <2>5. CASE T3Starts(j)
    <3>1. <<j, "start">> \in Commands /\ Sends[<<j, "start">>] = 1
        BY <1>0, <2>5 DEF T3Starts, Commands, Sends, CommandInv, Kinds
    <3>2. t3'[j].turn = "queued" /\ \A i \in Jobs : /\ i # j => t3'[i] = t3[i]
                                                    /\ t3'[i].thread = t3[i].thread
        BY <1>0, <2>5 DEF T3Starts, ThreadType
    <3>3. Executed' = Executed \cup {<<j, "start">>}
        BY <3>2 DEF Executed, Commands, Kinds
    <3> QED
        BY <2>3, <3>1, <3>3
  <2>6. CASE T3Runs(j) \/ T3Archives(j)
    <3>1. \A i \in Jobs : /\ (t3'[i].thread = "none") <=> (t3[i].thread = "none")
                          /\ (t3'[i].turn = "none") <=> (t3[i].turn = "none")
      <4>1. \/ t3[j].thread # "none" /\ t3' = [t3 EXCEPT ![j].thread = "gone"]
            \/ /\ t3[j].turn # "none"
               /\ \E s \in {"running", "completed", "error"} : t3' = [t3 EXCEPT ![j].turn = s]
          BY <2>6 DEF T3Runs, T3Archives
      <4>2. t3[j] \in ThreadType /\ \A i \in Jobs : i # j => t3'[i] = t3[i]
          BY <1>0, <4>1
      <4>3. \/ t3[j].thread # "none" /\ t3'[j] = [t3[j] EXCEPT !.thread = "gone"]
            \/ /\ t3[j].turn # "none"
               /\ \E s \in {"running", "completed", "error"} : t3'[j] = [t3[j] EXCEPT !.turn = s]
          BY <1>0, <4>1
      <4>4. /\ (t3'[j].thread = "none") <=> (t3[j].thread = "none")
            /\ (t3'[j].turn = "none") <=> (t3[j].turn = "none")
          BY <4>2, <4>3 DEF ThreadType
      <4> QED
          BY <4>2, <4>4
    <3>2. UNCHANGED Executed
        BY <3>1 DEF Executed, Commands, Kinds
    <3> QED
        BY <1>1, <1>2, <1>4, <2>1, <3>2 DEF Once!vars
  <2> QED
      BY <2>2, <2>4, <2>5, <2>6
<1>14. CASE Answer \/ Notify
  <2>1. turn.job \in Jobs /\ UNCHANGED <<jobs, sent, t3>>
      BY <1>0, <1>14 DEF Answer, Notify, Holding
  <2>2. CASE told'.jobs = told.jobs
      BY <1>5, <2>1, <2>2
  <2>3. CASE told'.jobs = told.jobs \cup {turn.job} /\ jobs[turn.job].state = "started"
    <3> DEFINE c == <<turn.job, "start">>
    <3>1. c \in Commands /\ c \in Executed
        BY <1>0, <2>1, <2>3 DEF Commands, Executed, Kinds, JobInv
    <3>2. Reported' = Reported \cup {c}
        BY <1>0, <2>3 DEF Reported
    <3>3. Once!Report(c)
        BY <1>1, <1>2, <1>3, <2>1, <3>1, <3>2 DEF Once!Report
    <3> QED
        BY <3>1, <3>3 DEF Once!Next
  <2>4. CASE Answer
    <3>1. [told EXCEPT !.jobs = @ \cup {turn.job}].jobs = told.jobs \cup {turn.job}
        BY <1>0
    <3> QED
        BY <2>2, <2>3, <2>4, <3>1 DEF Answer
  <2>5. CASE Notify
      BY <1>0, <2>3, <2>5 DEF Notify, TurnInv
  <2> QED
      BY <1>14, <2>4, <2>5
<1>15. CASE UNCHANGED <<jobs, sent, t3, told>>
    BY <1>5, <1>15
<1> QED
    BY <1>7, <1>8, <1>9, <1>10, <1>12, <1>13, <1>14, <1>15, NextIs
       DEF Speech, CallBegins, CallEnds, Speak, Crash, Talk, Delegate, Refused, Structure, Decide,
           CheckFails, Ordering, ConfirmAgain, Confirm, Unconfirmed, StartUnsent, Accepted,
           Looking, ReadFails, PollEnds, Scan, NextJob

\* Whatever crashes, timeouts and scans do, each command is recorded, then sent, at
\* most once, and reported after T3 has executed it (docs/architecture.md:38, 46-54).
THEOREM LauncherSendsOnce == Spec => CommandsOnce
<1>1. TypeInv /\ SafeInv /\ TypeInv' /\ SafeInv' /\ [Next]_vars => [Once!Next]_Once!vars
  <2>1. ASSUME UNCHANGED vars
        PROVE  UNCHANGED Once!vars
      BY <2>1 DEF vars, Once!vars, Recorded, Sends, Executed, Reported
  <2> QED
      BY <2>1, OnceStep
<1> QED
    BY <1>1, OnceInit, Safe, PTL DEF Spec, CommandsOnce, Once!Spec
=============================================================================
