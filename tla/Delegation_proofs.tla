--------------------------- MODULE Delegation_proofs ---------------------------
(***************************************************************************)
(* Proofs about Delegation, for any number of requests, inputs, calls and  *)
(* crashes: types, that an answer is recorded before it is sent and sent   *)
(* at most once (the answers implement CommandOnce), that a decision is    *)
(* spoken of only when one was sent and T3 has it, and that a question     *)
(* taken over on the phone waits for new speech.                           *)
(***************************************************************************)
EXTENDS Delegation, WellFoundedInduction, TLAPS

Speakers == {"discovery", "refresh", "voice", "text"}

-----------------------------------------------------------------------------
(* What reading T3 does to an operation.                                   *)

LEMMA LowestIsMember ==
    ASSUME NEW S \in SUBSET Nat, S # {}
    PROVE  LowestOf(S) \in S
<1> DEFINE Less == OpToRel(<, Nat)
<1>1. Less = {ss \in Nat \X Nat : ss[1] < ss[2]}
    BY Zenon DEF OpToRel
<1>2. S \subseteq Nat
    OBVIOUS
<1>3. PICK r \in S : \A q \in S : <<q, r>> \notin Less
    BY <1>2, NatLessThanWellFounded, WFMin
<1> HIDE DEF Less
<1>4. ASSUME NEW q \in S PROVE r <= q
  <2>1. CASE q < r
    <3>1. <<q, r>> \in Nat \X Nat /\ <<q, r>>[1] < <<q, r>>[2]
        BY <1>2, <2>1
    <3> QED
        BY <3>1, <1>1, <1>3
  <2> QED
      BY <2>1, <1>2
<1> QED
    BY <1>4 DEF LowestOf

LEMMA PendingType == Pending \subseteq Requests /\ Requests \subseteq Nat
BY DEF Pending, Requests

\* Adopting a question keeps the record of the mutations.
LEMMA ObserveFacts ==
    ASSUME T3TypeOK, inputs \in Nat,
           NEW o \in OperationType, NEW revision \in Nat, NEW who \in Speakers
    PROVE  /\ Observe(o, revision, who) \in OperationType
           /\ Observe(o, revision, who).uncertain = o.uncertain
           /\ Observe(o, revision, who).delivered = o.delivered
<1>1. CASE Pending \ o.delivered = {}
    BY <1>1 DEF Observe
<1>2. CASE Pending \ o.delivered # {}
  <2> DEFINE r == LowestOf(Pending \ o.delivered)
  <2>1. r \in Requests
      BY <1>2, PendingType, LowestIsMember
  <2>2. thread.version[r] \in Nat
      BY <2>1 DEF T3TypeOK, ThreadType
  <2>3. Observe(o, revision, who) = Adopt(o, r, revision, who)
      BY <1>2 DEF Observe
  <2> HIDE DEF r
  <2>4. /\ Handoff(o, r) \in OperationType
        /\ Handoff(o, r).uncertain = o.uncertain
        /\ Handoff(o, r).delivered = o.delivered
      BY <2>1, <2>2 DEF Handoff, OperationType
  <2> QED
      BY <2>3, <2>4 DEF Adopt, OperationType, Speakers
<1> QED
    BY <1>1, <1>2

\* A refresh changes the question and the status, not the mutations.
LEMMA RefreshFacts ==
    ASSUME T3TypeOK, inputs \in Nat, NEW o \in OperationType
    PROVE  /\ Refresh(o) \in OperationType
           /\ Refresh(o).uncertain = o.uncertain
           /\ Refresh(o).delivered = o.delivered
<1> DEFINE d == IF o.submitted THEN Observe(o, 0, "refresh") ELSE o
<1>1. /\ d \in OperationType
      /\ d.uncertain = o.uncertain
      /\ d.delivered = o.delivered
    BY ObserveFacts DEF Speakers
<1>2. CASE o.status = "completed" /\ o.completed
    BY <1>2 DEF Refresh
<1>3. CASE ~(o.status = "completed" /\ o.completed)
  <2>1. PICK status \in Statuses : Refresh(o) = [d EXCEPT !.status = status]
    <3> DEFINE gone == ~o.submitted /\ o.request \notin Pending
               status == CASE d.completed -> "completed"
                           [] ~d.completed /\ d.deferred -> "deferred"
                           [] ~d.completed /\ ~d.deferred /\ gone -> "stale"
                           [] ~d.completed /\ ~d.deferred /\ ~gone /\ d.status = "completed"
                                -> "open"
                           [] OTHER -> d.status
    <3>1. d.status \in Statuses /\ d.completed \in BOOLEAN /\ d.deferred \in BOOLEAN
        BY <1>1 DEF OperationType
    <3>2. status \in Statuses
        BY <3>1 DEF Statuses
    <3>3. Refresh(o) = [d EXCEPT !.status = status]
        BY <1>3 DEF Refresh
    <3> QED
        BY <3>2, <3>3
  <2> HIDE DEF d
  <2> QED
      BY <1>1, <2>1 DEF OperationType
<1> QED
    BY <1>2, <1>3

LEMMA OutcomeFacts ==
    ASSUME NEW o \in OperationType
    PROVE  /\ Outcome(o) \in OperationType
           /\ Outcome(o).uncertain = o.uncertain
           /\ Outcome(o).delivered = o.delivered
BY DEF Outcome, OperationType, Statuses

LEMMA RevisionType ==
    ASSUME DialogTypeOK, UserTypeOK
    PROVE  Revision \in Nat
BY DEF Revision, DialogTypeOK, UserTypeOK, TurnType

-----------------------------------------------------------------------------
(* Types.                                                                  *)

\* A dialog call under way is one of the two callers'.  Without this the author of
\* an adoption has no type: TypeOK alone is not inductive.
Engaged == pc # "idle" => turn.channel \in {"voice", "text"}

\* What waits for the lock is a turn of a call.
Overheard == heard # NoTurn => heard.channel = "voice"

TypeInv == TypeOK /\ Engaged /\ Overheard

LEMMA ReturnType ==
    ASSUME NEW o \in OperationType, Return(o) \/ Leave(o)
    PROVE  DialogTypeOK' /\ Engaged'
<1>1. NoTurn \in TurnType
    BY DEF NoTurn, TurnType, Intents
<1> QED
    BY <1>1, OutcomeFacts DEF Return, Leave, DialogTypeOK, Engaged, Steps

LEMMA TypeInit == Init => TypeInv
BY ConstantsAssumption
   DEF Init, TypeInv, Engaged, Overheard, TypeOK, DialogTypeOK, UserTypeOK, T3TypeOK, NewOperation, NoTurn, OperationType,
       TurnType, ThreadType, Requests, Steps, Statuses, Intents, NoRevision

LEMMA AbortType ==
    ASSUME TypeOK, Abort
    PROVE  DialogTypeOK' /\ Engaged'
BY DEF Abort, TypeOK, DialogTypeOK, Engaged, NoTurn, TurnType, Intents, Steps

LEMMA GotoType ==
    ASSUME TypeInv, pc # "idle", NEW step \in Steps, Goto(step),
           NEW o \in OperationType, op' = o, saved' \in OperationType
    PROVE  DialogTypeOK' /\ Engaged'
BY DEF Goto, TypeInv, TypeOK, DialogTypeOK, Engaged

LEMMA ConfirmType ==
    ASSUME TypeInv, pc # "idle", NEW o \in OperationType, Confirm(o)
    PROVE  DialogTypeOK' /\ Engaged'
<1> DEFINE done == [o EXCEPT !.submitted = TRUE, !.completed = turn.intent = "decision",
                             !.uncertain = FALSE]
<1>1. done \in OperationType /\ [done EXCEPT !.adopted = NoRevision] \in OperationType
    BY DEF OperationType, NoRevision
<1>2. /\ saved' = done /\ op' = [done EXCEPT !.adopted = NoRevision]
      /\ Goto("watch")
    BY DEF Confirm
<1> HIDE DEF done
<1> QED
    BY <1>1, <1>2, GotoType DEF Steps

\* The steps of a dialog call.
LEMMA DialogTypeStep ==
    ASSUME TypeInv, Scan \/ VoiceTurn \/ Dialog
    PROVE  DialogTypeOK' /\ Engaged'
<1>0. /\ op \in OperationType /\ saved \in OperationType /\ turn \in TurnType
      /\ TypeOK /\ DialogTypeOK /\ UserTypeOK /\ T3TypeOK /\ inputs \in Nat
      /\ Revision \in Nat
    BY RevisionType DEF TypeInv, TypeOK, DialogTypeOK, UserTypeOK
<1> DEFINE o == Refresh(op)
           stale == [op EXCEPT !.status = "stale"]
           marked == [op EXCEPT !.uncertain = TRUE]
           seen == Observe(op, Revision, turn.channel)
<1>a. o \in OperationType /\ stale \in OperationType /\ marked \in OperationType
    BY <1>0, RefreshFacts DEF OperationType, Statuses
<1>b. pc # "idle" => seen \in OperationType
    BY <1>0, ObserveFacts DEF TypeInv, Engaged, Speakers
<1>1. CASE Scan
    BY <1>1, <1>a, ReturnType DEF Scan
<1>2. CASE VoiceTurn
    BY <1>2, <1>0 DEF VoiceTurn, DialogTypeOK, TypeInv, Engaged
<1>3. CASE VoiceRespond
  <2>1. [o EXCEPT !.deferred = FALSE] \in OperationType
      BY <1>a DEF OperationType
  <2>2. \/ Abort
        \/ Leave(stale) \/ Leave(o)
        \/ /\ op' = [o EXCEPT !.deferred = FALSE] /\ saved' = o
           /\ pc' = "start" /\ turn' = heard /\ heard # NoTurn
      BY <1>3 DEF VoiceRespond
  <2>3. heard \in TurnType /\ (heard # NoTurn => heard.channel = "voice")
      BY <1>0 DEF UserTypeOK, TypeInv, Overheard
  <2> HIDE DEF o, stale
  <2>4. CASE /\ op' = [o EXCEPT !.deferred = FALSE] /\ saved' = o
             /\ pc' = "start" /\ turn' = heard /\ heard # NoTurn
      BY <1>a, <2>1, <2>3, <2>4 DEF DialogTypeOK, Engaged, Steps
  <2> QED
      BY <1>0, <1>a, <2>2, <2>4, AbortType, ReturnType
<1>4. CASE Respond
  <2> DEFINE fresh == [o EXCEPT !.status = "open", !.deferred = FALSE,
                                !.adopted = NoRevision, !.adopted_by = "text",
                                !.completed = @ /\ o.status # "completed"]
             later == [o EXCEPT !.deferred = TRUE, !.status = "deferred"]
  <2>1. fresh \in OperationType /\ later \in OperationType
      BY <1>a DEF OperationType, Statuses, NoRevision
  <2>2. pc # "idle" /\ \/ Abort
                       \/ Leave(o) \/ Leave(later)
                       \/ op' = fresh /\ saved' = fresh /\ Goto("start")
      BY <1>4 DEF Respond
  <2> HIDE DEF o, fresh, later
  <2> QED
      BY <1>0, <1>a, <2>1, <2>2, AbortType, ReturnType, GotoType DEF Steps
<1>5. CASE StartDialog
  <2>1. pc # "idle" /\ \/ Return(op) \/ Return(seen)
                       \/ Goto("coordinate") /\ UNCHANGED <<op, saved>>
      BY <1>5 DEF StartDialog
  <2> HIDE DEF seen
  <2> QED
      BY <1>0, <1>b, <2>1, ReturnType, GotoType DEF Steps
<1>6. CASE Coordinate
  <2>1. [op EXCEPT !.deferred = TRUE] \in OperationType
      BY <1>0 DEF OperationType
  <2>2. CASE Return(op) \/ Return([op EXCEPT !.deferred = TRUE])
      BY <1>0, <2>1, <2>2, ReturnType
  <2>3. CASE /\ \E i \in Intents : turn' = [turn EXCEPT !.intent = i]
             /\ pc' = "decide" /\ UNCHANGED <<op, saved>>
      BY <1>0, <1>6, <2>3 DEF Coordinate, TypeInv, Engaged, DialogTypeOK, TurnType, Steps
  <2>4. CASE CreateCoordinator
      BY <1>0, <2>4 DEF CreateCoordinator, TypeInv, Engaged, DialogTypeOK
  <2> QED
      BY <1>6, <2>2, <2>3, <2>4 DEF Coordinate
<1>7. CASE Decide
  <2>1. pc # "idle" /\ \/ Return(op) \/ Return(seen)
                       \/ op' = marked /\ saved' = marked /\ Goto("send_answer")
                       \/ op' = marked /\ saved' = marked /\ Goto("send_turn")
      BY <1>7 DEF Decide
  <2> HIDE DEF seen, marked
  <2> QED
      BY <1>0, <1>a, <1>b, <2>1, ReturnType, GotoType DEF Steps
<1>8. CASE SendAnswer
    BY <1>0, <1>8, ReturnType, GotoType DEF SendAnswer, Steps
<1>9. CASE Await
  <2>1. CASE Return(op)
      BY <1>0, <2>1, ReturnType
  <2>2. CASE Confirm([op EXCEPT !.delivered = @ \cup {op.request}])
    <3>1. [op EXCEPT !.delivered = @ \cup {op.request}] \in OperationType
        BY <1>0 DEF OperationType
    <3> QED
        BY <1>9, <2>2, <3>1, ConfirmType DEF Await
  <2> QED
      BY <1>9, <2>1, <2>2 DEF Await
<1>10. CASE SendTurn
    BY <1>0, <1>10, ReturnType, GotoType DEF SendTurn, Steps
<1>11. CASE TurnReceipt
    BY <1>0, <1>11, ReturnType, ConfirmType DEF TurnReceipt
<1>12. CASE Watch
    BY <1>0, <1>b, <1>12, ReturnType DEF Watch
<1> QED
    BY <1>1, <1>2, <1>3, <1>4, <1>5, <1>6, <1>7, <1>8, <1>9, <1>10, <1>11, <1>12 DEF Dialog

\* A text taken up, and the steps of the user, of T3 and of a crash.
LEMMA OtherTypeStep ==
    ASSUME TypeInv, TakeText \/ User \/ T3 \/ Crash
    PROVE  DialogTypeOK' /\ Engaged'
<1>0. /\ op \in OperationType /\ saved \in OperationType /\ turn \in TurnType
      /\ TypeOK /\ DialogTypeOK /\ UserTypeOK /\ T3TypeOK /\ inputs \in Nat
    BY DEF TypeInv, TypeOK, DialogTypeOK, UserTypeOK
<1>1. CASE TakeText
  <2> DEFINE o == IF Contactable(op) THEN Refresh(op) ELSE op
  <2>1. o \in OperationType
      BY <1>0, RefreshFacts
  <2> DEFINE m == LowestOf(texts)
  <2>2. \/ Abort \/ Leave(o)
        \/ /\ op' = o /\ saved' = o /\ pc' = "respond"
           /\ turn' = [NoTurn EXCEPT !.channel = "text", !.input = m]
      BY <1>1 DEF TakeText
  <2>3. m \in Nat
    <3>1. texts \in SUBSET Nat /\ texts # {}
        BY <1>0, <1>1 DEF UserTypeOK, TakeText
    <3> QED
        BY <3>1, LowestIsMember
  <2> HIDE DEF m
  <2>4. [NoTurn EXCEPT !.channel = "text", !.input = m] \in TurnType
      BY <2>3 DEF NoTurn, TurnType, Intents
  <2>5. [NoTurn EXCEPT !.channel = "text", !.input = m].channel = "text"
      BY DEF NoTurn
  <2> HIDE DEF o
  <2> QED
      BY <1>0, <2>1, <2>2, <2>4, <2>5, AbortType, ReturnType DEF DialogTypeOK, Engaged, Steps
<1>2. CASE User
    BY <1>0, <1>2 DEF User, StartCall, Speak, EndCall, Text, DialogTypeOK, TypeInv, Engaged
<1>3. CASE T3
    BY <1>0, <1>3 DEF T3, T3Asks, T3Closes, T3Runs, T3Archives, T3Executes, DialogTypeOK,
                      TypeInv, Engaged
<1>4. CASE Crash
    BY <1>0, <1>4 DEF Crash, DialogTypeOK, Engaged, NoTurn, TurnType, Intents, Steps
<1> QED
    BY <1>1, <1>2, <1>3, <1>4

LEMMA UserTypeStep ==
    ASSUME TypeInv, Next
    PROVE  UserTypeOK' /\ Overheard'
<1>0. /\ call \in [on : BOOLEAN, number : Nat, revision : Nat, last : Nat]
      /\ heard \in TurnType /\ texts \subseteq Nat /\ inputs \in Nat /\ Overheard
    BY DEF TypeInv, TypeOK, UserTypeOK
<1>a. call.number + 1 \in Nat /\ call.revision + 1 \in Nat /\ inputs + 1 \in Nat
    BY <1>0
<1>b. NoTurn \in TurnType
    BY DEF NoTurn, TurnType, Intents
<1>1. CASE UNCHANGED userVars
    BY <1>0, <1>1 DEF userVars, UserTypeOK, Overheard
<1>2. CASE TakeText
    BY <1>0, <1>2 DEF TakeText, UserTypeOK, Overheard
<1>3. CASE VoiceTurn
  <2> DEFINE t == [NoTurn EXCEPT !.channel = "voice", !.call = call.number,
                                 !.revision = call.revision, !.input = call.last]
  <2>1. t \in TurnType /\ t.channel = "voice"
      BY <1>0 DEF NoTurn, TurnType, Intents
  <2>2. heard' = t /\ UNCHANGED <<call, texts, inputs>>
      BY <1>3 DEF VoiceTurn
  <2> QED
      BY <1>0, <2>1, <2>2 DEF UserTypeOK, Overheard
<1>4. CASE VoiceRespond
    BY <1>0, <1>b, <1>4 DEF VoiceRespond, UserTypeOK, Overheard
<1>5. CASE User
  <2>1. call' \in [on : BOOLEAN, number : Nat, revision : Nat, last : Nat]
    <3>1. CASE StartCall
        BY <1>0, <1>a, <3>1 DEF StartCall
    <3>2. CASE Speak
        BY <1>0, <1>a, <3>2 DEF Speak
    <3>3. CASE EndCall \/ Text
        BY <1>0, <3>3 DEF EndCall, Text
    <3> QED
        BY <1>5, <3>1, <3>2, <3>3 DEF User
  <2>2. inputs' \in Nat /\ texts' \subseteq Nat /\ heard' = heard
      BY <1>0, <1>a, <1>5 DEF User, StartCall, Speak, EndCall, Text
  <2> QED
      BY <1>0, <2>1, <2>2 DEF UserTypeOK, Overheard
<1>6. CASE Crash
  <2>1. call' \in [on : BOOLEAN, number : Nat, revision : Nat, last : Nat]
      BY <1>0, <1>6 DEF Crash
  <2> QED
      BY <1>0, <1>b, <1>6, <2>1 DEF Crash, UserTypeOK, Overheard
<1>7. CASE T3
    BY <1>7, <1>1 DEF T3, T3Asks, T3Closes, T3Runs, T3Archives, T3Executes
<1>8. CASE Scan \/ Respond \/ StartDialog \/ Coordinate \/ Decide \/ SendAnswer \/ Await
           \/ SendTurn \/ TurnReceipt \/ Watch
    BY <1>8, <1>1 DEF Scan, Respond, StartDialog, Coordinate, Decide, SendAnswer, Await,
                      SendTurn, TurnReceipt, Watch
<1> QED
    BY <1>2, <1>3, <1>4, <1>5, <1>6, <1>7, <1>8 DEF Next, Dialog

\* What T3 may write into its record of a thread.
LEMMA ThreadUpdate ==
    ASSUME thread \in ThreadType, NEW r \in Requests,
           NEW a \in {"other"} \cup Intents, NEW c \in CommandType
    PROVE  /\ [thread EXCEPT !.ask[r] = "open", !.turn = "running"] \in ThreadType
           /\ [thread EXCEPT !.ask[r] = "resolved", !.answer[r] = a] \in ThreadType
           /\ [thread EXCEPT !.ask[r] = "failed"] \in ThreadType
           /\ [thread EXCEPT !.version[r] = @ + 1] \in ThreadType
           /\ [thread EXCEPT !.turn = "running", !.accepted = @ \cup {c}] \in ThreadType
<1>1. [thread EXCEPT !.ask[r] = "open", !.turn = "running"] \in ThreadType
    BY DEF ThreadType
<1>2. [thread EXCEPT !.ask[r] = "resolved", !.answer[r] = a] \in ThreadType
    BY DEF ThreadType
<1>3. [thread EXCEPT !.ask[r] = "failed"] \in ThreadType
    BY DEF ThreadType
<1>4. [thread EXCEPT !.version[r] = @ + 1] \in ThreadType
    BY DEF ThreadType
<1>5. [thread EXCEPT !.turn = "running", !.accepted = @ \cup {c}] \in ThreadType
    BY DEF ThreadType
<1> QED
    BY <1>1, <1>2, <1>3, <1>4, <1>5

\* What T3Closes and T3Executes choose from.
LEMMA ThreadChoices ==
    ASSUME T3TypeOK
    PROVE  /\ T3Closes =>
                \E q \in Pending, a \in {"other"} \cup Intents :
                   \/ thread' = [thread EXCEPT !.ask[q] = "resolved", !.answer[q] = a]
                   \/ thread' = [thread EXCEPT !.ask[q] = "failed"]
                   \/ thread' = [thread EXCEPT !.version[q] = @ + 1]
           /\ T3Executes =>
                \E c \in CommandType :
                   \/ /\ c.request \in Pending /\ c.intent \in Intents
                      /\ thread' = [thread EXCEPT !.ask[c.request] = "resolved",
                                                  !.answer[c.request] = c.intent]
                   \/ thread' = [thread EXCEPT !.turn = "running", !.accepted = @ \cup {c}]
<1>1. sent \subseteq CommandType /\ inbox \subseteq CommandType
    BY DEF T3TypeOK
<1>2. \A c \in CommandType : c.intent \in Intents
    BY DEF CommandType
<1>3. ASSUME T3Closes
      PROVE  \E q \in Pending, a \in {"other"} \cup Intents :
                \/ thread' = [thread EXCEPT !.ask[q] = "resolved", !.answer[q] = a]
                \/ thread' = [thread EXCEPT !.ask[q] = "failed"]
                \/ thread' = [thread EXCEPT !.version[q] = @ + 1]
  <2>1. PICK q \in Pending :
          \/ \E a \in {"other"} \cup {c.intent : c \in {d \in sent : d.request = q}} :
               thread' = [thread EXCEPT !.ask[q] = "resolved", !.answer[q] = a]
          \/ thread' = [thread EXCEPT !.ask[q] = "failed"]
          \/ thread' = [thread EXCEPT !.version[q] = @ + 1]
      BY <1>3 DEF T3Closes
  <2>2. {c.intent : c \in {d \in sent : d.request = q}} \subseteq Intents
      BY <1>1, <1>2
  <2>3. "other" \in {"other"} \cup Intents
      OBVIOUS
  <2> QED
      BY <2>1, <2>2, <2>3
<1>4. ASSUME T3Executes
      PROVE  \E c \in CommandType :
                \/ /\ c.request \in Pending /\ c.intent \in Intents
                   /\ thread' = [thread EXCEPT !.ask[c.request] = "resolved",
                                               !.answer[c.request] = c.intent]
                \/ thread' = [thread EXCEPT !.turn = "running", !.accepted = @ \cup {c}]
    BY <1>1, <1>2, <1>4 DEF T3Executes
<1> QED
    BY <1>3, <1>4

LEMMA T3TypeStep ==
    ASSUME TypeInv, Next
    PROVE  T3TypeOK'
<1>0. /\ T3TypeOK /\ op \in OperationType /\ turn \in TurnType
      /\ thread \in ThreadType /\ inbox \subseteq CommandType /\ sent \subseteq CommandType
      /\ dispatched \in [Requests -> Nat]
    BY DEF TypeInv, TypeOK, DialogTypeOK, T3TypeOK
<1>1. \A kind \in {"answer", "turn"} : Command(kind) \in CommandType
    BY <1>0 DEF Command, CommandType, OperationType, TurnType
<1>2. CASE UNCHANGED t3Vars
    BY <1>0, <1>2 DEF t3Vars, T3TypeOK
<1>3. CASE SendAnswer
    BY <1>0, <1>1, <1>2, <1>3 DEF SendAnswer, T3TypeOK
<1>4. CASE SendTurn
    BY <1>0, <1>1, <1>4 DEF SendTurn, T3TypeOK
<1>5. CASE T3
  <2>1. inbox' \subseteq CommandType /\ sent' = sent /\ dispatched' = dispatched
      BY <1>0, <1>5 DEF T3, T3Asks, T3Closes, T3Runs, T3Archives, T3Executes
  <2>2. PICK c0 \in CommandType : TRUE
      BY <1>1
  <2>3. thread' \in ThreadType
    <3>1. CASE T3Asks
        BY <1>0, <2>2, <3>1, ThreadUpdate DEF T3Asks
    <3>2. CASE T3Closes
      <4>1. PICK q \in Pending, a \in {"other"} \cup Intents :
              \/ thread' = [thread EXCEPT !.ask[q] = "resolved", !.answer[q] = a]
              \/ thread' = [thread EXCEPT !.ask[q] = "failed"]
              \/ thread' = [thread EXCEPT !.version[q] = @ + 1]
          BY <1>0, <3>2, ThreadChoices
      <4>2. q \in Requests
          BY <4>1, PendingType
      <4>3. /\ [thread EXCEPT !.ask[q] = "resolved", !.answer[q] = a] \in ThreadType
            /\ [thread EXCEPT !.ask[q] = "failed"] \in ThreadType
            /\ [thread EXCEPT !.version[q] = @ + 1] \in ThreadType
          BY <1>0, <2>2, <4>1, <4>2, ThreadUpdate
      <4> QED
          BY <4>1, <4>3
    <3>3. CASE T3Runs
        BY <1>0, <3>3 DEF T3Runs, ThreadType
    <3>4. CASE T3Archives
        BY <1>0, <3>4 DEF T3Archives, ThreadType
    <3>5. CASE T3Executes
      <4>1. PICK c \in CommandType :
              \/ /\ c.request \in Pending /\ c.intent \in Intents
                 /\ thread' = [thread EXCEPT !.ask[c.request] = "resolved",
                                             !.answer[c.request] = c.intent]
              \/ thread' = [thread EXCEPT !.turn = "running", !.accepted = @ \cup {c}]
          BY <1>0, <3>5, ThreadChoices
      <4>2. CASE thread' = [thread EXCEPT !.turn = "running", !.accepted = @ \cup {c}]
          BY <1>0, <4>2, ThreadUpdate DEF CommandType
      <4>3. CASE /\ c.request \in Pending /\ c.intent \in Intents
                 /\ thread' = [thread EXCEPT !.ask[c.request] = "resolved",
                                             !.answer[c.request] = c.intent]
        <5> DEFINE q == c.request
                   a == c.intent
        <5>1. /\ thread' = [thread EXCEPT !.ask[q] = "resolved", !.answer[q] = a]
              /\ q \in Requests /\ a \in {"other"} \cup Intents
            BY <4>3, PendingType
        <5> HIDE DEF q, a
        <5> QED
            BY <1>0, <5>1, ThreadUpdate
      <4> QED
          BY <4>1, <4>2, <4>3
    <3> QED
        BY <1>5, <3>1, <3>2, <3>3, <3>4, <3>5 DEF T3
  <2> QED
      BY <1>0, <2>1, <2>3 DEF T3TypeOK
<1>6. CASE Scan \/ VoiceTurn \/ TakeText \/ User \/ Crash
    BY <1>2, <1>6 DEF Scan, VoiceTurn, TakeText, User, StartCall, Speak, EndCall, Text, Crash
<1>7. CASE VoiceRespond \/ Respond \/ StartDialog \/ Coordinate \/ Decide \/ Await
           \/ TurnReceipt \/ Watch
    BY <1>2, <1>7 DEF VoiceRespond, Respond, StartDialog, Coordinate, Decide, Await,
                      TurnReceipt, Watch
<1> QED
    BY <1>3, <1>4, <1>5, <1>6, <1>7 DEF Next, Dialog

LEMMA TypeStep == TypeInv /\ [Next]_vars => TypeInv'
<1> SUFFICES ASSUME TypeInv, [Next]_vars PROVE TypeInv'
    OBVIOUS
<1>1. CASE Next
  <2>1. DialogTypeOK' /\ Engaged'
      BY <1>1, DialogTypeStep, OtherTypeStep DEF Next
  <2>2. crashes' = crashes \/ crashes' = crashes + 1
      BY <1>1 DEF Next, Dialog, User, T3, Scan, VoiceTurn, TakeText, VoiceRespond, Respond,
                  StartDialog, Coordinate, Decide, SendAnswer, Await, SendTurn, TurnReceipt,
                  Watch, StartCall, Speak, EndCall, Text, T3Asks, T3Closes, T3Runs,
                  T3Archives, T3Executes, Crash
  <2>3. crashes' \in Nat
      BY <2>2 DEF TypeInv, TypeOK
  <2> QED
      BY <1>1, <2>1, <2>3, UserTypeStep, T3TypeStep DEF TypeInv, TypeOK
<1>2. CASE UNCHANGED vars
    BY <1>2 DEF vars, userVars, t3Vars, TypeInv, TypeOK, DialogTypeOK, UserTypeOK, T3TypeOK,
                Engaged, Overheard
<1> QED
    BY <1>1, <1>2

\* The variables keep their types, in every instance of the model of t3.py's dialog.
THEOREM TypeCorrect == Spec => []TypeOK
<1>1. TypeInv => TypeOK
    BY DEF TypeInv
<1> QED
    BY <1>1, TypeInit, TypeStep, PTL DEF Spec

-----------------------------------------------------------------------------
(* What was sent is recorded, and sent once.                               *)

\* The checkpoint agrees with memory on the record of the mutations.
Persisted == saved.uncertain = op.uncertain /\ saved.delivered = op.delivered

\* What the dialog counts as delivered T3 has resolved, for good.
DeliveredIsResolved == \A r \in op.delivered : thread.ask[r] = "resolved"

\* Unless a mutation is under way or of unknown outcome, every answer that was sent
\* is delivered.
NothingOwed ==
    ~op.uncertain \/ pc \in {"send_answer", "send_turn", "turn_receipt"} =>
        \A r \in Requests : dispatched[r] > 0 => r \in op.delivered

\* The mark is up from Decide until T3 has confirmed, and only the answer being
\* waited for is outstanding.
MarkIsUp ==
    /\ pc \in {"coordinate", "decide"} => ~op.uncertain
    /\ pc \in {"send_answer", "await", "send_turn", "turn_receipt"} => op.uncertain
    /\ pc = "await" =>
         \A r \in Requests \ {op.request} : dispatched[r] > 0 => r \in op.delivered

SafeInv ==
    Persisted /\ DeliveredIsResolved /\ NothingOwed /\ MarkIsUp /\ AnsweredAtMostOnce

LEMMA SafeInit == Init => SafeInv
BY DEF Init, SafeInv, Persisted, DeliveredIsResolved, NothingOwed, MarkIsUp,
       AnsweredAtMostOnce, NewOperation

\* A step that sends nothing, confirms nothing and marks nothing.
LEMMA QuietStep ==
    ASSUME TypeInv, SafeInv, dispatched' = dispatched,
           op'.uncertain = op.uncertain, op'.delivered = op.delivered,
           saved'.uncertain = op.uncertain, saved'.delivered = op.delivered,
           \A r \in Requests : thread.ask[r] = "resolved" => thread'.ask[r] = "resolved",
           \/ pc' \in {"idle", "respond", "start", "watch"}
           \/ pc' = pc /\ op'.request = op.request
           \/ pc' \in {"coordinate", "decide"} /\ ~op.uncertain
    PROVE  SafeInv'
<1>0. op.delivered \subseteq Requests
    BY DEF TypeInv, TypeOK, DialogTypeOK, OperationType
<1>1. Persisted' /\ DeliveredIsResolved' /\ AnsweredAtMostOnce'
    BY <1>0 DEF SafeInv, Persisted, DeliveredIsResolved, AnsweredAtMostOnce
<1>2. NothingOwed'
    BY DEF SafeInv, NothingOwed, MarkIsUp
<1>3. MarkIsUp'
    BY DEF SafeInv, MarkIsUp
<1> QED
    BY <1>1, <1>2, <1>3 DEF SafeInv

\* The end of a dialog call that only read T3 is quiet.
LEMMA ReturnIsQuiet ==
    ASSUME TypeInv, SafeInv, UNCHANGED t3Vars, NEW o \in OperationType,
           o.uncertain = op.uncertain, o.delivered = op.delivered, Return(o) \/ Leave(o)
    PROVE  SafeInv'
<1>1. /\ op'.uncertain = op.uncertain /\ op'.delivered = op.delivered
      /\ saved'.uncertain = op.uncertain /\ saved'.delivered = op.delivered
      /\ pc' = "idle"
    BY OutcomeFacts DEF Return, Leave
<1> QED
    BY <1>1, QuietStep DEF t3Vars

LEMMA AbortIsQuiet ==
    ASSUME TypeInv, SafeInv, UNCHANGED t3Vars, Abort
    PROVE  SafeInv'
BY QuietStep DEF t3Vars, Abort, SafeInv, Persisted

\* What T3 does to its record of the questions: it may answer one that is open.
LEMMA T3Writes ==
    ASSUME TypeInv, T3
    PROVE  /\ UNCHANGED <<op, saved, pc, turn, dispatched, sent>>
           /\ thread.accepted \subseteq thread'.accepted
           /\ \/ /\ thread'.answer = thread.answer
                 /\ \A r \in Requests : thread'.ask[r] = "resolved" <=> thread.ask[r] = "resolved"
              \/ \E q \in Pending, a \in {"other"} \cup Intents :
                   /\ thread'.ask = [thread.ask EXCEPT ![q] = "resolved"]
                   /\ thread'.answer = [thread.answer EXCEPT ![q] = a]
<1>0. /\ T3TypeOK /\ thread \in ThreadType
      /\ thread.ask \in [Requests -> {"unasked", "open", "resolved", "failed"}]
    BY DEF TypeInv, TypeOK, T3TypeOK, ThreadType
<1>1. UNCHANGED <<op, saved, pc, turn, dispatched, sent>>
    BY DEF T3, T3Asks, T3Closes, T3Runs, T3Archives, T3Executes
<1>2. CASE T3Asks
    BY <1>0, <1>1, <1>2 DEF T3Asks, ThreadType
<1>3. CASE T3Closes
  <2>1. PICK q \in Pending, a \in {"other"} \cup Intents :
          \/ thread' = [thread EXCEPT !.ask[q] = "resolved", !.answer[q] = a]
          \/ thread' = [thread EXCEPT !.ask[q] = "failed"]
          \/ thread' = [thread EXCEPT !.version[q] = @ + 1]
      BY <1>0, <1>3, ThreadChoices
  <2>2. q \in Requests /\ thread.ask[q] = "open"
      BY <2>1 DEF Pending
  <2>3. CASE thread' = [thread EXCEPT !.ask[q] = "resolved", !.answer[q] = a]
    <3>1. /\ thread'.ask = [thread.ask EXCEPT ![q] = "resolved"]
          /\ thread'.answer = [thread.answer EXCEPT ![q] = a]
          /\ thread'.accepted = thread.accepted
        BY <1>0, <2>3 DEF ThreadType
    <3> QED
        BY <1>1, <2>1, <3>1
  <2>4. CASE thread' = [thread EXCEPT !.ask[q] = "failed"]
    <3>1. /\ thread'.ask = [thread.ask EXCEPT ![q] = "failed"]
          /\ thread'.answer = thread.answer /\ thread'.accepted = thread.accepted
        BY <1>0, <2>4 DEF ThreadType
    <3> QED
        BY <1>0, <1>1, <2>2, <3>1
  <2>5. CASE thread' = [thread EXCEPT !.version[q] = @ + 1]
    <3>1. /\ thread'.ask = thread.ask
          /\ thread'.answer = thread.answer /\ thread'.accepted = thread.accepted
        BY <1>0, <2>5 DEF ThreadType
    <3> QED
        BY <1>1, <3>1
  <2> QED
      BY <2>1, <2>3, <2>4, <2>5
<1>4. CASE T3Runs \/ T3Archives
    BY <1>0, <1>1, <1>4 DEF T3Runs, T3Archives, ThreadType
<1>5. CASE T3Executes
  <2>1. PICK c \in CommandType :
          \/ /\ c.request \in Pending /\ c.intent \in Intents
             /\ thread' = [thread EXCEPT !.ask[c.request] = "resolved",
                                         !.answer[c.request] = c.intent]
          \/ thread' = [thread EXCEPT !.turn = "running", !.accepted = @ \cup {c}]
      BY <1>0, <1>5, ThreadChoices
  <2>2. CASE thread' = [thread EXCEPT !.turn = "running", !.accepted = @ \cup {c}]
    <3>1. /\ thread'.ask = thread.ask /\ thread'.answer = thread.answer
          /\ thread'.accepted = thread.accepted \cup {c}
        BY <1>0, <2>2 DEF ThreadType
    <3> QED
        BY <1>1, <3>1
  <2>3. CASE /\ c.request \in Pending /\ c.intent \in Intents
             /\ thread' = [thread EXCEPT !.ask[c.request] = "resolved",
                                         !.answer[c.request] = c.intent]
    <3>1. /\ thread'.ask = [thread.ask EXCEPT ![c.request] = "resolved"]
          /\ thread'.answer = [thread.answer EXCEPT ![c.request] = c.intent]
          /\ thread'.accepted = thread.accepted
        BY <1>0, <2>3 DEF ThreadType
    <3> QED
        BY <1>1, <2>3, <3>1
  <2> QED
      BY <2>1, <2>2, <2>3
<1> QED
    BY <1>2, <1>3, <1>4, <1>5 DEF T3

\* Nothing un-resolves a question.
LEMMA ResolvedStays ==
    ASSUME TypeInv, T3
    PROVE  \A r \in Requests : thread.ask[r] = "resolved" => thread'.ask[r] = "resolved"
<1>1. thread.ask \in [Requests -> {"unasked", "open", "resolved", "failed"}]
    BY DEF TypeInv, TypeOK, T3TypeOK, ThreadType
<1> QED
    BY <1>1, T3Writes

\* The steps that send or confirm something.
LEMMA MutationStep ==
    ASSUME TypeInv, SafeInv, Decide \/ SendAnswer \/ Await \/ SendTurn \/ TurnReceipt
    PROVE  SafeInv'
<1>0. /\ op \in OperationType /\ saved \in OperationType /\ op.request \in Requests
      /\ T3TypeOK /\ inputs \in Nat /\ Revision \in Nat
      /\ dispatched \in [Requests -> Nat]
    BY RevisionType DEF TypeInv, TypeOK, DialogTypeOK, UserTypeOK, T3TypeOK, OperationType
<1>1. CASE Decide
  <2> DEFINE marked == [op EXCEPT !.uncertain = TRUE]
             seen == Observe(op, Revision, turn.channel)
  <2>0. turn.channel \in Speakers
      BY <1>1 DEF Decide, TypeInv, Engaged, Speakers
  <2>1. /\ seen \in OperationType
        /\ seen.uncertain = op.uncertain /\ seen.delivered = op.delivered
      BY <1>0, <2>0, ObserveFacts
  <2>2. CASE Return(op) \/ Return(seen)
      BY <1>0, <1>1, <2>1, <2>2, ReturnIsQuiet DEF Decide
  <2>3. CASE /\ op' = marked /\ saved' = marked
             /\ Goto("send_answer") \/ Goto("send_turn")
    <3>1. ~op.uncertain /\ thread' = thread /\ dispatched' = dispatched
        BY <1>1 DEF Decide, SafeInv, MarkIsUp, t3Vars
    <3>2. /\ op'.uncertain /\ saved'.uncertain
          /\ op'.delivered = op.delivered /\ saved'.delivered = op.delivered
        BY <1>0, <2>3 DEF OperationType
    <3>3. pc' \in {"send_answer", "send_turn"}
        BY <2>3 DEF Goto
    <3>4. Persisted' /\ DeliveredIsResolved' /\ AnsweredAtMostOnce'
        BY <3>1, <3>2, <1>0, <2>3
           DEF SafeInv, Persisted, DeliveredIsResolved, AnsweredAtMostOnce, OperationType
    <3>5. NothingOwed' /\ MarkIsUp'
        BY <3>1, <3>2, <3>3 DEF SafeInv, NothingOwed, MarkIsUp
    <3> QED
        BY <3>4, <3>5 DEF SafeInv
  <2> HIDE DEF seen, marked
  <2> QED
      BY <1>1, <2>2, <2>3 DEF Decide, seen, marked
<1>2. CASE SendAnswer
  <2>1. CASE Return(op) /\ UNCHANGED t3Vars
      BY <1>0, <2>1, ReturnIsQuiet
  <2>2. CASE /\ op.request \in Pending
             /\ dispatched' = [dispatched EXCEPT ![op.request] = @ + 1]
             /\ Goto("await")
             /\ UNCHANGED <<op, saved, thread>>
    <3>1. pc = "send_answer" /\ pc' = "await"
        BY <1>2, <2>2 DEF SendAnswer, Goto
    <3>2. op.request \notin op.delivered
        BY <2>2 DEF Pending, SafeInv, DeliveredIsResolved
    <3>3. dispatched[op.request] = 0
        BY <1>0, <3>1, <3>2 DEF SafeInv, NothingOwed
    <3>4. /\ dispatched'[op.request] = 1
          /\ \A r \in Requests \ {op.request} : dispatched'[r] = dispatched[r]
        BY <1>0, <2>2, <3>3
    <3>5. AnsweredAtMostOnce'
        BY <3>4 DEF SafeInv, AnsweredAtMostOnce
    <3>6. op.uncertain /\ \A r \in Requests : dispatched[r] > 0 => r \in op.delivered
        BY <3>1 DEF SafeInv, NothingOwed, MarkIsUp
    <3>7. MarkIsUp' /\ NothingOwed'
        BY <2>2, <3>1, <3>4, <3>6 DEF MarkIsUp, NothingOwed
    <3> QED
        BY <2>2, <3>5, <3>7 DEF SafeInv, Persisted, DeliveredIsResolved
  <2> QED
      BY <1>2, <2>1, <2>2 DEF SendAnswer
<1>3. CASE Await
  <2>1. CASE Return(op)
      BY <1>0, <1>3, <2>1, ReturnIsQuiet DEF Await
  <2>2. CASE /\ thread.ask[op.request] = "resolved"
             /\ Confirm([op EXCEPT !.delivered = @ \cup {op.request}])
    <3>1. /\ op'.uncertain = FALSE /\ saved'.uncertain = FALSE /\ pc' = "watch"
          /\ op'.delivered = op.delivered \cup {op.request}
          /\ saved'.delivered = op.delivered \cup {op.request}
        BY <1>0, <2>2 DEF Confirm, Goto, OperationType
    <3>2. /\ pc = "await" /\ thread' = thread /\ dispatched' = dispatched
        BY <1>3 DEF Await, t3Vars
    <3>3. \A r \in Requests : dispatched'[r] > 0 => r \in op'.delivered
        BY <3>1, <3>2 DEF SafeInv, MarkIsUp
    <3>4. Persisted' /\ DeliveredIsResolved' /\ AnsweredAtMostOnce'
        BY <2>2, <3>1, <3>2
           DEF SafeInv, Persisted, DeliveredIsResolved, AnsweredAtMostOnce
    <3>5. NothingOwed' /\ MarkIsUp'
        BY <3>1, <3>3 DEF NothingOwed, MarkIsUp
    <3> QED
        BY <3>4, <3>5 DEF SafeInv
  <2> QED
      BY <1>3, <2>1, <2>2 DEF Await
<1>4. CASE SendTurn
  <2>1. CASE Return(op) /\ UNCHANGED inbox
      BY <1>0, <1>4, <2>1, ReturnIsQuiet DEF SendTurn, t3Vars
  <2>2. CASE Goto("turn_receipt") /\ UNCHANGED <<op, saved>>
    <3>1. /\ pc = "send_turn" /\ pc' = "turn_receipt"
          /\ thread' = thread /\ dispatched' = dispatched
        BY <1>4, <2>2 DEF SendTurn, Goto
    <3> QED
        BY <2>2, <3>1
           DEF SafeInv, Persisted, DeliveredIsResolved, NothingOwed, MarkIsUp,
               AnsweredAtMostOnce
  <2> QED
      BY <1>4, <2>1, <2>2 DEF SendTurn
<1>5. CASE TurnReceipt
  <2>1. CASE Return(op)
      BY <1>0, <1>5, <2>1, ReturnIsQuiet DEF TurnReceipt
  <2>2. CASE Confirm(op)
    <3>1. /\ op'.uncertain = FALSE /\ saved'.uncertain = FALSE /\ pc' = "watch"
          /\ op'.delivered = op.delivered /\ saved'.delivered = op.delivered
        BY <1>0, <2>2 DEF Confirm, Goto, OperationType
    <3>2. /\ pc = "turn_receipt" /\ thread' = thread /\ dispatched' = dispatched
        BY <1>5 DEF TurnReceipt, t3Vars
    <3> QED
        BY <3>1, <3>2
           DEF SafeInv, Persisted, DeliveredIsResolved, NothingOwed, MarkIsUp,
               AnsweredAtMostOnce
  <2> QED
      BY <1>5, <2>1, <2>2 DEF TurnReceipt
<1> QED
    BY <1>1, <1>2, <1>3, <1>4, <1>5

LEMMA SafeStep == TypeInv /\ SafeInv /\ [Next]_vars => SafeInv'
<1> SUFFICES ASSUME TypeInv, SafeInv, [Next]_vars PROVE SafeInv'
    OBVIOUS
<1>0. /\ op \in OperationType /\ saved \in OperationType
      /\ T3TypeOK /\ inputs \in Nat /\ Revision \in Nat
      /\ saved.uncertain = op.uncertain /\ saved.delivered = op.delivered
    BY RevisionType DEF TypeInv, TypeOK, DialogTypeOK, UserTypeOK, SafeInv, Persisted
<1> DEFINE o == Refresh(op)
           stale == [op EXCEPT !.status = "stale"]
           seen == Observe(op, Revision, turn.channel)
<1>a. /\ o \in OperationType /\ o.uncertain = op.uncertain /\ o.delivered = op.delivered
    BY <1>0, RefreshFacts
<1>b. /\ stale \in OperationType
      /\ stale.uncertain = op.uncertain /\ stale.delivered = op.delivered
    BY <1>0 DEF OperationType, Statuses
<1>c. pc # "idle" => turn.channel \in Speakers
    BY DEF TypeInv, Engaged, Speakers
<1>d. pc # "idle" => /\ seen \in OperationType
                     /\ seen.uncertain = op.uncertain /\ seen.delivered = op.delivered
    BY <1>0, <1>c, ObserveFacts
<1>1. CASE Scan
  <2>1. (Leave(o) \/ Leave(stale)) /\ UNCHANGED t3Vars
      BY <1>1 DEF Scan
  <2> HIDE DEF o, stale
  <2> QED
      BY <1>a, <1>b, <2>1, ReturnIsQuiet
<1>2. CASE VoiceTurn
    BY <1>0, <1>2, QuietStep DEF VoiceTurn, t3Vars
<1>3. CASE TakeText
  <2> DEFINE p == IF Contactable(op) THEN o ELSE op
  <2>1. p \in OperationType /\ p.uncertain = op.uncertain /\ p.delivered = op.delivered
      BY <1>0, <1>a
  <2>2. /\ Abort \/ Leave(p) \/ (op' = p /\ saved' = p /\ pc' = "respond")
        /\ UNCHANGED t3Vars
      BY <1>3 DEF TakeText
  <2> HIDE DEF p
  <2> QED
      BY <2>1, <2>2, AbortIsQuiet, ReturnIsQuiet, QuietStep DEF t3Vars
<1>4. CASE VoiceRespond
  <2> DEFINE ready == [o EXCEPT !.deferred = FALSE]
  <2>1. ready.uncertain = op.uncertain /\ ready.delivered = op.delivered
      BY <1>a DEF OperationType
  <2>2. /\ Abort \/ Leave(o) \/ Leave(stale) \/ (op' = ready /\ saved' = o /\ pc' = "start")
        /\ UNCHANGED t3Vars
      BY <1>4 DEF VoiceRespond
  <2> HIDE DEF o, stale, ready
  <2> QED
      BY <1>a, <1>b, <2>1, <2>2, AbortIsQuiet, ReturnIsQuiet, QuietStep DEF t3Vars, Goto
<1>5. CASE Respond
  <2> DEFINE fresh == [o EXCEPT !.status = "open", !.deferred = FALSE,
                                !.adopted = NoRevision, !.adopted_by = "text",
                                !.completed = @ /\ o.status # "completed"]
             later == [o EXCEPT !.deferred = TRUE, !.status = "deferred"]
  <2>1. /\ later \in OperationType
        /\ later.uncertain = op.uncertain /\ later.delivered = op.delivered
        /\ fresh.uncertain = op.uncertain /\ fresh.delivered = op.delivered
      BY <1>a DEF OperationType, Statuses
  <2>2. /\ \/ Abort \/ Leave(o) \/ Leave(later)
           \/ op' = fresh /\ saved' = fresh /\ Goto("start")
        /\ UNCHANGED t3Vars
      BY <1>5 DEF Respond
  <2> HIDE DEF o, fresh, later
  <2> QED
      BY <1>a, <2>1, <2>2, AbortIsQuiet, ReturnIsQuiet, QuietStep DEF t3Vars, Goto
<1>6. CASE StartDialog
  <2>1. /\ pc # "idle" /\ UNCHANGED t3Vars
        /\ \/ Return(op) \/ Return(seen)
           \/ ~op.uncertain /\ Goto("coordinate") /\ UNCHANGED <<op, saved>>
      BY <1>6 DEF StartDialog
  <2> HIDE DEF seen
  <2> QED
      BY <1>0, <1>d, <2>1, ReturnIsQuiet, QuietStep DEF t3Vars, Goto
<1>7. CASE Coordinate
  <2> DEFINE later == [op EXCEPT !.deferred = TRUE]
  <2>1. /\ later \in OperationType
        /\ later.uncertain = op.uncertain /\ later.delivered = op.delivered
      BY <1>0 DEF OperationType
  <2>2. /\ UNCHANGED t3Vars /\ ~op.uncertain
        /\ \/ Return(op) \/ Return(later)
           \/ pc' = "decide" /\ UNCHANGED <<op, saved>>
           \/ pc' = "coordinate" /\ op' = op /\ saved' = op
      BY <1>7 DEF Coordinate, CreateCoordinator, SafeInv, MarkIsUp
  <2> HIDE DEF later
  <2> QED
      BY <1>0, <2>1, <2>2, ReturnIsQuiet, QuietStep DEF t3Vars
<1>8. CASE Decide \/ SendAnswer \/ Await \/ SendTurn \/ TurnReceipt
    BY <1>8, MutationStep
<1>9. CASE Watch
  <2>1. pc # "idle" /\ UNCHANGED t3Vars /\ (Return(op) \/ Return(seen))
      BY <1>9 DEF Watch
  <2> HIDE DEF seen
  <2> QED
      BY <1>0, <1>d, <2>1, ReturnIsQuiet
<1>10. CASE User
    BY <1>0, <1>10, QuietStep DEF User, StartCall, Speak, EndCall, Text, t3Vars
<1>11. CASE T3
  <2>1. UNCHANGED <<op, saved, pc, dispatched>>
      BY <1>11 DEF T3, T3Asks, T3Closes, T3Runs, T3Archives, T3Executes
  <2> QED
      BY <1>0, <1>11, <2>1, ResolvedStays, QuietStep
<1>12. CASE Crash
    BY <1>0, <1>12, QuietStep DEF Crash, t3Vars
<1>13. CASE UNCHANGED vars
    BY <1>13 DEF vars, userVars, t3Vars, SafeInv, Persisted, DeliveredIsResolved, NothingOwed,
                 MarkIsUp, AnsweredAtMostOnce
<1> QED
    BY <1>1, <1>2, <1>3, <1>4, <1>5, <1>6, <1>7, <1>8, <1>9, <1>10, <1>11, <1>12, <1>13
       DEF Next, Dialog

\* At most one answer leaves the process for a question, whatever T3 reports, however
\* often the service crashes and whoever repeats the input.
THEOREM AnswerOnce == Spec => []AnsweredAtMostOnce
<1>1. SafeInv => AnsweredAtMostOnce
    BY DEF SafeInv
<1> QED
    BY <1>1, TypeInit, TypeStep, SafeInit, SafeStep, PTL DEF Spec

\* Outside the call that made it, a mutation of unknown outcome stays marked and
\* nothing more is sent: T3Delegation.__call__ returns at once, and a restart finds
\* the mark in the checkpoint.
THEOREM UncertainStays == Spec => UncertainIsFinal
<1> DEFINE Quiet == op.uncertain /\ pc \in {"idle", "respond", "start"} =>
                      op'.uncertain /\ dispatched' = dispatched /\ inbox' \subseteq inbox
<1>1. TypeInv /\ SafeInv /\ [Next]_vars => [Quiet]_vars
  <2> SUFFICES ASSUME TypeInv, SafeInv, Next, op.uncertain,
                      pc \in {"idle", "respond", "start"}
               PROVE  op'.uncertain /\ dispatched' = dispatched /\ inbox' \subseteq inbox
      OBVIOUS
  <2>0. /\ op \in OperationType /\ T3TypeOK /\ inputs \in Nat
        /\ saved.uncertain = op.uncertain
      BY DEF TypeInv, TypeOK, DialogTypeOK, UserTypeOK, SafeInv, Persisted
  <2> DEFINE o == Refresh(op)
             stale == [op EXCEPT !.status = "stale"]
             ready == [o EXCEPT !.deferred = FALSE]
             fresh == [o EXCEPT !.status = "open", !.deferred = FALSE,
                                !.adopted = NoRevision, !.adopted_by = "text",
                                !.completed = @ /\ o.status # "completed"]
             later == [o EXCEPT !.deferred = TRUE, !.status = "deferred"]
  <2>1. o \in OperationType /\ o.uncertain = op.uncertain
      BY <2>0, RefreshFacts
  <2>2. /\ stale.uncertain = op.uncertain /\ ready.uncertain = op.uncertain
        /\ fresh.uncertain = op.uncertain /\ later.uncertain = op.uncertain
      BY <2>0, <2>1 DEF OperationType
  <2>3. Outcome(op).uncertain = op.uncertain
      BY <2>0, OutcomeFacts
  <2>4. CASE Scan \/ VoiceRespond \/ Respond
    <3>1. /\ UNCHANGED t3Vars
          /\ \/ Abort \/ Leave(o) \/ Leave(stale) \/ Leave(later)
             \/ op' = ready \/ op' = fresh
        BY <2>4 DEF Scan, VoiceRespond, Respond
    <3> HIDE DEF o, stale, ready, fresh, later
    <3> QED
        BY <2>1, <2>2, <3>1 DEF Abort, Leave, t3Vars
  <2>5. CASE TakeText
    <3>1. /\ UNCHANGED t3Vars
          /\ \/ Abort \/ Leave(IF Contactable(op) THEN o ELSE op)
             \/ op' = IF Contactable(op) THEN o ELSE op
        BY <2>5 DEF TakeText
    <3> HIDE DEF o
    <3> QED
        BY <2>1, <3>1 DEF Abort, Leave, t3Vars
  <2>6. CASE VoiceTurn \/ User
      BY <2>6 DEF VoiceTurn, User, StartCall, Speak, EndCall, Text, t3Vars
  <2>7. CASE StartDialog
    <3>1. UNCHANGED t3Vars /\ Return(op)
        BY <2>7 DEF StartDialog
    <3> QED
        BY <2>3, <3>1 DEF Return, t3Vars
  <2>8. CASE Coordinate \/ Decide \/ SendAnswer \/ Await \/ SendTurn \/ TurnReceipt \/ Watch
      BY <2>8 DEF Coordinate, Decide, SendAnswer, Await, SendTurn, TurnReceipt, Watch
  <2>9. CASE T3
      BY <2>9 DEF T3, T3Asks, T3Closes, T3Runs, T3Archives, T3Executes
  <2>10. CASE Crash
      BY <2>0, <2>10 DEF Crash, t3Vars
  <2> QED
      BY <2>4, <2>5, <2>6, <2>7, <2>8, <2>9, <2>10 DEF Next, Dialog
<1> QED
    BY <1>1, TypeInit, TypeStep, SafeInit, SafeStep, PTL DEF Spec, UncertainIsFinal

-----------------------------------------------------------------------------
(* "Decided" is said of what was sent and T3 has.                          *)

\* Whoever speaks of a decision after a change speaks of the one from before it.
Carries(o, p) == p.completed => o.completed /\ p.request = o.request

\* The marks of the adoption are those from before.
SameMark(o, p) ==
    /\ p.submitted = o.submitted
    /\ p.adopted = o.adopted
    /\ p.adopted_by = o.adopted_by
    /\ p.adopted_at = o.adopted_at

\* The question was taken over at this revision, now.
TakenOver(p, revision, who) ==
    ~p.submitted /\ p.adopted = revision /\ p.adopted_by = who /\ p.adopted_at = inputs

LEMMA CarriesOn ==
    ASSUME NEW o, NEW p, NEW q, Carries(o, p), q.completed => p.completed,
           q.request = p.request
    PROVE  Carries(o, q)
BY DEF Carries

\* A question that is taken over is not decided.
LEMMA ObserveNews ==
    ASSUME T3TypeOK, inputs \in Nat,
           NEW o \in OperationType, NEW revision \in Nat, NEW who \in Speakers
    PROVE  /\ Carries(o, Observe(o, revision, who))
           /\ \/ SameMark(o, Observe(o, revision, who))
              \/ TakenOver(Observe(o, revision, who), revision, who)
<1>1. CASE Pending \ o.delivered = {}
    BY <1>1 DEF Observe, Carries, SameMark
<1>2. CASE Pending \ o.delivered # {}
  <2> DEFINE r == LowestOf(Pending \ o.delivered)
  <2>1. r \in Requests
      BY <1>2, PendingType, LowestIsMember
  <2>2. thread.version[r] \in Nat
      BY <2>1 DEF T3TypeOK, ThreadType
  <2>3. Observe(o, revision, who) = Adopt(o, r, revision, who)
      BY <1>2 DEF Observe
  <2> HIDE DEF r
  <2>4. Handoff(o, r) \in OperationType
      BY <2>1, <2>2 DEF Handoff, OperationType
  <2>5. ~Adopt(o, r, revision, who).completed /\ TakenOver(Adopt(o, r, revision, who), revision, who)
      BY <2>4 DEF Adopt, OperationType, TakenOver
  <2> QED
      BY <2>3, <2>5 DEF Carries
<1> QED
    BY <1>1, <1>2

\* A status by itself says nothing of the decision or the adoption.
LEMMA StatusNews ==
    ASSUME NEW o \in OperationType, NEW status
    PROVE  /\ [o EXCEPT !.status = status].completed = o.completed
           /\ [o EXCEPT !.status = status].request = o.request
           /\ SameMark(o, [o EXCEPT !.status = status])
BY DEF OperationType, SameMark

LEMMA RefreshNews ==
    ASSUME T3TypeOK, inputs \in Nat, NEW o \in OperationType
    PROVE  /\ Carries(o, Refresh(o))
           /\ SameMark(o, Refresh(o)) \/ TakenOver(Refresh(o), 0, "refresh")
<1> DEFINE d == IF o.submitted THEN Observe(o, 0, "refresh") ELSE o
<1>1. /\ d \in OperationType
      /\ Carries(o, d)
      /\ SameMark(o, d) \/ TakenOver(d, 0, "refresh")
    BY ObserveFacts, ObserveNews DEF Speakers, Carries, SameMark
<1>2. CASE o.status = "completed" /\ o.completed
    BY <1>2 DEF Refresh, Carries, SameMark
<1>3. CASE ~(o.status = "completed" /\ o.completed)
  <2>1. PICK status : Refresh(o) = [d EXCEPT !.status = status]
      BY <1>3 DEF Refresh
  <2> HIDE DEF d
  <2>2. SameMark(d, Refresh(o))
      BY <1>1, <2>1, StatusNews
  <2>3. SameMark(o, Refresh(o)) \/ TakenOver(Refresh(o), 0, "refresh")
      BY <1>1, <2>2 DEF SameMark, TakenOver
  <2>4. Refresh(o).completed = d.completed /\ Refresh(o).request = d.request
      BY <1>1, <2>1, StatusNews
  <2>5. Carries(o, Refresh(o))
      BY <1>1, <2>4 DEF Carries
  <2> QED
      BY <2>3, <2>5
<1> QED
    BY <1>2, <1>3

LEMMA OutcomeNews ==
    ASSUME NEW o \in OperationType
    PROVE  /\ Outcome(o).completed = o.completed
           /\ Outcome(o).request = o.request
           /\ SameMark(o, Outcome(o))
BY StatusNews DEF Outcome

\* T3's record of a question has an answer only once it is resolved, and the answer a
\* dialog waits for was sent.
RecordInv ==
    /\ \A r \in Requests : thread.ask[r] # "resolved" => thread.answer[r] = "none"
    /\ pc = "await" => Command("answer") \in sent

LEMMA RecordInit == Init => RecordInv
BY DEF Init, RecordInv

\* What T3's record shows of the answers sent stays there, and so do the turns it accepted.
LEMMA RecordStays ==
    ASSUME TypeInv, RecordInv, [Next]_vars
    PROVE  RecordInv' /\ Shown \subseteq Shown' /\ thread.accepted \subseteq thread'.accepted
<1>0. /\ thread \in ThreadType /\ sent \subseteq CommandType
      /\ thread.ask \in [Requests -> {"unasked", "open", "resolved", "failed"}]
      /\ thread.answer \in [Requests -> {"none", "other"} \cup Intents]
    BY DEF TypeInv, TypeOK, T3TypeOK, ThreadType
<1>1. CASE T3
  <2>1. /\ UNCHANGED <<op, pc, turn, sent>>
        /\ thread.accepted \subseteq thread'.accepted
        /\ \/ /\ thread'.answer = thread.answer
              /\ \A r \in Requests : thread'.ask[r] = "resolved" <=> thread.ask[r] = "resolved"
           \/ \E q \in Pending, a \in {"other"} \cup Intents :
                /\ thread'.ask = [thread.ask EXCEPT ![q] = "resolved"]
                /\ thread'.answer = [thread.answer EXCEPT ![q] = a]
      BY <1>1, T3Writes
  <2>2. (pc = "await" => Command("answer") \in sent)'
      BY <2>1 DEF RecordInv, Command
  <2>3. CASE /\ thread'.answer = thread.answer
             /\ \A r \in Requests : thread'.ask[r] = "resolved" <=> thread.ask[r] = "resolved"
      BY <2>1, <2>2, <2>3 DEF RecordInv, Shown
  <2>4. CASE \E q \in Pending, a \in {"other"} \cup Intents :
                /\ thread'.ask = [thread.ask EXCEPT ![q] = "resolved"]
                /\ thread'.answer = [thread.answer EXCEPT ![q] = a]
    <3>1. PICK q \in Pending, a \in {"other"} \cup Intents :
                /\ thread'.ask = [thread.ask EXCEPT ![q] = "resolved"]
                /\ thread'.answer = [thread.answer EXCEPT ![q] = a]
        BY <2>4
    <3>2. q \in Requests /\ thread.ask[q] = "open" /\ thread.answer[q] = "none"
        BY <3>1 DEF Pending, RecordInv
    <3>3. \A r \in Requests : r # q => /\ thread'.ask[r] = thread.ask[r]
                                       /\ thread'.answer[r] = thread.answer[r]
        BY <1>0, <3>1
    <3>4. thread'.ask[q] = "resolved"
        BY <1>0, <3>1, <3>2
    <3>5. ASSUME NEW c \in Shown PROVE c \in Shown'
      <4>1. c \in sent /\ c.request \in Requests /\ c.intent \in Intents
            /\ thread.answer[c.request] = c.intent
          BY <1>0 DEF Shown, CommandType
      <4>2. c.request # q
          BY <3>2, <4>1 DEF Intents
      <4> QED
          BY <2>1, <3>3, <4>1, <4>2 DEF Shown
    <3>6. \A r \in Requests : thread'.ask[r] # "resolved" => thread'.answer[r] = "none"
        BY <3>3, <3>4 DEF RecordInv
    <3> QED
        BY <2>1, <2>2, <3>5, <3>6 DEF RecordInv
  <2> QED
      BY <2>1, <2>3, <2>4
<1>2. CASE SendAnswer
  <2>1. /\ thread' = thread /\ sent \subseteq sent'
        /\ pc' = "idle" \/ (UNCHANGED <<op, turn>> /\ Command("answer") \in sent')
      BY <1>2 DEF SendAnswer, Return, Goto, t3Vars
  <2> QED
      BY <2>1 DEF RecordInv, Shown, Command
<1>3. CASE UNCHANGED <<thread, sent>> /\ (pc' # "await" \/ UNCHANGED <<op, pc, turn>>)
    BY <1>3 DEF RecordInv, Shown, Command
<1>4. CASE Scan \/ VoiceTurn \/ TakeText \/ User \/ Crash \/ UNCHANGED vars
    BY <1>3, <1>4 DEF Scan, VoiceTurn, TakeText, User, StartCall, Speak, EndCall, Text, Crash,
                      Leave, Abort, vars, t3Vars
<1>5. CASE VoiceRespond \/ Respond \/ StartDialog
    BY <1>3, <1>5 DEF VoiceRespond, Respond, StartDialog, Leave, Abort, Return, Goto, t3Vars
<1>6. CASE Coordinate \/ Decide
    BY <1>3, <1>6 DEF Coordinate, CreateCoordinator, Decide, Return, Goto, t3Vars
<1>7. CASE Await \/ SendTurn \/ TurnReceipt \/ Watch
    BY <1>3, <1>7 DEF Await, SendTurn, TurnReceipt, Watch, Return, Confirm, Goto, t3Vars
<1> QED
    BY <1>1, <1>2, <1>4, <1>5, <1>6, <1>7 DEF Next, Dialog

\* What T3 has of what was sent for the question an operation is about.
Decided(o) ==
    o.completed =>
        \E c \in Shown \cup thread.accepted : c.request = o.request /\ c.intent = "decision"

DecidedInv == Decided(op) /\ Decided(saved)

\* T3 has no less after a step than before it.
NothingLost == Shown \subseteq Shown' /\ thread.accepted \subseteq thread'.accepted

LEMMA DecidedInit == Init => DecidedInv
BY DEF Init, DecidedInv, Decided, NewOperation

\* A step that decides nothing.
LEMMA UndecidedStep ==
    ASSUME DecidedInv, NothingLost, Carries(op, op') \/ op' = saved,
           Carries(op, saved') \/ saved' = saved
    PROVE  DecidedInv'
BY DEF DecidedInv, Decided, Carries, NothingLost

LEMMA ReturnUndecided ==
    ASSUME DecidedInv, NothingLost, NEW o \in OperationType, Carries(op, o),
           Return(o) \/ Leave(o)
    PROVE  DecidedInv'
<1>1. Carries(op, Outcome(o))
    BY OutcomeNews, CarriesOn
<1> QED
    BY <1>1, UndecidedStep DEF Return, Leave

LEMMA AbortUndecided ==
    ASSUME DecidedInv, NothingLost, UNCHANGED <<op, saved>>
    PROVE  DecidedInv'
BY UndecidedStep DEF Carries

\* The confirmation of what the dialog sent.
LEMMA ConfirmDecided ==
    ASSUME TypeInv, DecidedInv, NothingLost,
           NEW o \in OperationType, o.request = op.request, Confirm(o),
           \E c \in Shown \cup thread.accepted : c.request = op.request /\ c.intent = turn.intent
    PROVE  DecidedInv'
<1> DEFINE done == [o EXCEPT !.submitted = TRUE, !.completed = turn.intent = "decision",
                             !.uncertain = FALSE]
<1>1. /\ done \in OperationType
      /\ done.completed = (turn.intent = "decision") /\ done.request = op.request
    BY DEF OperationType
<1>2. saved' = done /\ op' = [done EXCEPT !.adopted = NoRevision]
    BY DEF Confirm
<1> HIDE DEF done
<1>3. op'.completed = done.completed /\ op'.request = done.request
    BY <1>1, <1>2 DEF OperationType
<1>4. \E c \in Shown' \cup thread'.accepted : c.request = op.request /\ c.intent = turn.intent
    BY DEF NothingLost
<1> QED
    BY <1>1, <1>2, <1>3, <1>4 DEF DecidedInv, Decided

LEMMA DecidedStep ==
    ASSUME Protocol = 2, TypeInv, RecordInv, DecidedInv, [Next]_vars
    PROVE  DecidedInv'
<1>. NothingLost
    BY RecordStays DEF NothingLost
<1>0. /\ op \in OperationType /\ saved \in OperationType /\ op.request \in Requests
      /\ T3TypeOK /\ inputs \in Nat /\ Revision \in Nat /\ turn \in TurnType
    BY RevisionType DEF TypeInv, TypeOK, DialogTypeOK, UserTypeOK, OperationType
<1> DEFINE o == Refresh(op)
           stale == [op EXCEPT !.status = "stale"]
           seen == Observe(op, Revision, turn.channel)
           marked == [op EXCEPT !.uncertain = TRUE]
           later == [op EXCEPT !.deferred = TRUE]
<1>a. o \in OperationType /\ Carries(op, o)
    BY <1>0, RefreshFacts, RefreshNews
<1>b. stale \in OperationType /\ Carries(op, stale)
    BY <1>0 DEF OperationType, Statuses, Carries
<1>c. pc # "idle" => seen \in OperationType /\ Carries(op, seen)
    BY <1>0, ObserveFacts, ObserveNews DEF TypeInv, Engaged, Speakers
<1>d. /\ later \in OperationType /\ Carries(op, later)
      /\ Carries(op, marked) /\ Carries(op, op)
    BY <1>0 DEF OperationType, Carries
<1>1. CASE Scan
  <2>1. Leave(o) \/ Leave(stale)
      BY <1>1 DEF Scan
  <2> HIDE DEF o, stale
  <2> QED
      BY <1>a, <1>b, <2>1, ReturnUndecided
<1>2. CASE VoiceTurn \/ User
    BY <1>2, AbortUndecided DEF VoiceTurn, User, StartCall, Speak, EndCall, Text
<1>3. CASE TakeText
  <2> DEFINE p == IF Contactable(op) THEN o ELSE op
  <2>1. p \in OperationType /\ Carries(op, p)
      BY <1>0, <1>a, <1>d
  <2>2. Abort \/ Leave(p) \/ (op' = p /\ saved' = p)
      BY <1>3 DEF TakeText
  <2> HIDE DEF p
  <2> QED
      BY <2>1, <2>2, AbortUndecided, ReturnUndecided, UndecidedStep DEF Abort
<1>4. CASE VoiceRespond
  <2> DEFINE ready == [o EXCEPT !.deferred = FALSE]
  <2>1. Carries(op, ready)
      BY <1>a DEF OperationType, Carries
  <2>2. Abort \/ Leave(o) \/ Leave(stale) \/ (op' = ready /\ saved' = o)
      BY <1>4 DEF VoiceRespond
  <2> HIDE DEF o, stale, ready
  <2> QED
      BY <1>a, <1>b, <2>1, <2>2, AbortUndecided, ReturnUndecided, UndecidedStep DEF Abort
<1>5. CASE Respond
  <2> DEFINE fresh == [o EXCEPT !.status = "open", !.deferred = FALSE,
                                !.adopted = NoRevision, !.adopted_by = "text",
                                !.completed = @ /\ o.status # "completed"]
             postponed == [o EXCEPT !.deferred = TRUE, !.status = "deferred"]
  <2>1. postponed \in OperationType /\ Carries(op, postponed)
      BY <1>a DEF OperationType, Statuses, Carries
  <2>2. Carries(op, fresh)
      BY <1>a DEF OperationType, Carries
  <2>3. \/ Abort \/ Leave(o) \/ Leave(postponed)
        \/ op' = fresh /\ saved' = fresh
      BY <1>5 DEF Respond
  <2> HIDE DEF o, fresh, postponed
  <2> QED
      BY <1>a, <2>1, <2>2, <2>3, AbortUndecided, ReturnUndecided, UndecidedStep DEF Abort
<1>6. CASE StartDialog \/ Coordinate \/ Decide \/ SendAnswer \/ SendTurn \/ Watch
  <2>1. /\ pc # "idle"
        /\ \/ Return(op) \/ Return(seen) \/ Return(later)
           \/ op' = op /\ saved' \in {op, saved}
           \/ op' = marked /\ saved' = marked
    <3>1. CASE StartDialog
        BY <3>1 DEF StartDialog
    <3>2. CASE Coordinate
        BY <3>2 DEF Coordinate, CreateCoordinator
    <3>3. CASE Decide
        BY <3>3 DEF Decide
    <3>4. CASE SendAnswer \/ SendTurn
        BY <3>4 DEF SendAnswer, SendTurn
    <3>5. CASE Watch
        BY <3>5 DEF Watch
    <3> QED
        BY <1>6, <3>1, <3>2, <3>3, <3>4, <3>5
  <2> HIDE DEF seen, later, marked
  <2> QED
      BY <1>0, <1>c, <1>d, <2>1, ReturnUndecided, UndecidedStep
<1>7. CASE Await
  <2>1. CASE Return(op)
      BY <1>0, <1>d, <2>1, ReturnUndecided
  <2>2. CASE /\ thread.answer[op.request] = turn.intent
             /\ Confirm([op EXCEPT !.delivered = @ \cup {op.request}])
    <3> DEFINE told == [op EXCEPT !.delivered = @ \cup {op.request}]
    <3>1. told \in OperationType /\ told.request = op.request
        BY <1>0 DEF OperationType
    <3>2. Command("answer") \in sent
        BY <1>7 DEF Await, RecordInv
    <3>3. Command("answer").request = op.request /\ Command("answer").intent = turn.intent
        BY DEF Command
    <3>4. \E c \in Shown \cup thread.accepted : c.request = op.request /\ c.intent = turn.intent
        BY <2>2, <3>2, <3>3 DEF Shown
    <3>5. Confirm(told)
        BY <2>2
    <3> HIDE DEF told
    <3> QED
        BY <3>1, <3>4, <3>5, ConfirmDecided
  <2> QED
      BY <1>7, <2>1, <2>2 DEF Await
<1>8. CASE TurnReceipt
  <2>1. CASE Return(op)
      BY <1>0, <1>d, <2>1, ReturnUndecided
  <2>2. CASE Command("turn") \in thread.accepted /\ Confirm(op)
    <3>1. \E c \in Shown \cup thread.accepted : c.request = op.request /\ c.intent = turn.intent
        BY <2>2 DEF Command
    <3> QED
        BY <1>0, <2>2, <3>1, ConfirmDecided
  <2> QED
      BY <1>8, <2>1, <2>2 DEF TurnReceipt
<1>9. CASE T3
    BY <1>9, T3Writes, AbortUndecided
<1>10. CASE Crash
    BY <1>10, UndecidedStep DEF Crash
<1>11. CASE UNCHANGED vars
    BY <1>11, AbortUndecided DEF vars
<1> QED
    BY <1>1, <1>2, <1>3, <1>4, <1>5, <1>6, <1>7, <1>8, <1>9, <1>10, <1>11 DEF Next, Dialog

\* With protocol 2, where T3 tells what answered a question: the dialog speaks of a
\* decision only when one was sent for this very question and T3 has it, as the answer in
\* its record of the question, whoever gave it first, or as a follow-up turn it accepted.
\* (Under protocol 1 an answer of another client counts whatever it says, and the property
\* does not hold.)
THEOREM DecisionsDelivered == Protocol = 2 => (Spec => []CompletedMeansDelivered)
<1> SUFFICES ASSUME Protocol = 2 PROVE Spec => []CompletedMeansDelivered
    OBVIOUS
<1>1. DecidedInv => CompletedMeansDelivered
    BY DEF DecidedInv, Decided, CompletedMeansDelivered
<1>2. TypeInv /\ RecordInv /\ DecidedInv /\ [Next]_vars => RecordInv' /\ DecidedInv'
    BY RecordStays, DecidedStep
<1> QED
    BY <1>1, <1>2, TypeInit, TypeStep, RecordInit, DecidedInit, PTL DEF Spec

-----------------------------------------------------------------------------
(* A question taken over on the phone waits for new speech.                *)

Waiting(o) == o.adopted_by = "voice" /\ ~o.submitted

\* The voice is at one turn at a time, of the last call there was: the next call waits for
\* it.  (Texts may wait, or be worked on, during all of it.)
OneTurn ==
    /\ turn.channel = "voice" => turn.call = call.number /\ heard.channel # "voice"
    /\ heard.channel = "voice" => heard.call = call.number

\* What is said beyond the revision of the adoption was said after it.
SaidSince ==
    /\ Waiting(op) /\ call.on /\ call.revision > 0 /\ call.revision > op.adopted =>
         call.last > op.adopted_at
    /\ Waiting(op) /\ heard.channel = "voice" /\ heard.revision > op.adopted =>
         heard.input > op.adopted_at
    /\ Waiting(op) /\ turn.channel = "voice" /\ turn.revision > op.adopted =>
         turn.input > op.adopted_at

\* A turn that went past StartDialog is beyond the adoption, and an answer is on its
\* way only for a question that has none.  Messages are answered in respond().
PastTheMark ==
    /\ pc = "respond" => turn.channel = "text"
    /\ pc \in {"coordinate", "decide", "send_answer"} /\ turn.channel = "voice" =>
         turn.revision > op.adopted
    /\ pc = "send_answer" => ~op.submitted

SpeechInv ==
    /\ op.adopted_at <= inputs /\ saved.adopted_at <= inputs
    /\ OneTurn /\ SaidSince /\ PastTheMark

LEMMA SpeechInit == Init => SpeechInv
BY DEF Init, SpeechInv, OneTurn, SaidSince, PastTheMark, Waiting, NewOperation, NoTurn

\* What a step of the dialog may do to the marks of the adoption: nothing, or an
\* adoption that does not wait for speech, or one ahead of all that was said.
Remarked ==
    /\ op'.adopted_at <= inputs /\ saved'.adopted_at <= inputs
    /\ \/ SameMark(op, op')
       \/ ~Waiting(op')
       \/ /\ turn'.channel # "voice" /\ heard.channel # "voice"
          /\ call.on => call.revision <= op'.adopted

\* Nothing is said, or heard, in such a step.
NothingSaid == call' = call /\ inputs' = inputs /\ heard' \in {heard, NoTurn}

\* The turn is the same, whatever the language model made of it, or over.
SameTurn ==
    /\ turn'.channel = turn.channel /\ turn'.call = turn.call
    /\ turn'.revision = turn.revision /\ turn'.input = turn.input

LEMMA DialogSpeech ==
    ASSUME TypeInv, SpeechInv, NothingSaid,
           op' \in OperationType, Remarked, turn' = NoTurn \/ SameTurn,
           \/ pc' \notin {"respond", "coordinate", "decide", "send_answer"}
           \/ /\ SameMark(op, op') /\ pc' # "respond"
              /\ turn'.channel = "voice" => turn'.revision > op.adopted
              /\ pc' = "send_answer" => ~op.submitted
    PROVE  SpeechInv'
<1>0. /\ call.revision \in Nat /\ turn.revision \in Nat
      /\ op.adopted \in Int /\ op'.adopted \in Int
    BY DEF TypeInv, TypeOK, UserTypeOK, DialogTypeOK, TurnType, OperationType, NoRevision
<1>1. NoTurn.channel = "none"
    BY DEF NoTurn
<1>2. OneTurn'
    BY <1>1 DEF SpeechInv, OneTurn, SameTurn, NothingSaid
<1>3. SaidSince'
  <2>1. CASE SameMark(op, op')
      BY <1>1, <2>1 DEF SpeechInv, SaidSince, SameMark, SameTurn, Waiting, NothingSaid
  <2>2. CASE ~Waiting(op')
      BY <2>2 DEF SaidSince, Waiting
  <2>3. CASE /\ turn'.channel # "voice" /\ heard.channel # "voice"
             /\ call.on => call.revision <= op'.adopted
    <3>1. ~(call'.on /\ call'.revision > op'.adopted) /\ heard'.channel # "voice"
        BY <1>0, <1>1, <2>3 DEF NothingSaid
    <3> QED
        BY <2>3, <3>1 DEF SaidSince
  <2> QED
      BY <2>1, <2>2, <2>3 DEF Remarked
<1>4. PastTheMark'
    BY DEF PastTheMark, SameMark
<1>5. op'.adopted_at <= inputs' /\ saved'.adopted_at <= inputs'
    BY DEF Remarked, NothingSaid
<1> QED
    BY <1>2, <1>3, <1>4, <1>5 DEF SpeechInv

LEMMA ReturnSpeech ==
    ASSUME TypeInv, SpeechInv, NothingSaid,
           NEW o \in OperationType, o.adopted_at <= inputs, Return(o) \/ Leave(o),
           \/ SameMark(op, o)
           \/ ~Waiting(o)
           \/ heard.channel # "voice" /\ (call.on => call.revision <= o.adopted)
    PROVE  SpeechInv'
<1>1. SameMark(o, Outcome(o)) /\ Outcome(o) \in OperationType
    BY OutcomeNews, OutcomeFacts
<1>2. /\ op' \in OperationType /\ SameMark(o, op') /\ saved' = op'
      /\ turn' = NoTurn /\ pc' = "idle" /\ NoTurn.channel # "voice"
    BY <1>1 DEF Return, Leave, SameMark, NoTurn
<1>3. Remarked
    BY <1>2 DEF Remarked, SameMark, Waiting
<1> QED
    BY <1>2, <1>3, DialogSpeech

LEMMA AbortSpeech ==
    ASSUME TypeInv, SpeechInv, NothingSaid, Abort
    PROVE  SpeechInv'
<1>1. Remarked
    BY DEF Remarked, Abort, SameMark, SpeechInv
<1>2. op' \in OperationType /\ turn' = NoTurn /\ pc' = "idle"
    BY DEF Abort, TypeInv, TypeOK, DialogTypeOK
<1> QED
    BY <1>1, <1>2, DialogSpeech

\* What a read of T3 in the dialog takes over is ahead of all that was said.
LEMMA SeenIsAhead ==
    ASSUME TypeInv, SpeechInv, pc # "idle"
    PROVE  LET seen == Observe(op, Revision, turn.channel)
           IN  /\ seen \in OperationType
               /\ seen.adopted_at <= inputs
               /\ \/ SameMark(op, seen)
                  \/ ~Waiting(seen)
                  \/ heard.channel # "voice" /\ (call.on => call.revision <= seen.adopted)
<1>0. /\ op \in OperationType /\ T3TypeOK /\ inputs \in Nat /\ Revision \in Nat
      /\ turn.channel \in Speakers /\ call.revision \in Nat
    BY RevisionType DEF TypeInv, TypeOK, DialogTypeOK, UserTypeOK, Engaged, Speakers
<1> DEFINE seen == Observe(op, Revision, turn.channel)
<1>1. /\ seen \in OperationType
      /\ SameMark(op, seen) \/ TakenOver(seen, Revision, turn.channel)
    BY <1>0, ObserveFacts, ObserveNews
<1> HIDE DEF seen
<1>2. turn.channel = "voice" =>
         heard.channel # "voice" /\ (call.on => Revision = call.revision)
    BY DEF SpeechInv, OneTurn, Revision, Cancelled, Over
<1>3. seen.adopted_at <= inputs
    BY <1>0, <1>1 DEF SameMark, TakenOver, SpeechInv
<1>4. \/ SameMark(op, seen)
      \/ ~Waiting(seen)
      \/ heard.channel # "voice" /\ (call.on => call.revision <= seen.adopted)
    BY <1>0, <1>1, <1>2 DEF TakenOver, Waiting
<1> QED
    BY <1>1, <1>3, <1>4 DEF seen

\* The callers: scans, turns that are taken up, messages that are read.
LEMMA CallerSpeech ==
    ASSUME TypeInv, SpeechInv, Scan \/ VoiceTurn \/ TakeText \/ VoiceRespond \/ Respond
    PROVE  SpeechInv'
<1>0. /\ op \in OperationType /\ T3TypeOK /\ inputs \in Nat
      /\ op.adopted_at <= inputs /\ saved.adopted_at <= inputs
    BY DEF TypeInv, TypeOK, DialogTypeOK, UserTypeOK, SpeechInv
<1> DEFINE o == Refresh(op)
           stale == [op EXCEPT !.status = "stale"]
<1>a. /\ o \in OperationType /\ o.adopted_at <= inputs
      /\ SameMark(op, o) \/ ~Waiting(o)
    BY <1>0, RefreshFacts, RefreshNews DEF SameMark, TakenOver, Waiting
<1>b. /\ stale \in OperationType /\ stale.adopted_at <= inputs /\ SameMark(op, stale)
    BY <1>0, StatusNews DEF OperationType, Statuses, SameMark
<1>1. CASE Scan
  <2>1. (Leave(o) \/ Leave(stale)) /\ NothingSaid
      BY <1>1 DEF Scan, userVars, NothingSaid
  <2> HIDE DEF o, stale
  <2> QED
      BY <1>a, <1>b, <2>1, ReturnSpeech
<1>2. CASE VoiceTurn
  <2>1. /\ turn.channel # "voice" /\ call.on /\ call.revision > 0
        /\ heard'.channel = "voice" /\ heard'.call = call.number
        /\ heard'.revision = call.revision /\ heard'.input = call.last
        /\ UNCHANGED <<op, saved, pc, turn, call, texts, inputs>>
      BY <1>2 DEF VoiceTurn, NoTurn
  <2>2. OneTurn' /\ SaidSince' /\ PastTheMark'
      BY <2>1 DEF SpeechInv, OneTurn, SaidSince, PastTheMark, Waiting
  <2> QED
      BY <1>0, <2>1, <2>2 DEF SpeechInv
<1>3. CASE TakeText
  <2> DEFINE p == IF Contactable(op) THEN o ELSE op
             m == LowestOf(texts)
  <2>1. /\ p \in OperationType /\ p.adopted_at <= inputs
        /\ SameMark(op, p) \/ ~Waiting(p)
      BY <1>0, <1>a DEF SameMark
  <2>2. /\ UNCHANGED <<call, heard, inputs>>
        /\ \/ Abort \/ Leave(p)
           \/ /\ op' = p /\ saved' = p /\ pc' = "respond"
              /\ turn' = [NoTurn EXCEPT !.channel = "text", !.input = m]
      BY <1>3 DEF TakeText
  <2> HIDE DEF p, m
  <2>3. /\ turn'.channel # "voice" /\ pc' \in {"idle", "respond"}
        /\ pc' = "respond" => turn'.channel = "text"
    <3>1. /\ [NoTurn EXCEPT !.channel = "text", !.input = m].channel = "text"
          /\ NoTurn.channel = "none"
        BY DEF NoTurn
    <3> QED
        BY <2>2, <3>1 DEF Abort, Leave
  <2>4. /\ op'.adopted_at <= inputs' /\ saved'.adopted_at <= inputs'
        /\ SameMark(op, op') \/ ~Waiting(op')
      BY <1>0, <2>1, <2>2 DEF Abort, Leave, SameMark
  <2>5. OneTurn' /\ SaidSince' /\ PastTheMark'
      BY <2>2, <2>3, <2>4 DEF SpeechInv, OneTurn, SaidSince, PastTheMark, SameMark, Waiting
  <2> QED
      BY <2>4, <2>5 DEF SpeechInv
<1>4. CASE VoiceRespond
  <2> DEFINE ready == [o EXCEPT !.deferred = FALSE]
  <2>1. ready \in OperationType /\ SameMark(o, ready)
      BY <1>a DEF OperationType, SameMark
  <2>2. /\ NothingSaid /\ heard' = NoTurn /\ heard # NoTurn
        /\ \/ Abort \/ Leave(o) \/ Leave(stale)
           \/ op' = ready /\ saved' = o /\ pc' = "start" /\ turn' = heard
      BY <1>4 DEF VoiceRespond, NothingSaid
  <2> HIDE DEF o, stale, ready
  <2>3. CASE op' = ready /\ saved' = o /\ pc' = "start" /\ turn' = heard
    <3>1. /\ op'.adopted_at <= inputs' /\ saved'.adopted_at <= inputs'
          /\ SameMark(op, op') \/ ~Waiting(op')
        BY <1>a, <2>1, <2>2, <2>3 DEF SameMark, Waiting, NothingSaid
    <3>2. heard.channel = "voice" /\ heard'.channel = "none" /\ call' = call
        BY <2>2 DEF TypeInv, Overheard, NoTurn, NothingSaid
    <3>3. OneTurn' /\ SaidSince' /\ PastTheMark'
        BY <2>3, <3>1, <3>2 DEF SpeechInv, OneTurn, SaidSince, PastTheMark, SameMark, Waiting
    <3> QED
        BY <3>1, <3>3 DEF SpeechInv
  <2> QED
      BY <1>a, <1>b, <2>2, <2>3, AbortSpeech, ReturnSpeech
<1>5. CASE Respond
  <2> DEFINE fresh == [o EXCEPT !.status = "open", !.deferred = FALSE,
                                !.adopted = NoRevision, !.adopted_by = "text",
                                !.completed = @ /\ o.status # "completed"]
             postponed == [o EXCEPT !.deferred = TRUE, !.status = "deferred"]
  <2>1. postponed \in OperationType /\ SameMark(o, postponed)
      BY <1>a DEF OperationType, Statuses, SameMark
  <2>2. fresh \in OperationType /\ fresh.adopted_at = o.adopted_at /\ ~Waiting(fresh)
      BY <1>a DEF OperationType, Statuses, NoRevision, Waiting
  <2>3. /\ NothingSaid
        /\ \/ Abort \/ Leave(o) \/ Leave(postponed)
           \/ op' = fresh /\ saved' = fresh /\ Goto("start")
      BY <1>5 DEF Respond, userVars, NothingSaid
  <2> HIDE DEF o, fresh, postponed
  <2>4. CASE op' = fresh /\ saved' = fresh /\ Goto("start")
    <3>1. Remarked
        BY <1>a, <2>2, <2>4 DEF Remarked
    <3> QED
        BY <2>2, <2>3, <2>4, <3>1, DialogSpeech DEF Goto, SameTurn
  <2>5. CASE Leave(postponed)
    <3>1. /\ postponed.adopted_at <= inputs
          /\ SameMark(op, postponed) \/ ~Waiting(postponed)
        BY <1>a, <2>1 DEF SameMark, Waiting
    <3> QED
        BY <2>1, <2>3, <2>5, <3>1, ReturnSpeech
  <2> QED
      BY <1>a, <2>3, <2>4, <2>5, AbortSpeech, ReturnSpeech
<1> QED
    BY <1>1, <1>2, <1>3, <1>4, <1>5

\* T3Delegation.__call__.
LEMMA CallSpeech ==
    ASSUME TypeInv, SpeechInv,
           \/ StartDialog \/ Coordinate \/ Decide \/ SendAnswer \/ Await \/ SendTurn
           \/ TurnReceipt \/ Watch
    PROVE  SpeechInv'
<1>0. /\ op \in OperationType /\ saved \in OperationType /\ turn \in TurnType
      /\ op.adopted_at <= inputs /\ saved.adopted_at <= inputs /\ pc # "idle"
      /\ turn.revision \in Nat /\ op.adopted \in Int
      /\ NothingSaid
    BY DEF TypeInv, TypeOK, DialogTypeOK, SpeechInv, TurnType, OperationType, NoRevision,
           StartDialog, Coordinate, Decide, SendAnswer, Await, SendTurn, TurnReceipt, Watch,
           userVars, NothingSaid
<1> DEFINE seen == Observe(op, Revision, turn.channel)
           marked == [op EXCEPT !.uncertain = TRUE]
           later == [op EXCEPT !.deferred = TRUE]
<1>a. {op, marked, later} \subseteq OperationType
    BY <1>0 DEF OperationType
<1>b. \A o \in {op, marked, later} : SameMark(op, o) /\ o.adopted_at <= inputs
    BY <1>0 DEF OperationType, SameMark
<1>c. ASSUME Return(op) \/ Return(later) \/ Return(seen) PROVE SpeechInv'
  <2>1. CASE Return(op) \/ Return(later)
    <3> HIDE DEF later, seen, marked
    <3> QED
        BY <1>0, <1>a, <1>b, <2>1, ReturnSpeech
  <2>2. CASE Return(seen)
      BY <1>0, <2>2, SeenIsAhead, ReturnSpeech
  <2> QED
      BY <1>c, <2>1, <2>2
<1>d. ASSUME \/ op' = op /\ saved' = saved
             \/ op' \in {op, marked} /\ saved' = op',
             SameTurn, pc' # "respond",
             \/ pc' \notin {"coordinate", "decide", "send_answer"}
             \/ /\ turn.channel = "voice" => turn.revision > op.adopted
                /\ pc' = "send_answer" => ~op.submitted
      PROVE  SpeechInv'
  <2>1. op' \in OperationType /\ SameMark(op, op')
      BY <1>a, <1>b, <1>d
  <2>2. Remarked
      BY <1>0, <1>b, <1>d, <2>1 DEF Remarked
  <2>3. turn'.channel = turn.channel /\ turn'.revision = turn.revision
      BY <1>d DEF SameTurn
  <2> HIDE DEF marked
  <2> QED
      BY <1>0, <1>d, <2>1, <2>2, <2>3, DialogSpeech
<1>e. \A step : Goto(step) => SameTurn /\ pc' = step
    BY DEF Goto, SameTurn
<1>f. ASSUME NEW o \in OperationType, o.adopted_at <= inputs, Confirm(o) PROVE SpeechInv'
  <2> DEFINE done == [o EXCEPT !.submitted = TRUE, !.completed = turn.intent = "decision",
                               !.uncertain = FALSE]
  <2>1. done \in OperationType /\ done.submitted /\ done.adopted_at = o.adopted_at
      BY DEF OperationType
  <2>2. saved' = done /\ op' = [done EXCEPT !.adopted = NoRevision] /\ Goto("watch")
      BY <1>f DEF Confirm
  <2> HIDE DEF done
  <2>3. op' \in OperationType /\ op'.submitted /\ op'.adopted_at = done.adopted_at
      BY <2>1, <2>2 DEF OperationType, NoRevision
  <2>4. Remarked
      BY <1>f, <2>1, <2>2, <2>3 DEF Remarked, Waiting
  <2> QED
      BY <1>0, <1>e, <2>2, <2>3, <2>4, DialogSpeech
<1>1. CASE StartDialog
  <2>1. \/ Return(op) \/ Return(seen)
        \/ /\ Goto("coordinate") /\ UNCHANGED <<op, saved>>
           /\ ~(turn.revision <= op.adopted)
      BY <1>1 DEF StartDialog
  <2> HIDE DEF seen, marked, later
  <2> QED
      BY <1>0, <1>c, <1>d, <1>e, <2>1
<1>2. CASE Coordinate
  <2>1. \/ Return(op) \/ Return(later)
        \/ /\ op' = op /\ saved' = op' /\ UNCHANGED <<pc, turn>>
        \/ /\ \E i \in Intents : turn' = [turn EXCEPT !.intent = i]
           /\ pc' = "decide" /\ UNCHANGED <<op, saved>>
      BY <1>2 DEF Coordinate, CreateCoordinator
  <2>2. turn.channel = "voice" => turn.revision > op.adopted
      BY <1>2 DEF Coordinate, SpeechInv, PastTheMark
  <2>3. pc = "coordinate"
      BY <1>2 DEF Coordinate
  <2>4. (\E i \in Intents : turn' = [turn EXCEPT !.intent = i]) => SameTurn
      BY <1>0 DEF TurnType, SameTurn
  <2>5. UNCHANGED <<pc, turn>> => SameTurn
      BY DEF SameTurn
  <2> HIDE DEF seen, marked, later
  <2> QED
      BY <1>c, <1>d, <2>1, <2>2, <2>3, <2>4, <2>5
<1>3. CASE Decide
  <2>1. \/ Return(op) \/ Return(seen)
        \/ /\ op' = marked /\ saved' = op' /\ Goto("send_answer") /\ ~op.submitted
        \/ /\ op' = marked /\ saved' = op' /\ Goto("send_turn")
      BY <1>3 DEF Decide
  <2>2. turn.channel = "voice" => turn.revision > op.adopted
      BY <1>3 DEF Decide, SpeechInv, PastTheMark
  <2> HIDE DEF seen, marked, later
  <2> QED
      BY <1>c, <1>d, <1>e, <2>1, <2>2
<1>4. CASE SendAnswer \/ SendTurn
  <2>1. \/ Return(op)
        \/ UNCHANGED <<op, saved>> /\ (Goto("await") \/ Goto("turn_receipt"))
      BY <1>4 DEF SendAnswer, SendTurn
  <2> HIDE DEF seen, marked, later
  <2> QED
      BY <1>c, <1>d, <1>e, <2>1
<1>5. CASE Await
  <2> DEFINE told == [op EXCEPT !.delivered = @ \cup {op.request}]
  <2>1. told \in OperationType /\ told.adopted_at <= inputs
      BY <1>0 DEF OperationType
  <2>2. Return(op) \/ Confirm(told)
      BY <1>5 DEF Await
  <2> HIDE DEF told, seen, marked, later
  <2> QED
      BY <1>c, <1>f, <2>1, <2>2
<1>6. CASE TurnReceipt
  <2>1. Return(op) \/ Confirm(op)
      BY <1>6 DEF TurnReceipt
  <2> HIDE DEF seen, marked, later
  <2> QED
      BY <1>0, <1>c, <1>f, <2>1
<1>7. CASE Watch
  <2>1. Return(op) \/ Return(seen)
      BY <1>7 DEF Watch
  <2> QED
      BY <1>c, <2>1
<1> QED
    BY <1>1, <1>2, <1>3, <1>4, <1>5, <1>6, <1>7

\* The user speaks, writes and calls.
LEMMA UserSpeech ==
    ASSUME TypeInv, SpeechInv, User
    PROVE  SpeechInv'
<1>0. /\ call \in [on : BOOLEAN, number : Nat, revision : Nat, last : Nat]
      /\ inputs \in Nat /\ op.adopted_at \in Nat /\ saved.adopted_at \in Nat
      /\ UNCHANGED <<op, saved, pc, turn, heard>>
    BY DEF TypeInv, TypeOK, DialogTypeOK, UserTypeOK, OperationType, User, StartCall, Speak,
           EndCall, Text
<1>1. PastTheMark'
    BY <1>0 DEF SpeechInv, PastTheMark
<1>2. op'.adopted_at <= inputs' /\ saved'.adopted_at <= inputs'
  <2>1. inputs' = inputs \/ inputs' = inputs + 1
      BY DEF User, StartCall, Speak, EndCall, Text
  <2> QED
      BY <1>0, <2>1 DEF SpeechInv
<1>3. OneTurn' /\ SaidSince'
  <2>1. CASE StartCall
    <3>1. /\ turn'.channel # "voice" /\ heard'.channel = "none" /\ call'.revision = 0
        BY <1>0, <2>1 DEF StartCall, NoTurn
    <3> QED
        BY <3>1 DEF OneTurn, SaidSince
  <2>2. CASE Speak
    <3>1. /\ call'.on = call.on /\ call'.number = call.number /\ call'.last = inputs + 1
        BY <1>0, <2>2 DEF Speak
    <3>2. call'.last > op.adopted_at
        BY <1>0, <3>1 DEF SpeechInv
    <3> QED
        BY <1>0, <3>1, <3>2 DEF SpeechInv, OneTurn, SaidSince, Waiting
  <2>3. CASE EndCall \/ Text
    <3>1. ~call'.on /\ call'.number = call.number
        BY <1>0, <2>3 DEF EndCall, Text
    <3> QED
        BY <1>0, <3>1 DEF SpeechInv, OneTurn, SaidSince, Waiting
  <2> QED
      BY <2>1, <2>2, <2>3 DEF User
<1> QED
    BY <1>1, <1>2, <1>3 DEF SpeechInv

LEMMA SpeechStep == TypeInv /\ SpeechInv /\ [Next]_vars => SpeechInv'
<1> SUFFICES ASSUME TypeInv, SpeechInv, [Next]_vars PROVE SpeechInv'
    OBVIOUS
<1>1. CASE Scan \/ VoiceTurn \/ TakeText \/ VoiceRespond \/ Respond
    BY <1>1, CallerSpeech
<1>2. CASE \/ StartDialog \/ Coordinate \/ Decide \/ SendAnswer \/ Await \/ SendTurn
           \/ TurnReceipt \/ Watch
    BY <1>2, CallSpeech
<1>3. CASE User
    BY <1>3, UserSpeech
<1>4. CASE T3 \/ UNCHANGED vars
  <2>1. UNCHANGED <<op, saved, pc, turn, call, heard, inputs>>
      BY <1>4 DEF T3, T3Asks, T3Closes, T3Runs, T3Archives, T3Executes, vars, userVars
  <2> QED
      BY <2>1 DEF SpeechInv, OneTurn, SaidSince, PastTheMark, Waiting
<1>5. CASE Crash
  <2>1. /\ op' = saved /\ saved' = saved /\ inputs' = inputs /\ pc' = "idle"
        /\ turn'.channel = "none" /\ heard'.channel = "none" /\ ~call'.on
      BY <1>5 DEF Crash, NoTurn, TypeInv, TypeOK, UserTypeOK
  <2> QED
      BY <2>1 DEF SpeechInv, OneTurn, SaidSince, PastTheMark
<1> QED
    BY <1>1, <1>2, <1>3, <1>4, <1>5 DEF Next, Dialog

\* A question that a turn on the phone took over, and reported, and that no text has been
\* about since, is answered only with speech that came after that, whatever texts are read
\* meanwhile: the revision of the adoption holds back what was said before in the same
\* call, and the turns of a later call all come after it.
THEOREM NewSpeechOnly == Spec => SpokenQuestionNeedsNewSpeech
<1> DEFINE Answer ==
             \A r \in Requests :
                 dispatched'[r] # dispatched[r] /\ turn.channel = "voice" /\ op.adopted_by = "voice"
                   => turn.input > op.adopted_at
<1>1. SpeechInv /\ [Next]_vars => [Answer]_vars
  <2> SUFFICES ASSUME SpeechInv, Next, NEW r \in Requests,
                      dispatched'[r] # dispatched[r], turn.channel = "voice",
                      op.adopted_by = "voice"
               PROVE  turn.input > op.adopted_at
      OBVIOUS
  <2>1. CASE SendAnswer
      BY <2>1 DEF SendAnswer, SpeechInv, SaidSince, PastTheMark, Waiting
  <2>2. CASE UNCHANGED dispatched
      BY <2>2
  <2>3. CASE ~SendAnswer
    <3>1. UNCHANGED dispatched
        BY <2>3 DEF Next, Dialog, User, T3, Scan, VoiceTurn, TakeText, VoiceRespond, Respond,
                    StartDialog, Coordinate, Decide, Await, SendTurn, TurnReceipt, Watch,
                    StartCall, Speak, EndCall, Text, T3Asks, T3Closes, T3Runs, T3Archives,
                    T3Executes, Crash, t3Vars
    <3> QED
        BY <3>1
  <2> QED
      BY <2>1, <2>3
<1> QED
    BY <1>1, TypeInit, TypeStep, SpeechInit, SpeechStep, PTL
       DEF Spec, SpokenQuestionNeedsNewSpeech

-----------------------------------------------------------------------------
(* The answers of a dialog implement CommandOnce.                          *)

\* The dialog is about the same question, or about one that took the place of a question
\* that has its answer.
MovesOn(o, p) ==
    /\ p.uncertain = o.uncertain /\ p.delivered = o.delivered
    /\ \/ p.request = o.request /\ p.submitted = o.submitted
       \/ o.submitted /\ ~p.submitted

LEMMA ObserveMoves ==
    ASSUME T3TypeOK, inputs \in Nat,
           NEW o \in OperationType, NEW revision \in Nat, NEW who \in Speakers, o.submitted
    PROVE  MovesOn(o, Observe(o, revision, who))
<1>1. CASE Pending \ o.delivered = {}
    BY <1>1 DEF Observe, MovesOn
<1>2. CASE Pending \ o.delivered # {}
  <2>1. ~Observe(o, revision, who).submitted
    <3> DEFINE h == Handoff(o, LowestOf(Pending \ o.delivered))
    <3>1. Observe(o, revision, who) = [h EXCEPT !.submitted = FALSE, !.completed = FALSE,
                                                !.adopted = revision, !.adopted_by = who,
                                                !.adopted_at = inputs]
        BY <1>2 DEF Observe, Adopt
    <3>2. "submitted" \in DOMAIN h
        BY DEF Handoff, OperationType
    <3> HIDE DEF h
    <3> QED
        BY <3>1, <3>2
  <2> QED
      BY <2>1, ObserveFacts DEF MovesOn
<1> QED
    BY <1>1, <1>2

LEMMA RefreshMoves ==
    ASSUME T3TypeOK, inputs \in Nat, NEW o \in OperationType
    PROVE  MovesOn(o, Refresh(o))
<1> DEFINE d == IF o.submitted THEN Observe(o, 0, "refresh") ELSE o
<1>1. d \in OperationType /\ MovesOn(o, d)
    BY ObserveFacts, ObserveMoves DEF Speakers, MovesOn
<1>2. CASE o.status = "completed" /\ o.completed
    BY <1>2 DEF Refresh, MovesOn
<1>3. CASE ~(o.status = "completed" /\ o.completed)
  <2>1. PICK status : Refresh(o) = [d EXCEPT !.status = status]
      BY <1>3 DEF Refresh
  <2> HIDE DEF d
  <2>2. Refresh(o).request = d.request /\ Refresh(o).submitted = d.submitted
      BY <1>1, <2>1 DEF OperationType
  <2> QED
      BY <1>1, <2>2, RefreshFacts DEF MovesOn
<1> QED
    BY <1>2, <1>3

\* What was answered counts as delivered, memory and checkpoint are about the same
\* question, a follow-up comes after an answer, and each answer sent was counted.
AnswerInv ==
    /\ op.submitted => op.request \in op.delivered
    /\ saved.request = op.request /\ saved.submitted = op.submitted
    /\ pc \in {"send_turn", "turn_receipt", "watch"} => op.submitted
    /\ \A c \in sent : dispatched[c.request] = 1

LEMMA AnswersInit == Init => AnswerInv /\ Answers!Init
<1> SUFFICES ASSUME Init PROVE AnswerInv /\ Answers!Init
    OBVIOUS
<1>1. AnswerInv
    BY DEF Init, AnswerInv, NewOperation
<1>2. Marked = {} /\ Told = {}
    BY DEF Init, Marked, Told, NewOperation
<1>3. Taken = {}
    BY DEF Init, Taken, Shown
<1>4. dispatched = [r \in Requests |-> 0]
    BY DEF Init
<1> QED
    BY <1>1, <1>2, <1>3, <1>4 DEF Answers!Init

\* A step that marks requests and does nothing else.
LEMMA RecordStep ==
    ASSUME dispatched' = dispatched, Taken' = Taken, Told' = Told,
           Marked \subseteq Marked', Marked' \subseteq Requests
    PROVE  [Answers!Next]_Answers!vars
<1>1. Marked' \ Marked \in SUBSET (Requests \ Marked) /\ Marked' = Marked \cup (Marked' \ Marked)
    OBVIOUS
<1>2. Answers!Record
    BY <1>1 DEF Answers!Record
<1> QED
    BY <1>2 DEF Answers!Next

\* A step that sends nothing, confirms nothing and marks nothing.
LEMMA QuietAnswers ==
    ASSUME TypeInv, TypeInv', SafeInv, AnswerInv, UNCHANGED t3Vars,
           MovesOn(op, op'), saved'.uncertain = op'.uncertain,
           saved'.delivered = op'.delivered, saved'.request = op'.request,
           saved'.submitted = op'.submitted,
           pc' \notin {"send_turn", "turn_receipt", "watch"}
    PROVE  AnswerInv' /\ [Answers!Next]_Answers!vars
<1>1. saved.uncertain = op.uncertain /\ saved.delivered = op.delivered
    BY DEF SafeInv, Persisted
<1>2. saved.request = op.request /\ (op.submitted => op.request \in op.delivered)
    BY DEF AnswerInv
<1>3. AnswerInv'
    BY <1>2 DEF AnswerInv, MovesOn, t3Vars
<1>4. Taken' = Taken /\ dispatched' = dispatched
    BY DEF Taken, Shown, t3Vars
<1>5. Told' = Told
    BY <1>1 DEF Told, MovesOn
<1>6. Marked \subseteq Marked'
    BY <1>1, <1>2 DEF Marked, MovesOn
<1>7. Marked' \subseteq Requests
    BY DEF TypeInv, TypeOK, DialogTypeOK, OperationType, Marked
<1> QED
    BY <1>3, <1>4, <1>5, <1>6, <1>7, RecordStep

LEMMA ReturnAnswers ==
    ASSUME TypeInv, TypeInv', SafeInv, AnswerInv, UNCHANGED t3Vars,
           NEW o \in OperationType, MovesOn(op, o), Return(o) \/ Leave(o)
    PROVE  AnswerInv' /\ [Answers!Next]_Answers!vars
<1>1. op' = saved' /\ pc' = "idle" /\ (op' = o \/ op' = Outcome(o))
    BY DEF Return, Leave
<1>2. /\ Outcome(o).uncertain = o.uncertain /\ Outcome(o).delivered = o.delivered
      /\ Outcome(o).request = o.request /\ Outcome(o).submitted = o.submitted
    BY OutcomeFacts, OutcomeNews DEF SameMark
<1>3. MovesOn(op, op')
    BY <1>1, <1>2 DEF MovesOn
<1> QED
    BY <1>1, <1>3, QuietAnswers

LEMMA AbortAnswers ==
    ASSUME TypeInv, TypeInv', SafeInv, AnswerInv, UNCHANGED t3Vars, UNCHANGED <<op, saved>>,
           pc' \notin {"send_turn", "turn_receipt", "watch"} \/ pc' = pc
    PROVE  AnswerInv' /\ [Answers!Next]_Answers!vars
<1>1. AnswerInv'
    BY DEF AnswerInv, t3Vars
<1>2. UNCHANGED Answers!vars
    BY DEF Answers!vars, Marked, Taken, Shown, Told, t3Vars
<1> QED
    BY <1>1, <1>2

\* The steps that send, confirm or mark something.
LEMMA MutationAnswers ==
    ASSUME TypeInv, TypeInv', SafeInv, RecordInv, AnswerInv,
           Decide \/ SendAnswer \/ Await \/ SendTurn \/ TurnReceipt
    PROVE  AnswerInv' /\ [Answers!Next]_Answers!vars
<1>0. /\ op \in OperationType /\ op.request \in Requests /\ MovesOn(op, op)
      /\ T3TypeOK /\ inputs \in Nat /\ Revision \in Nat
      /\ dispatched \in [Requests -> Nat]
    BY RevisionType DEF TypeInv, TypeOK, DialogTypeOK, UserTypeOK, T3TypeOK, OperationType, MovesOn
<1>a. /\ saved.uncertain = op.uncertain /\ saved.delivered = op.delivered
      /\ saved.request = op.request
      /\ op.submitted => op.request \in op.delivered
    BY DEF SafeInv, Persisted, AnswerInv
<1>b. Marked' \subseteq Requests
    BY DEF TypeInv, TypeOK, DialogTypeOK, OperationType, Marked
<1>1. CASE Decide
  <2> DEFINE marked == [op EXCEPT !.uncertain = TRUE]
             seen == Observe(op, Revision, turn.channel)
  <2>0. UNCHANGED t3Vars /\ turn.channel \in Speakers
      BY <1>1 DEF Decide, TypeInv, Engaged, Speakers
  <2>1. CASE Return(op)
      BY <1>0, <2>0, <2>1, ReturnAnswers
  <2>2. CASE op.submitted /\ Return(seen)
    <3>1. seen \in OperationType /\ MovesOn(op, seen)
        BY <1>0, <2>0, <2>2, ObserveFacts, ObserveMoves
    <3> HIDE DEF seen
    <3> QED
        BY <2>0, <2>2, <3>1, ReturnAnswers
  <2>3. CASE /\ op' = marked /\ saved' = marked
             /\ Goto("send_answer") \/ (op.submitted /\ Goto("send_turn"))
    <3>1. /\ op'.delivered = op.delivered /\ op'.request = op.request
          /\ op'.submitted = op.submitted /\ saved' = op' /\ op'.uncertain
        BY <1>0, <2>3 DEF OperationType
    <3>2. AnswerInv'
        BY <1>a, <2>0, <2>3, <3>1 DEF AnswerInv, Goto, t3Vars
    <3>3. Taken' = Taken /\ dispatched' = dispatched
        BY <2>0 DEF Taken, Shown, t3Vars
    <3>4. Told' = Told /\ Marked \subseteq Marked'
        BY <1>a, <3>1 DEF Told, Marked
    <3> QED
        BY <1>b, <3>2, <3>3, <3>4, RecordStep
  <2> HIDE DEF marked, seen
  <2> QED
      BY <1>1, <2>1, <2>2, <2>3 DEF Decide, marked, seen
<1>2. CASE SendAnswer
  <2>1. CASE Return(op) /\ UNCHANGED t3Vars
      BY <1>0, <2>1, ReturnAnswers
  <2>2. CASE /\ op.request \in Pending
             /\ dispatched' = [dispatched EXCEPT ![op.request] = @ + 1]
             /\ sent' = sent \cup {Command("answer")}
             /\ Goto("await")
             /\ UNCHANGED <<op, saved, thread>>
    <3>1. pc = "send_answer" /\ pc' = "await"
        BY <1>2, <2>2 DEF SendAnswer, Goto
    <3>2. op.request \notin op.delivered
        BY <2>2 DEF Pending, SafeInv, DeliveredIsResolved
    <3>3. dispatched[op.request] = 0
        BY <1>0, <3>1, <3>2 DEF SafeInv, NothingOwed
    <3>4. dispatched' = [dispatched EXCEPT ![op.request] = 1]
        BY <1>0, <2>2, <3>3
    <3>5. op.request \in Marked
        BY <1>0, <1>a, <3>1 DEF SafeInv, MarkIsUp, Marked
    <3>6. UNCHANGED <<Marked, Told>>
        BY <2>2 DEF Marked, Told
    <3>7. Shown' = Shown
      <4>1. thread.answer[op.request] = "none"
          BY <1>0, <2>2 DEF RecordInv, Pending
      <4>2. /\ Command("answer").request = op.request
            /\ Command("answer").intent \in Intents
          BY DEF Command, TypeInv, TypeOK, DialogTypeOK, TurnType
      <4>3. thread.answer[Command("answer").request] # Command("answer").intent
          BY <4>1, <4>2 DEF Intents
      <4> QED
          BY <2>2, <4>3 DEF Shown
    <3>8. Taken' = Taken
        BY <3>7 DEF Taken
    <3>9. Answers!Send(op.request)
        BY <3>3, <3>4, <3>5, <3>6, <3>8 DEF Answers!Send
    <3>10. \A c \in sent' : dispatched'[c.request] = 1
      <4>1. Command("answer").request = op.request
          BY DEF Command
      <4>2. dispatched'[op.request] = 1
          BY <1>0, <3>4
      <4>3. ASSUME NEW c \in sent PROVE dispatched'[c.request] = 1
        <5>1. dispatched[c.request] = 1 /\ c.request # op.request
            BY <3>3, <4>3 DEF AnswerInv
        <5>2. c.request \in Requests
            BY <4>3 DEF TypeInv, TypeOK, T3TypeOK, CommandType
        <5> QED
            BY <1>0, <3>4, <5>1, <5>2
      <4> QED
          BY <2>2, <4>1, <4>2, <4>3
    <3>11. AnswerInv'
        BY <2>2, <3>1, <3>10 DEF AnswerInv
    <3> QED
        BY <1>0, <3>9, <3>11 DEF Answers!Next
  <2> QED
      BY <1>2, <2>1, <2>2 DEF SendAnswer
<1>3. CASE Await
  <2>0. UNCHANGED t3Vars
      BY <1>3 DEF Await
  <2>1. CASE Return(op)
      BY <1>0, <2>0, <2>1, ReturnAnswers
  <2>2. CASE /\ Protocol = 2 => thread.answer[op.request] = turn.intent
             /\ Confirm([op EXCEPT !.delivered = @ \cup {op.request}])
    <3>1. /\ op'.delivered = op.delivered \cup {op.request} /\ op'.request = op.request
          /\ saved'.delivered = op'.delivered /\ saved'.request = op'.request
          /\ op'.submitted /\ saved'.submitted = op'.submitted /\ ~saved'.uncertain
        BY <1>0, <2>2 DEF Confirm, OperationType
    <3>2. AnswerInv'
        BY <2>0, <3>1 DEF AnswerInv, t3Vars
    <3>3. Taken' = Taken /\ dispatched' = dispatched
        BY <2>0 DEF Taken, Shown, t3Vars
    <3>4. op.uncertain
        BY <1>3 DEF Await, SafeInv, MarkIsUp
    <3>5. Marked' = Marked
        BY <1>0, <1>a, <3>1, <3>4 DEF Marked
    <3>6. CASE Protocol = 2
      <4>1. /\ Command("answer") \in sent
            /\ Command("answer").request = op.request
            /\ Command("answer").intent = turn.intent
          BY <1>3 DEF Await, RecordInv, Command
      <4>2. op.request \in Taken
          BY <2>2, <3>6, <4>1 DEF Taken, Shown
      <4>3. Told' = Told \cup {op.request}
          BY <1>a, <3>1, <3>6 DEF Told
      <4>4. Answers!Report(op.request)
          BY <3>3, <3>5, <4>2, <4>3 DEF Answers!Report
      <4> QED
          BY <1>0, <3>2, <4>4 DEF Answers!Next
    <3>7. CASE Protocol # 2
      <4>1. Told' = Told
          BY <3>7 DEF Told
      <4> QED
          BY <3>2, <3>3, <3>5, <4>1 DEF Answers!vars
    <3> QED
        BY <3>6, <3>7
  <2> QED
      BY <1>3, <2>1, <2>2 DEF Await
<1>4. CASE SendTurn
  <2>1. CASE Return(op) /\ UNCHANGED inbox
      BY <1>0, <1>4, <2>1, ReturnAnswers DEF SendTurn, t3Vars
  <2>2. CASE UNCHANGED <<op, saved>>
    <3>1. UNCHANGED <<thread, dispatched, sent>> /\ pc = "send_turn"
        BY <1>4 DEF SendTurn
    <3>2. AnswerInv'
        BY <2>2, <3>1 DEF AnswerInv
    <3> QED
        BY <2>2, <3>1, <3>2 DEF Answers!vars, Marked, Taken, Shown, Told
  <2> QED
      BY <1>4, <2>1, <2>2 DEF SendTurn
<1>5. CASE TurnReceipt
  <2>0. UNCHANGED t3Vars /\ op.submitted
      BY <1>5 DEF TurnReceipt, AnswerInv
  <2>1. CASE Return(op)
      BY <1>0, <2>0, <2>1, ReturnAnswers
  <2>2. CASE Confirm(op)
    <3>1. /\ op'.delivered = op.delivered /\ op'.request = op.request
          /\ saved'.delivered = op'.delivered /\ saved'.request = op'.request
          /\ op'.submitted /\ saved'.submitted = op'.submitted /\ ~saved'.uncertain
        BY <1>0, <2>2 DEF Confirm, OperationType
    <3>2. AnswerInv'
        BY <1>a, <2>0, <3>1 DEF AnswerInv, t3Vars
    <3>3. UNCHANGED Answers!vars
        BY <1>a, <2>0, <3>1 DEF Answers!vars, Marked, Taken, Shown, Told, t3Vars
    <3> QED
        BY <3>2, <3>3
  <2> QED
      BY <1>5, <2>1, <2>2 DEF TurnReceipt
<1> QED
    BY <1>1, <1>2, <1>3, <1>4, <1>5

\* What T3 has of the answers sent is about a question whose answer was sent.
LEMMA T3Answers ==
    ASSUME TypeInv, RecordInv, AnswerInv, T3
    PROVE  AnswerInv' /\ [Answers!Next]_Answers!vars
<1>0. /\ sent \subseteq CommandType
      /\ thread.answer \in [Requests -> {"none", "other"} \cup Intents]
    BY DEF TypeInv, TypeOK, T3TypeOK, ThreadType
<1>1. /\ UNCHANGED <<op, saved, pc, dispatched, sent>>
      /\ \/ thread'.answer = thread.answer
         \/ \E q \in Pending, a \in {"other"} \cup Intents :
              thread'.answer = [thread.answer EXCEPT ![q] = a]
    BY T3Writes
<1>2. AnswerInv'
    BY <1>1 DEF AnswerInv
<1>3. UNCHANGED <<Marked, Told>>
    BY <1>1 DEF Marked, Told
<1>4. CASE Taken' = Taken
    BY <1>1, <1>2, <1>3, <1>4 DEF Answers!vars
<1>5. CASE Taken' # Taken
  <2>1. PICK q \in Pending, a \in {"other"} \cup Intents :
          thread'.answer = [thread.answer EXCEPT ![q] = a]
      BY <1>1, <1>5 DEF Taken, Shown
  <2>2. q \in Requests /\ thread.answer[q] = "none"
      BY <2>1 DEF Pending, RecordInv
  <2>3. \A c \in sent : c.request \in Requests /\ c.intent # "none"
      BY <1>0 DEF CommandType, Intents
  <2>4. \A c \in sent : c.request # q => (c \in Shown <=> c \in Shown')
      BY <1>0, <1>1, <2>1, <2>2, <2>3 DEF Shown
  <2>5. q \notin Taken
      BY <2>2, <2>3 DEF Taken, Shown
  <2>6. \A r : r # q => (r \in Taken <=> r \in Taken')
      BY <1>1, <2>4 DEF Taken, Shown
  <2>7. q \in Taken'
      BY <1>5, <2>5, <2>6
  <2>8. \E c \in sent : c.request = q
      BY <1>1, <2>7 DEF Taken, Shown
  <2>9. dispatched[q] = 1
      BY <2>8 DEF AnswerInv
  <2>10. Taken' = Taken \cup {q}
      BY <2>6, <2>7
  <2>11. Answers!Execute(q)
      BY <1>1, <1>3, <2>9, <2>10 DEF Answers!Execute
  <2> QED
      BY <1>2, <2>2, <2>11 DEF Answers!Next
<1> QED
    BY <1>4, <1>5

LEMMA AnswersStep ==
    ASSUME TypeInv, TypeInv', SafeInv, RecordInv, AnswerInv, [Next]_vars
    PROVE  AnswerInv' /\ [Answers!Next]_Answers!vars
<1>0. /\ op \in OperationType /\ MovesOn(op, op)
      /\ T3TypeOK /\ inputs \in Nat /\ Revision \in Nat
    BY RevisionType DEF TypeInv, TypeOK, DialogTypeOK, UserTypeOK, MovesOn
<1> DEFINE o == Refresh(op)
           stale == [op EXCEPT !.status = "stale"]
           seen == Observe(op, Revision, turn.channel)
<1>a. o \in OperationType /\ MovesOn(op, o)
    BY <1>0, RefreshFacts, RefreshMoves
<1>b. stale \in OperationType /\ MovesOn(op, stale)
    BY <1>0 DEF OperationType, Statuses, MovesOn
<1>d. pc # "idle" /\ op.submitted => seen \in OperationType /\ MovesOn(op, seen)
    BY <1>0, ObserveFacts, ObserveMoves DEF TypeInv, Engaged, Speakers
<1>1. CASE Scan
  <2>1. (Leave(o) \/ Leave(stale)) /\ UNCHANGED t3Vars
      BY <1>1 DEF Scan
  <2> HIDE DEF o, stale
  <2> QED
      BY <1>a, <1>b, <2>1, ReturnAnswers
<1>2. CASE VoiceTurn
    BY <1>2, AbortAnswers DEF VoiceTurn
<1>3. CASE TakeText
  <2> DEFINE p == IF Contactable(op) THEN o ELSE op
  <2>1. p \in OperationType /\ MovesOn(op, p)
      BY <1>0, <1>a
  <2>2. /\ Abort \/ Leave(p) \/ (op' = p /\ saved' = p /\ pc' = "respond")
        /\ UNCHANGED t3Vars
      BY <1>3 DEF TakeText
  <2> HIDE DEF p
  <2>3. CASE Abort
      BY <2>2, <2>3, AbortAnswers DEF Abort
  <2>4. CASE Leave(p)
      BY <2>1, <2>2, <2>4, ReturnAnswers
  <2>5. CASE op' = p /\ saved' = p /\ pc' = "respond"
      BY <2>1, <2>2, <2>5, QuietAnswers
  <2> QED
      BY <2>2, <2>3, <2>4, <2>5
<1>4. CASE VoiceRespond
  <2> DEFINE ready == [o EXCEPT !.deferred = FALSE]
  <2>1. /\ ready.uncertain = o.uncertain /\ ready.delivered = o.delivered
        /\ ready.request = o.request /\ ready.submitted = o.submitted
      BY <1>a DEF OperationType
  <2>2. /\ Abort \/ Leave(o) \/ Leave(stale)
           \/ (op' = ready /\ saved' = o /\ pc' = "start")
        /\ UNCHANGED t3Vars
      BY <1>4 DEF VoiceRespond
  <2> HIDE DEF o, stale, ready
  <2>3. CASE Abort
      BY <2>2, <2>3, AbortAnswers DEF Abort
  <2>4. CASE Leave(o) \/ Leave(stale)
      BY <1>a, <1>b, <2>2, <2>4, ReturnAnswers
  <2>5. CASE op' = ready /\ saved' = o /\ pc' = "start"
    <3>1. MovesOn(op, op')
        BY <1>a, <2>1, <2>5 DEF MovesOn
    <3> QED
        BY <2>1, <2>2, <2>5, <3>1, QuietAnswers
  <2> QED
      BY <2>2, <2>3, <2>4, <2>5
<1>5. CASE Respond
  <2> DEFINE fresh == [o EXCEPT !.status = "open", !.deferred = FALSE,
                                !.adopted = NoRevision, !.adopted_by = "text",
                                !.completed = @ /\ o.status # "completed"]
             later == [o EXCEPT !.deferred = TRUE, !.status = "deferred"]
  <2>1. later \in OperationType /\ MovesOn(op, later) /\ MovesOn(op, fresh)
      BY <1>a DEF OperationType, Statuses, MovesOn
  <2>2. /\ \/ Abort \/ Leave(o) \/ Leave(later)
           \/ op' = fresh /\ saved' = fresh /\ pc' = "start"
        /\ UNCHANGED t3Vars
      BY <1>5 DEF Respond, Goto
  <2> HIDE DEF o, fresh, later
  <2>3. CASE Abort
      BY <2>2, <2>3, AbortAnswers DEF Abort
  <2>4. CASE Leave(o) \/ Leave(later)
      BY <1>a, <2>1, <2>2, <2>4, ReturnAnswers
  <2>5. CASE op' = fresh /\ saved' = fresh /\ pc' = "start"
      BY <2>1, <2>2, <2>5, QuietAnswers
  <2> QED
      BY <2>2, <2>3, <2>4, <2>5
<1>6. CASE StartDialog
  <2>1. /\ pc # "idle" /\ UNCHANGED t3Vars
        /\ \/ Return(op) \/ (op.submitted /\ Return(seen))
           \/ pc' = "coordinate" /\ UNCHANGED <<op, saved>>
      BY <1>6 DEF StartDialog, Goto
  <2> HIDE DEF seen
  <2>2. CASE pc' = "coordinate" /\ UNCHANGED <<op, saved>>
      BY <2>1, <2>2, AbortAnswers
  <2> QED
      BY <1>0, <1>d, <2>1, <2>2, ReturnAnswers
<1>7. CASE Coordinate
  <2> DEFINE later == [op EXCEPT !.deferred = TRUE]
  <2>1. later \in OperationType /\ MovesOn(op, later)
      BY <1>0 DEF OperationType, MovesOn
  <2>2. /\ UNCHANGED t3Vars
        /\ \/ Return(op) \/ Return(later)
           \/ pc' = "decide" /\ UNCHANGED <<op, saved>>
           \/ pc' = "coordinate" /\ op' = op /\ saved' = op
      BY <1>7 DEF Coordinate, CreateCoordinator
  <2> HIDE DEF later
  <2>3. CASE Return(op) \/ Return(later)
      BY <1>0, <2>1, <2>2, <2>3, ReturnAnswers
  <2>4. CASE pc' = "decide" /\ UNCHANGED <<op, saved>>
      BY <2>2, <2>4, AbortAnswers
  <2>5. CASE pc' = "coordinate" /\ op' = op /\ saved' = op
      BY <1>0, <2>2, <2>5, QuietAnswers
  <2> QED
      BY <2>2, <2>3, <2>4, <2>5
<1>8. CASE Decide \/ SendAnswer \/ Await \/ SendTurn \/ TurnReceipt
    BY <1>8, MutationAnswers
<1>9. CASE Watch
  <2>1. pc # "idle" /\ op.submitted /\ UNCHANGED t3Vars /\ (Return(op) \/ Return(seen))
      BY <1>9 DEF Watch, AnswerInv
  <2> HIDE DEF seen
  <2> QED
      BY <1>0, <1>d, <2>1, ReturnAnswers
<1>10. CASE User
    BY <1>10, AbortAnswers DEF User, StartCall, Speak, EndCall, Text
<1>11. CASE T3
    BY <1>11, T3Answers
<1>12. CASE Crash
  <2>1. op' = saved /\ UNCHANGED <<saved, t3Vars>> /\ pc' = "idle"
      BY <1>12 DEF Crash
  <2>2. MovesOn(op, op')
      BY <2>1 DEF MovesOn, SafeInv, Persisted, AnswerInv
  <2> QED
      BY <2>1, <2>2, QuietAnswers
<1>13. CASE UNCHANGED vars
    BY <1>13, AbortAnswers DEF vars, userVars, t3Vars
<1> QED
    BY <1>1, <1>2, <1>3, <1>4, <1>5, <1>6, <1>7, <1>8, <1>9, <1>10, <1>11, <1>12, <1>13
       DEF Next, Dialog

\* An answer leaves the process only when its question is marked on disk (t3.py:515), no
\* answer leaves twice, and under protocol 2 what counts as delivered is an answer that was
\* sent and that T3's record of the question holds, whoever T3 has it from.
THEOREM AnswersSendOnce == Spec => AnswersOnce
<1>1. Init => TypeInv /\ SafeInv /\ RecordInv /\ AnswerInv /\ Answers!Init
    BY TypeInit, SafeInit, RecordInit, AnswersInit
<1>2. ASSUME TypeInv, SafeInv, RecordInv, AnswerInv, [Next]_vars
      PROVE  /\ TypeInv' /\ SafeInv' /\ RecordInv' /\ AnswerInv'
             /\ [Answers!Next]_Answers!vars
  <2>1. TypeInv' /\ SafeInv'
      BY <1>2, TypeStep, SafeStep
  <2>2. RecordInv'
      BY <1>2, RecordStays
  <2> QED
      BY <1>2, <2>1, <2>2, AnswersStep
<1>3. TypeInv /\ SafeInv /\ RecordInv /\ AnswerInv /\ [Next]_vars =>
         /\ TypeInv' /\ SafeInv' /\ RecordInv' /\ AnswerInv'
         /\ [Answers!Next]_Answers!vars
    BY <1>2
<1> QED
    BY <1>1, <1>3, PTL DEF Spec, AnswersOnce, Answers!Spec
=============================================================================
