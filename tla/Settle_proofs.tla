---------------------------- MODULE Settle_proofs ----------------------------
(* Theorems about Settle, for any number of calls, restarts and waiting jobs   *)
(* and any limit of the job queue: types, that no thread is settled during a    *)
(* call, and that the coordinators of a call that is over are not forgotten.    *)
EXTENDS Settle, SequenceTheorems, WellFoundedInduction, TLAPS

-----------------------------------------------------------------------------
(* The inductive invariant.                                                    *)

\* Jobs that may lead to a call.
Starts == {"scan", "reserved", "accept", "validate"}
Scanning == {"candidates", "recovered", "settling"}

FirstUndone(s, k) == k \in DOMAIN s /\ ~s[k].done /\ \A j \in 1..(k - 1) : s[j].done

SettleJob(c) == \E i \in DOMAIN jobs : /\ jobs[i].kind = "settle" /\ jobs[i].call = c
                                       /\ ~jobs[i].done
Quit == service.main = "quit"

\* The call is on, or somebody of this run still works for it.
Engaged(c) == service.session = c \/ (turn.step # "none" /\ turn.call = c) \/ SettleJob(c)

\* The call will be settled by this run, unless it ends before.
Owed(c) == service.session = c \/ Quit \/ SettleJob(c)

\* At most one job that may lead to a call, and none while one is on; what is done about
\* an attempt presupposes one.
JobsInv ==
    /\ \A i, j \in DOMAIN jobs : jobs[i].kind \in Starts /\ jobs[j].kind \in Starts => i = j
    /\ InCall => \A i \in DOMAIN jobs : jobs[i].kind \notin Starts
    /\ \A i \in DOMAIN jobs : jobs[i].kind = "settle" => jobs[i].call # 0
    /\ \A i \in DOMAIN jobs : jobs[i].kind \in {"finish", "reserved", "validate"} => op.attempt

\* The worker is in a job that is there, and holds the lock while it is.
WorkerInv ==
    /\ worker.step # "idle" => ~InTurn
    /\ worker.step \in Scanning => \E i \in DOMAIN jobs : jobs[i].kind = "scan" /\ ~jobs[i].done
    /\ worker.step = "operations" =>
          /\ \E i \in DOMAIN jobs : ~jobs[i].done
          /\ \A k \in DOMAIN jobs : FirstUndone(jobs, k) =>
                /\ jobs[k].kind = "settle"
                /\ jobs[k].call \in Indirect /\ voices[jobs[k].call].coordinator =>
                      calls[jobs[k].call].settle
    /\ worker.step = "candidates" =>
          ~service.recovered /\ \A c \in worker.left : c \in Indirect /\ calls[c].coordinator

TurnInv == /\ turn.step # "none" => turn.call # 0
           /\ InTurn => Owed(turn.call)

\* Nothing is known of calls to come.
PastInv ==
    /\ \A c \in Calls : c > count.calls => voices[c] = NoVoice
    /\ \A c \in Indirect : c > count.calls => /\ ~calls[c].coordinator /\ ~calls[c].settle
                                              /\ ~file[c].coordinator /\ ~file[c].settle
    /\ \A c \in Calls : Engaged(c) => c <= count.calls

\* Of the calls of this run the history knows what their voices did.
KnownInv ==
    /\ \A c \in Indirect : Engaged(c) =>
          /\ calls[c].state # "none"
          /\ calls[c].coordinator \/ calls[c].settle => voices[c].coordinator
    /\ \A c \in Indirect :
          /\ calls[c].state = "active" => service.session = c
          /\ calls[c].state = "none" => ~calls[c].coordinator
          /\ file[c].state = "none" => ~file[c].coordinator
          /\ file[c].settle => calls[c].settle

\* What a voice has used is in the queue, or will be.
VoiceInv == \A c \in Indirect : voices[c].coordinator /\ ~calls[c].settle => Owed(c)

\* What the history knows of is in the queue, or will be by this run or by the recovery.
HistoryInv ==
    \A c \in Indirect : calls[c].coordinator /\ ~calls[c].settle =>
        Owed(c) \/ (~service.recovered /\ (worker.step = "candidates" => c \in worker.left))

\* What counts as handed over is queued until it is settled.
QueueInv == \A c \in Indirect : calls[c].settle => queue[c] # "none" \/ t3[c] = "inactive"

\* The same of the operation.
OpInv ==
    /\ op.call # 0 => op.attempt
    /\ op.first => op.attempt /\ op.settle
    /\ op.call # 0 /\ ~op.settle /\ op.status = "open" =>
          \/ voices[op.call].op /\ Owed(op.call)
          \/ Quit
          \/ ~service.recovered /\ worker.step # "candidates"

IInv == /\ TypeOK /\ JobsInv /\ WorkerInv /\ TurnInv /\ PastInv /\ KnownInv
        /\ VoiceInv /\ HistoryInv /\ QueueInv /\ OpInv

-----------------------------------------------------------------------------
(* The jobs.                                                                   *)

JobsOK == jobs \in Seq(JobType) /\ Len(jobs) <= JobLimit

LEMMA Bounds == /\ MaxCalls \in Nat /\ MaxRestarts \in Nat /\ JobLimit \in Nat \ {0}
                /\ Indirect \subseteq Calls /\ Calls \subseteq Nat \ {0}
                /\ Threads = {0} \cup Indirect
BY BoundsAssumption DEF Calls, Threads, Op

LEMMA Fields ==
    ASSUME TypeOK
    PROVE  /\ JobsOK /\ DOMAIN jobs \subseteq Nat \ {0}
           /\ count.calls \in Nat
           /\ service.session # 0 => service.session \in Calls
           /\ turn.call # 0 => turn.call \in Calls
           /\ op.call # 0 => op.call \in Calls
           /\ \A i \in DOMAIN jobs : jobs[i].call # 0 => jobs[i].call \in Calls
<1>1. JobsOK
    BY DEF TypeOK, JobsOK
<1>0. DOMAIN jobs = 1..Len(jobs) /\ Len(jobs) \in Nat
    BY <1>1 DEF JobsOK
<1>2. count.calls \in Nat
  <2>1. count.calls \in 0..MaxCalls
      BY DEF TypeOK
  <2> QED
      BY <2>1, Bounds
<1>3. /\ service.session # 0 => service.session \in Calls
      /\ turn.call # 0 => turn.call \in Calls
      /\ op.call # 0 => op.call \in Calls
    BY DEF TypeOK, ServiceType, TurnType, OpType
<1>4. \A i \in DOMAIN jobs : jobs[i] \in JobType
    BY <1>0, <1>1, ElementOfSeq DEF JobsOK
<1>5. \A i \in DOMAIN jobs : jobs[i].call # 0 => jobs[i].call \in Calls
    BY <1>4 DEF JobType
<1> QED
    BY <1>0, <1>1, <1>2, <1>3, <1>5

\* The job the worker is at is the first that is not done.
LEMMA CurrentIsFirst ==
    ASSUME JobsOK, \E i \in DOMAIN jobs : ~jobs[i].done
    PROVE  /\ FirstUndone(jobs, Current)
           /\ \A k : FirstUndone(jobs, k) => k = Current
<1> DEFINE Less == OpToRel(<, Nat)
           Undone == {i \in DOMAIN jobs : ~jobs[i].done}
<1>1. Less = {ss \in Nat \X Nat : ss[1] < ss[2]}
    BY Zenon DEF OpToRel
<1>2. Undone \subseteq Nat /\ Undone # {} /\ DOMAIN jobs = 1..Len(jobs) /\ Len(jobs) \in Nat
    BY DEF JobsOK
<1>3. PICK r \in Undone : \A q \in Undone : <<q, r>> \notin Less
    BY <1>2, NatLessThanWellFounded, WFMin
<1> HIDE DEF Less
<1>4. ASSUME NEW q \in Undone PROVE r <= q
  <2>1. CASE q < r
    <3>1. <<q, r>> \in Nat \X Nat /\ <<q, r>>[1] < <<q, r>>[2]
        BY <1>2, <2>1
    <3> QED
        BY <3>1, <1>1, <1>3
  <2> QED
      BY <2>1, <1>2
<1>5. FirstUndone(jobs, r)
    BY <1>2, <1>4 DEF FirstUndone
<1>6. FirstUndone(jobs, Current)
    BY <1>5 DEF FirstUndone, Current
<1>7. ASSUME NEW k, NEW l, FirstUndone(jobs, k), FirstUndone(jobs, l) PROVE k = l
    BY <1>2, <1>7 DEF FirstUndone
<1> QED
    BY <1>6, <1>7

\* What a submission leaves and adds; beyond the limit it ends the service.
LEMMA SubmitFacts ==
    ASSUME JobsOK, NEW new \in Seq(JobType), NEW s, Submit(new, s)
    PROVE  /\ JobsOK'
           /\ \A i \in DOMAIN jobs : i \in DOMAIN jobs' /\ jobs'[i] = jobs[i]
           /\ \A i \in DOMAIN jobs' \ DOMAIN jobs :
                 i > Len(jobs) /\ i - Len(jobs) \in DOMAIN new /\ jobs'[i] = new[i - Len(jobs)]
           /\ \/ /\ service' = s
                 /\ \A k \in DOMAIN new : /\ Len(jobs) + k \in DOMAIN jobs'
                                          /\ jobs'[Len(jobs) + k] = new[k]
              \/ service' = [s EXCEPT !.main = "quit"]
<1> DEFINE all == jobs \o new
<1>1. /\ all \in Seq(JobType) /\ Len(all) = Len(jobs) + Len(new)
      /\ \A i \in 1..Len(all) : all[i] = IF i <= Len(jobs) THEN jobs[i] ELSE new[i - Len(jobs)]
      /\ DOMAIN jobs = 1..Len(jobs) /\ DOMAIN new = 1..Len(new) /\ DOMAIN all = 1..Len(all)
      /\ Len(jobs) \in Nat /\ Len(new) \in Nat
    BY ConcatProperties DEF JobsOK
<1>2. JobLimit \in Nat
    BY Bounds
<1> HIDE DEF all
<1>3. CASE Len(all) <= JobLimit
  <2>1. jobs' = all /\ service' = s
      BY <1>3 DEF Submit, all
  <2>2. JobsOK'
      BY <1>1, <1>3, <2>1 DEF JobsOK
  <2>3. /\ \A i \in DOMAIN jobs : i \in DOMAIN jobs' /\ jobs'[i] = jobs[i]
        /\ \A i \in DOMAIN jobs' \ DOMAIN jobs :
              i > Len(jobs) /\ i - Len(jobs) \in DOMAIN new /\ jobs'[i] = new[i - Len(jobs)]
      BY <1>1, <2>1
  <2>4. ASSUME NEW k \in DOMAIN new
        PROVE  Len(jobs) + k \in DOMAIN jobs' /\ jobs'[Len(jobs) + k] = new[k]
    <3>1. k \in Nat \ {0} /\ Len(jobs) + k \in 1..Len(all) /\ ~(Len(jobs) + k <= Len(jobs))
          /\ Len(jobs) + k - Len(jobs) = k
        BY <1>1
    <3> QED
        BY <1>1, <2>1, <3>1
  <2> QED
      BY <2>1, <2>2, <2>3, <2>4
<1>4. CASE Len(all) > JobLimit
  <2>1. jobs' = SubSeq(all, 1, JobLimit) /\ service' = [s EXCEPT !.main = "quit"]
      BY <1>1, <1>2, <1>4 DEF Submit, all
  <2>2. /\ jobs' \in Seq(JobType) /\ Len(jobs') = JobLimit
        /\ \A i \in 1..JobLimit : jobs'[i] = all[i]
        /\ DOMAIN jobs' = 1..JobLimit
      BY <1>1, <1>2, <1>4, <2>1, SubSeqProperties
  <2> QED
      BY <1>1, <1>2, <1>4, <2>1, <2>2 DEF JobsOK
<1> QED
    BY <1>1, <1>2, <1>3, <1>4

\* A job that is called back leaves the queue.
LEMMA RemovalFacts ==
    ASSUME JobsOK, NEW i \in DOMAIN jobs
    PROVE  LET rest == SubSeq(jobs, 1, i - 1) \o SubSeq(jobs, i + 1, Len(jobs))
           IN  /\ rest \in Seq(JobType) /\ Len(rest) = Len(jobs) - 1
               /\ \A j \in 1..(Len(jobs) - 1) : rest[j] = IF j < i THEN jobs[j] ELSE jobs[j + 1]
<1> DEFINE front == SubSeq(jobs, 1, i - 1)
           back == SubSeq(jobs, i + 1, Len(jobs))
<1>1. i \in 1..Len(jobs) /\ Len(jobs) \in Nat /\ jobs \in Seq(JobType)
    BY DEF JobsOK
<1>2. /\ front \in Seq(JobType) /\ Len(front) = i - 1
      /\ \A j \in 1..(i - 1) : front[j] = jobs[j]
    BY <1>1, SubSeqProperties
<1>3. /\ back \in Seq(JobType) /\ Len(back) = Len(jobs) - i
      /\ \A j \in 1..(Len(jobs) - i) : back[j] = jobs[i + j]
    BY <1>1, SubSeqProperties
<1> HIDE DEF front, back
<1> DEFINE both == front \o back
<1>4. /\ both \in Seq(JobType) /\ Len(both) = Len(front) + Len(back)
      /\ \A j \in 1..(Len(front) + Len(back)) :
            both[j] = IF j <= Len(front) THEN front[j] ELSE back[j - Len(front)]
    BY <1>2, <1>3, ConcatProperties
<1> HIDE DEF both
<1>5. Len(both) = Len(jobs) - 1 /\ i \in Nat \ {0} /\ i <= Len(jobs)
    BY <1>1, <1>2, <1>3, <1>4
<1>6. ASSUME NEW j \in 1..(Len(jobs) - 1) PROVE both[j] = IF j < i THEN jobs[j] ELSE jobs[j + 1]
  <2>0. j \in 1..(Len(front) + Len(back)) /\ j \in Nat
      BY <1>1, <1>4, <1>5
  <2>1. CASE j < i
    <3>1. j <= Len(front) /\ j \in 1..(i - 1)
        BY <1>2, <1>5, <2>0, <2>1
    <3> QED
        BY <1>2, <1>4, <2>0, <2>1, <3>1
  <2>2. CASE ~(j < i)
    <3>1. ~(j <= Len(front)) /\ j - Len(front) \in 1..(Len(jobs) - i) /\ i + (j - Len(front)) = j + 1
        BY <1>1, <1>2, <1>5, <2>0, <2>2
    <3>2. both[j] = back[j - Len(front)]
        BY <1>4, <2>0, <3>1
    <3>3. back[j - Len(front)] = jobs[j + 1]
        BY <1>3, <3>1
    <3> QED
        BY <2>2, <3>2, <3>3
  <2> QED
      BY <2>1, <2>2
<1> QED
    BY <1>4, <1>5, <1>6 DEF front, back, both

-----------------------------------------------------------------------------
(* The dialog turns and the writer of the history.                             *)

LEMMA StutterHolds == ASSUME IInv, UNCHANGED vars PROVE IInv'
<1> USE DEF IInv, vars, durable
<1>10. TypeOK'
  <2> QED
      BY DEF TypeOK
<1>11. JobsInv'
    BY DEF JobsInv, InCall, Starts
<1>12. WorkerInv'
    BY DEF WorkerInv, InTurn, Scanning, FirstUndone
<1>13. TurnInv'
    BY DEF TurnInv, InTurn, Owed, Quit, SettleJob
<1>14. PastInv'
    BY DEF PastInv, Engaged, SettleJob
<1>15. KnownInv'
    BY DEF KnownInv, Engaged, SettleJob
<1>16. VoiceInv'
    BY DEF VoiceInv, Owed, Quit, SettleJob
<1>17. HistoryInv'
    BY DEF HistoryInv, Owed, Quit, SettleJob
<1>18. QueueInv'
    BY DEF QueueInv
<1>19. OpInv'
    BY DEF OpInv, Owed, Quit, SettleJob
<1> QED
    BY <1>10, <1>11, <1>12, <1>13, <1>14, <1>15, <1>16, <1>17, <1>18, <1>19

LEMMA FlushHolds == ASSUME IInv, Flush PROVE IInv'
<1> USE DEF IInv, Flush
<1>10. TypeOK'
  <2>1. file' \in [Indirect -> CallType]
      BY DEF TypeOK, CallType
  <2> QED
      BY <2>1 DEF TypeOK
<1>11. JobsInv'
    BY DEF JobsInv, InCall, Starts
<1>12. WorkerInv'
    BY DEF WorkerInv, InTurn, Scanning, FirstUndone
<1>13. TurnInv'
    BY DEF TurnInv, InTurn, Owed, Quit, SettleJob
<1>14. PastInv'
    BY DEF PastInv, Engaged, SettleJob
<1>15. KnownInv'
    BY DEF KnownInv, Engaged, SettleJob
<1>16. VoiceInv'
    BY DEF VoiceInv, Owed, Quit, SettleJob
<1>17. HistoryInv'
    BY DEF HistoryInv, Owed, Quit, SettleJob
<1>18. QueueInv'
    BY DEF QueueInv
<1>19. OpInv'
    BY DEF OpInv, Owed, Quit, SettleJob
<1> QED
    BY <1>10, <1>11, <1>12, <1>13, <1>14, <1>15, <1>16, <1>17, <1>18, <1>19

LEMMA TurnBeginsHolds == ASSUME IInv, TurnBegins PROVE IInv'
<1> USE DEF IInv, TurnBegins, durable, InCall
<1>10. TypeOK'
  <2>1. turn' \in TurnType
      BY DEF TypeOK, TurnType, ServiceType
  <2> QED
      BY <2>1 DEF TypeOK
<1>11. JobsInv'
    BY DEF JobsInv, InCall, Starts
<1>12. WorkerInv'
    BY DEF WorkerInv, InTurn, Scanning, FirstUndone
<1>13. TurnInv'
    BY DEF TurnInv, InTurn, Owed, Quit, SettleJob
<1>14. PastInv'
    BY DEF PastInv, Engaged, SettleJob
<1>15. KnownInv'
    BY DEF KnownInv, Engaged, SettleJob
<1>16. VoiceInv'
    BY DEF VoiceInv, Owed, Quit, SettleJob
<1>17. HistoryInv'
    BY DEF HistoryInv, Owed, Quit, SettleJob
<1>18. QueueInv'
    BY DEF QueueInv
<1>19. OpInv'
    BY DEF OpInv, Owed, Quit, SettleJob
<1> QED
    BY <1>10, <1>11, <1>12, <1>13, <1>14, <1>15, <1>16, <1>17, <1>18, <1>19

LEMMA CreateHolds == ASSUME IInv, CreateStatusCoordinator PROVE IInv'
<1>1. /\ InTurn /\ turn.call \in Indirect /\ turn.call # 0 /\ turn.call \in Calls
      /\ ~voices[turn.call].coordinator
      /\ UNCHANGED <<service, turn, jobs, worker, calls, file, op, queue, count>>
    BY Bounds DEF CreateStatusCoordinator, durable
<1>2. /\ voices'[turn.call].coordinator
      /\ \A c \in Calls : voices'[c].op = voices[c].op /\ (c # turn.call => voices'[c] = voices[c])
    BY <1>1 DEF IInv, TypeOK, VoiceType, CreateStatusCoordinator
<1>3. \A c \in Indirect : c # turn.call => t3'[c] = t3[c]
    BY <1>1, Bounds DEF IInv, TypeOK, CreateStatusCoordinator
<1>10. TypeOK'
  <2>1. voices' \in [Calls -> VoiceType]
      BY Bounds, Fields, <1>1, <1>2, <1>3 DEF IInv, TypeOK, CreateStatusCoordinator, VoiceType
  <2>2. t3' \in [Threads -> {"none", "active", "inactive"}]
      BY Bounds, Fields, <1>1, <1>2, <1>3 DEF IInv, TypeOK, CreateStatusCoordinator, VoiceType
  <2> QED
      BY Bounds, Fields, <1>1, <1>2, <1>3, <2>1, <2>2 DEF IInv, TypeOK
<1>11. JobsInv'
    BY Bounds, Fields, <1>1, <1>2, <1>3 DEF IInv, JobsInv, InCall, Starts
<1>12. WorkerInv'
    BY Bounds, Fields, <1>1, <1>2, <1>3 DEF IInv, WorkerInv, InTurn, Scanning, FirstUndone
<1>13. TurnInv'
    BY Bounds, Fields, <1>1, <1>2, <1>3 DEF IInv, TurnInv, InTurn, Owed, Quit, SettleJob
<1>14. PastInv'
    BY Bounds, Fields, <1>1, <1>2, <1>3 DEF IInv, PastInv, Engaged, SettleJob, InTurn
<1>15. KnownInv'
    BY Bounds, Fields, <1>1, <1>2, <1>3 DEF IInv, KnownInv, Engaged, SettleJob, InTurn
<1>16. VoiceInv'
    BY Bounds, Fields, <1>1, <1>2, <1>3 DEF IInv, VoiceInv, Owed, Quit, SettleJob, TurnInv
<1>17. HistoryInv'
    BY Bounds, Fields, <1>1, <1>2, <1>3 DEF IInv, HistoryInv, Owed, Quit, SettleJob
<1>18. QueueInv'
    BY Bounds, Fields, <1>1, <1>2, <1>3 DEF IInv, QueueInv, KnownInv, Engaged, InTurn
<1>19. OpInv'
    BY Bounds, Fields, <1>1, <1>2, <1>3 DEF IInv, OpInv, Owed, Quit, SettleJob
<1> QED
    BY <1>10, <1>11, <1>12, <1>13, <1>14, <1>15, <1>16, <1>17, <1>18, <1>19 DEF IInv

LEMMA SelectHolds == ASSUME IInv, SelectOperation PROVE IInv'
<1>1. /\ InTurn /\ InCall /\ turn.call \in Calls
      /\ UNCHANGED <<service, turn, jobs, worker, calls, file, queue, t3, count>>
    BY Bounds DEF IInv, TypeOK, TurnType, TurnInv, SelectOperation, InTurn
<1>2. /\ voices'[turn.call].op
      /\ \A c \in Calls : voices'[c].coordinator = voices[c].coordinator
                          /\ (c # turn.call => voices'[c] = voices[c])
    BY <1>1 DEF IInv, TypeOK, VoiceType, SelectOperation
<1>3. op'.attempt /\ op'.call = turn.call /\ ~op'.settle /\ ~op'.first
    BY DEF IInv, TypeOK, OpType, SelectOperation
<1>10. TypeOK'
  <2>1. voices' \in [Calls -> VoiceType]
      BY Bounds, Fields, <1>1, <1>2, <1>3 DEF IInv, TypeOK, SelectOperation, OpType, VoiceType,
         TurnType
  <2>2. op' \in OpType
      BY Bounds, Fields, <1>1, <1>2, <1>3 DEF IInv, TypeOK, SelectOperation, OpType, VoiceType,
         TurnType
  <2> QED
      BY Bounds, Fields, <1>1, <1>2, <1>3, <2>1, <2>2 DEF IInv, TypeOK
<1>11. JobsInv'
    BY Bounds, Fields, <1>1, <1>2, <1>3 DEF IInv, JobsInv, InCall, Starts
<1>12. WorkerInv'
    BY Bounds, Fields, <1>1, <1>2, <1>3 DEF IInv, WorkerInv, InTurn, Scanning, FirstUndone
<1>13. TurnInv'
    BY Bounds, Fields, <1>1, <1>2, <1>3 DEF IInv, TurnInv, InTurn, Owed, Quit, SettleJob
<1>14. PastInv'
    BY Bounds, Fields, <1>1, <1>2, <1>3 DEF IInv, PastInv, Engaged, SettleJob, InTurn
<1>15. KnownInv'
    BY Bounds, Fields, <1>1, <1>2, <1>3 DEF IInv, KnownInv, Engaged, SettleJob
<1>16. VoiceInv'
    BY Bounds, Fields, <1>1, <1>2, <1>3 DEF IInv, VoiceInv, Owed, Quit, SettleJob
<1>17. HistoryInv'
    BY Bounds, Fields, <1>1, <1>2, <1>3 DEF IInv, HistoryInv, Owed, Quit, SettleJob
<1>18. QueueInv'
    BY Bounds, Fields, <1>1, <1>2, <1>3 DEF IInv, QueueInv
<1>19. OpInv'
    BY Bounds, Fields, <1>1, <1>2, <1>3 DEF IInv, OpInv, Owed, Quit, SettleJob, TurnInv
<1> QED
    BY <1>10, <1>11, <1>12, <1>13, <1>14, <1>15, <1>16, <1>17, <1>18, <1>19 DEF IInv

LEMMA OperationTurnHolds == ASSUME IInv, OperationTurn PROVE IInv'
<1>1. UNCHANGED <<service, voices, turn, jobs, worker, calls, file, queue, count>>
    BY DEF OperationTurn
<1>2. op.status = "open" /\ \E s \in {"open", "closed"} : op' = [op EXCEPT !.coordinator = TRUE, !.status = s]
    BY DEF OperationTurn, UseCoordinator
<1>3. /\ op'.attempt = op.attempt /\ op'.call = op.call /\ op'.settle = op.settle /\ op'.first = op.first
    BY <1>2 DEF IInv, TypeOK, OpType
<1>4. \A c \in Indirect : t3'[c] = t3[c]
    BY Bounds DEF IInv, TypeOK, OperationTurn, UseCoordinator, Op
<1>10. TypeOK'
  <2>1. op' \in OpType
      BY Bounds, Fields, <1>1, <1>2, <1>3, <1>4 DEF IInv, TypeOK, OperationTurn, OpType,
         UseCoordinator, Op
  <2>2. t3' \in [Threads -> {"none", "active", "inactive"}]
      BY Bounds, Fields, <1>1, <1>2, <1>3, <1>4 DEF IInv, TypeOK, OperationTurn, OpType,
         UseCoordinator, Op
  <2> QED
      BY Bounds, Fields, <1>1, <1>2, <1>3, <1>4, <2>1, <2>2 DEF IInv, TypeOK
<1>11. JobsInv'
    BY Bounds, Fields, <1>1, <1>2, <1>3, <1>4 DEF IInv, JobsInv, InCall, Starts
<1>12. WorkerInv'
    BY Bounds, Fields, <1>1, <1>2, <1>3, <1>4 DEF IInv, WorkerInv, InTurn, Scanning, FirstUndone
<1>13. TurnInv'
    BY Bounds, Fields, <1>1, <1>2, <1>3, <1>4 DEF IInv, TurnInv, InTurn, Owed, Quit, SettleJob
<1>14. PastInv'
    BY Bounds, Fields, <1>1, <1>2, <1>3, <1>4 DEF IInv, PastInv, Engaged, SettleJob
<1>15. KnownInv'
    BY Bounds, Fields, <1>1, <1>2, <1>3, <1>4 DEF IInv, KnownInv, Engaged, SettleJob
<1>16. VoiceInv'
    BY Bounds, Fields, <1>1, <1>2, <1>3, <1>4 DEF IInv, VoiceInv, Owed, Quit, SettleJob
<1>17. HistoryInv'
    BY Bounds, Fields, <1>1, <1>2, <1>3, <1>4 DEF IInv, HistoryInv, Owed, Quit, SettleJob
<1>18. QueueInv'
    BY Bounds, Fields, <1>1, <1>2, <1>3, <1>4 DEF IInv, QueueInv
<1>19. OpInv'
    BY Bounds, Fields, <1>1, <1>2, <1>3, <1>4 DEF IInv, OpInv, Owed, Quit, SettleJob
<1> QED
    BY <1>10, <1>11, <1>12, <1>13, <1>14, <1>15, <1>16, <1>17, <1>18, <1>19 DEF IInv

LEMMA UnlocksHolds == ASSUME IInv, TurnUnlocks PROVE IInv'
<1> USE DEF IInv, TurnUnlocks, durable, InTurn
<1>10. TypeOK'
  <2>1. turn' \in TurnType
      BY DEF TypeOK, TurnType
  <2> QED
      BY <2>1 DEF TypeOK
<1>11. JobsInv'
    BY DEF JobsInv, InCall, Starts
<1>12. WorkerInv'
    BY DEF WorkerInv, InTurn, Scanning, FirstUndone
<1>13. TurnInv'
    BY DEF TurnInv, InTurn, Owed, Quit, SettleJob
<1>14. PastInv'
    BY DEF PastInv, Engaged, SettleJob
<1>15. KnownInv'
    BY DEF KnownInv, Engaged, SettleJob
<1>16. VoiceInv'
    BY DEF VoiceInv, Owed, Quit, SettleJob
<1>17. HistoryInv'
    BY DEF HistoryInv, Owed, Quit, SettleJob
<1>18. QueueInv'
    BY DEF QueueInv
<1>19. OpInv'
    BY DEF OpInv, Owed, Quit, SettleJob
<1> QED
    BY <1>10, <1>11, <1>12, <1>13, <1>14, <1>15, <1>16, <1>17, <1>18, <1>19

LEMMA RemembersHolds == ASSUME IInv, TurnRemembers PROVE IInv'
<1>1. /\ turn.step = "remembers" /\ turn' = NoTurn /\ turn.call \in Calls
      /\ UNCHANGED <<service, voices, jobs, worker, file, op, queue, t3, count>>
    BY Bounds DEF IInv, TypeOK, TurnType, TurnInv, TurnRemembers, durable
<1>2. /\ calls' \in [Indirect -> CallType]
      /\ \A c \in Indirect : /\ calls'[c].state = calls[c].state
                             /\ calls'[c].settle <=> calls[c].settle
                             /\ c # turn.call => calls'[c] = calls[c]
                             /\ c = turn.call => (calls'[c].coordinator <=> voices[c].coordinator)
  <2>1. calls' = [calls EXCEPT ![turn.call].coordinator = voices[turn.call].coordinator]
      BY DEF TurnRemembers
  <2>2. ASSUME NEW c \in Indirect, c # turn.call PROVE calls'[c] = calls[c]
      BY <2>1, <2>2 DEF IInv, TypeOK
  <2>3. ASSUME NEW c \in Indirect, c = turn.call
        PROVE  /\ calls'[c].state = calls[c].state
               /\ calls'[c].settle <=> calls[c].settle
               /\ calls'[c].coordinator <=> voices[c].coordinator
               /\ calls'[c] \in CallType
    <3>1. calls[c] \in CallType /\ voices[c].coordinator \in BOOLEAN
        BY <2>3, <1>1 DEF IInv, TypeOK, VoiceType
    <3>2. calls'[c] = [calls[c] EXCEPT !.coordinator = voices[c].coordinator]
        BY <2>1, <2>3 DEF IInv, TypeOK
    <3> QED
        BY <3>1, <3>2 DEF CallType
  <2>4. calls' \in [Indirect -> CallType]
      BY <2>1, <2>2, <2>3 DEF IInv, TypeOK
  <2> QED
      BY <2>2, <2>3, <2>4
<1>3. turn'.step = "none" /\ turn'.call = 0 /\ Engaged(turn.call)
    BY <1>1 DEF NoTurn, Engaged
<1>4. turn.call <= count.calls
    BY <1>1, <1>3 DEF IInv, PastInv
<1>5. \A c \in Indirect : calls[c].coordinator => calls'[c].coordinator
    BY <1>1, <1>2, <1>3 DEF IInv, KnownInv
<1>10. TypeOK'
  <2>1. turn' \in TurnType
      BY Bounds, Fields, <1>1, <1>2, <1>3 DEF IInv, TypeOK, TurnRemembers, NoTurn, TurnType,
         CallType, VoiceType
  <2>2. calls' \in [Indirect -> CallType]
      BY Bounds, Fields, <1>1, <1>2, <1>3 DEF IInv, TypeOK, TurnRemembers, NoTurn, TurnType,
         CallType, VoiceType
  <2> QED
      BY Bounds, Fields, <1>1, <1>2, <1>3, <2>1, <2>2 DEF IInv, TypeOK
<1>11. JobsInv'
    BY Bounds, Fields, <1>1, <1>2, <1>3 DEF IInv, JobsInv, InCall, Starts
<1>12. WorkerInv'
    BY Bounds, Fields, <1>1, <1>2, <1>3, <1>5 DEF IInv, WorkerInv, InTurn, Scanning, FirstUndone
<1>13. TurnInv'
    BY Bounds, Fields, <1>1, <1>2, <1>3 DEF IInv, TurnInv, InTurn, Owed, Quit, SettleJob
<1>14. PastInv'
    BY Bounds, Fields, <1>1, <1>2, <1>3, <1>4 DEF IInv, PastInv, Engaged, SettleJob
<1>15. KnownInv'
    BY Bounds, Fields, <1>1, <1>2, <1>3 DEF IInv, KnownInv, Engaged, SettleJob
<1>16. VoiceInv'
    BY Bounds, Fields, <1>1, <1>2, <1>3 DEF IInv, VoiceInv, Owed, Quit, SettleJob
<1>17. HistoryInv'
    BY Bounds, Fields, <1>1, <1>2, <1>3 DEF IInv, HistoryInv, Owed, Quit, SettleJob, VoiceInv
<1>18. QueueInv'
    BY Bounds, Fields, <1>1, <1>2, <1>3 DEF IInv, QueueInv
<1>19. OpInv'
    BY Bounds, Fields, <1>1, <1>2, <1>3 DEF IInv, OpInv, Owed, Quit, SettleJob
<1> QED
    BY <1>10, <1>11, <1>12, <1>13, <1>14, <1>15, <1>16, <1>17, <1>18, <1>19 DEF IInv

-----------------------------------------------------------------------------
(* The worker.                                                                 *)

\* The worker's job is the first that is not done.
LEMMA WorkingFacts ==
    ASSUME TypeOK, NEW kind, NEW step, Working(kind, step)
    PROVE  /\ Current \in DOMAIN jobs /\ ~jobs[Current].done /\ jobs[Current].kind = kind
           /\ jobs[Current].call \in {0} \cup Calls
           /\ FirstUndone(jobs, Current) /\ \A k : FirstUndone(jobs, k) => k = Current
           /\ worker.step = step /\ ~InTurn /\ turn.step # "locked"
<1>1. \E i \in DOMAIN jobs : ~jobs[i].done
    BY DEF Working
<1>2. FirstUndone(jobs, Current) /\ \A k : FirstUndone(jobs, k) => k = Current
    BY <1>1, Fields, CurrentIsFirst
<1>3. jobs[Current].kind = kind /\ worker.step = step /\ ~InTurn
    BY DEF Working, Job1
<1>4. Current \in DOMAIN jobs /\ ~jobs[Current].done
    BY <1>2 DEF FirstUndone
<1>5. jobs[Current].call \in {0} \cup Calls
    BY <1>4, Fields
<1> QED
    BY <1>2, <1>3, <1>4, <1>5 DEF InTurn

\* A job that is done changes in that alone.
LEMMA DoneFacts ==
    ASSUME TypeOK, NEW kind, NEW step, Working(kind, step), Done
    PROVE  /\ JobsOK' /\ DOMAIN jobs' = DOMAIN jobs
           /\ \A i \in DOMAIN jobs : /\ jobs'[i].kind = jobs[i].kind
                                     /\ jobs'[i].call = jobs[i].call
                                     /\ i # Current => jobs'[i] = jobs[i]
           /\ \A c : SettleJob(c)' => SettleJob(c)
           /\ \A c : SettleJob(c) => SettleJob(c)' \/ (kind = "settle" /\ c = jobs[Current].call)
           /\ worker' = Idle /\ worker'.step = "idle" /\ worker' \in WorkerType
<1>1. Current \in DOMAIN jobs /\ ~jobs[Current].done /\ jobs[Current].kind = kind
    BY WorkingFacts
<1>2. jobs \in Seq(JobType) /\ Len(jobs) <= JobLimit /\ DOMAIN jobs = 1..Len(jobs) /\ Len(jobs) \in Nat
    BY Fields DEF JobsOK
<1>3. jobs[Current] \in JobType
    BY <1>1, <1>2, ElementOfSeq
<1> DEFINE new == [jobs[Current] EXCEPT !.done = TRUE]
<1>4. new \in JobType /\ new.kind = kind /\ new.call = jobs[Current].call /\ new.done
    BY <1>1, <1>3 DEF JobType
<1>5. jobs' = [jobs EXCEPT ![Current] = new]
    BY DEF Done
<1> HIDE DEF new
<1>6. jobs' \in Seq(JobType) /\ Len(jobs') = Len(jobs) /\ DOMAIN jobs' = DOMAIN jobs
    BY <1>1, <1>2, <1>4, <1>5, ExceptSeq
<1>7. jobs'[Current] = new /\ \A i \in DOMAIN jobs : i # Current => jobs'[i] = jobs[i]
    BY <1>1, <1>5
<1>8. /\ \A c : SettleJob(c)' => SettleJob(c)
      /\ \A c : SettleJob(c) => SettleJob(c)' \/ (kind = "settle" /\ c = jobs[Current].call)
    BY <1>1, <1>4, <1>6, <1>7 DEF SettleJob
<1>9. worker' = Idle /\ worker'.step = "idle" /\ worker' \in WorkerType
    BY DEF Done, Idle, WorkerType
<1> QED
    BY <1>1, <1>2, <1>4, <1>6, <1>7, <1>8, <1>9 DEF JobsOK

LEMMA FailsHolds == ASSUME IInv, ScanFails PROVE IInv'
<1>0. TypeOK
    BY DEF IInv
<1>1. Working("scan", "idle") /\ Done /\ UNCHANGED <<service, voices, turn, count, calls, file, op, queue, t3>>
    BY DEF ScanFails, others, durable
<1>10. TypeOK'
  <2>1. JobsOK'
      BY Bounds, Fields, <1>0, <1>1, WorkingFacts, DoneFacts DEF IInv, TypeOK, ScanFails, JobsOK
  <2>2. worker' \in WorkerType
      BY Bounds, Fields, <1>0, <1>1, WorkingFacts, DoneFacts DEF IInv, TypeOK, ScanFails, WorkerType
  <2> QED
      BY Bounds, Fields, <1>0, <1>1, WorkingFacts, DoneFacts, <2>1, <2>2 DEF IInv, TypeOK, JobsOK
<1>11. JobsInv'
    BY Bounds, Fields, <1>0, <1>1, WorkingFacts, DoneFacts DEF IInv, JobsInv, InCall, Starts
<1>12. WorkerInv'
    BY Bounds, Fields, <1>0, <1>1, WorkingFacts, DoneFacts DEF IInv, WorkerInv, InTurn, Scanning,
       FirstUndone
<1>13. TurnInv'
    BY Bounds, Fields, <1>0, <1>1, WorkingFacts, DoneFacts DEF IInv, TurnInv, InTurn, Owed, Quit,
       SettleJob
<1>14. PastInv'
    BY Bounds, Fields, <1>0, <1>1, WorkingFacts, DoneFacts DEF IInv, PastInv, Engaged, SettleJob
<1>15. KnownInv'
    BY Bounds, Fields, <1>0, <1>1, WorkingFacts, DoneFacts DEF IInv, KnownInv, Engaged, SettleJob
<1>16. VoiceInv'
    BY Bounds, Fields, <1>0, <1>1, WorkingFacts, DoneFacts DEF IInv, VoiceInv, Owed, Quit, SettleJob
<1>17. HistoryInv'
    BY Bounds, Fields, <1>0, <1>1, WorkingFacts, DoneFacts DEF IInv, HistoryInv, Owed, Quit,
       SettleJob
<1>18. QueueInv'
    BY Bounds, Fields, <1>0, <1>1, WorkingFacts, DoneFacts DEF IInv, QueueInv
<1>19. OpInv'
    BY Bounds, Fields, <1>0, <1>1, WorkingFacts, DoneFacts DEF IInv, OpInv, Owed, Quit, SettleJob
<1> QED
    BY <1>10, <1>11, <1>12, <1>13, <1>14, <1>15, <1>16, <1>17, <1>18, <1>19 DEF IInv

LEMMA PlainHolds == ASSUME IInv, RunPlain PROVE IInv'
<1>0. TypeOK
    BY DEF IInv
<1>1. PICK kind \in {"accept", "validate"} : Working(kind, "idle")
    BY DEF RunPlain
<1>2. Done /\ UNCHANGED <<service, voices, turn, count, calls, file, op, queue, t3>>
    BY DEF RunPlain, others, durable
<1>10. TypeOK'
  <2>1. JobsOK'
      BY Bounds, Fields, <1>0, <1>1, <1>2, WorkingFacts, DoneFacts DEF IInv, TypeOK, RunPlain,
         JobsOK
  <2>2. worker' \in WorkerType
      BY Bounds, Fields, <1>0, <1>1, <1>2, WorkingFacts, DoneFacts DEF IInv, TypeOK, RunPlain,
         WorkerType
  <2> QED
      BY Bounds, Fields, <1>0, <1>1, <1>2, WorkingFacts, DoneFacts, <2>1, <2>2 DEF IInv, TypeOK,
         JobsOK
<1>11. JobsInv'
    BY Bounds, Fields, <1>0, <1>1, <1>2, WorkingFacts, DoneFacts DEF IInv, JobsInv, InCall, Starts
<1>12. WorkerInv'
    BY Bounds, Fields, <1>0, <1>1, <1>2, WorkingFacts, DoneFacts DEF IInv, WorkerInv, InTurn,
       Scanning, FirstUndone
<1>13. TurnInv'
    BY Bounds, Fields, <1>0, <1>1, <1>2, WorkingFacts, DoneFacts DEF IInv, TurnInv, InTurn, Owed,
       Quit, SettleJob
<1>14. PastInv'
    BY Bounds, Fields, <1>0, <1>1, <1>2, WorkingFacts, DoneFacts DEF IInv, PastInv, Engaged,
       SettleJob
<1>15. KnownInv'
    BY Bounds, Fields, <1>0, <1>1, <1>2, WorkingFacts, DoneFacts DEF IInv, KnownInv, Engaged,
       SettleJob
<1>16. VoiceInv'
    BY Bounds, Fields, <1>0, <1>1, <1>2, WorkingFacts, DoneFacts DEF IInv, VoiceInv, Owed, Quit,
       SettleJob
<1>17. HistoryInv'
    BY Bounds, Fields, <1>0, <1>1, <1>2, WorkingFacts, DoneFacts DEF IInv, HistoryInv, Owed,
       Quit, SettleJob
<1>18. QueueInv'
    BY Bounds, Fields, <1>0, <1>1, <1>2, WorkingFacts, DoneFacts DEF IInv, QueueInv
<1>19. OpInv'
    BY Bounds, Fields, <1>0, <1>1, <1>2, WorkingFacts, DoneFacts DEF IInv, OpInv, Owed, Quit,
       SettleJob
<1> QED
    BY <1>10, <1>11, <1>12, <1>13, <1>14, <1>15, <1>16, <1>17, <1>18, <1>19 DEF IInv

LEMMA OtherHolds == ASSUME IInv, RunOther PROVE IInv'
<1>0. TypeOK
    BY DEF IInv
<1>1. Working("other", "idle") /\ Done /\ UNCHANGED <<service, voices, turn, count, calls, file, queue>>
    BY DEF RunOther, others
<1>2. /\ op'.attempt = op.attempt /\ op'.call = op.call /\ op'.settle = op.settle /\ op'.first = op.first
      /\ op'.status = "open" => op.status = "open"
      /\ op' \in OpType
  <2>1. CASE UNCHANGED op
      BY <2>1 DEF IInv, TypeOK
  <2>2. CASE UseCoordinator
    <3>1. op.status = "open" /\ \E s \in {"open", "closed"} : op' = [op EXCEPT !.coordinator = TRUE, !.status = s]
        BY <2>2 DEF UseCoordinator
    <3> QED
        BY <3>1 DEF IInv, TypeOK, OpType
  <2> QED
      BY <2>1, <2>2 DEF RunOther
<1>3. /\ \A c \in Indirect : t3'[c] = t3[c]
      /\ t3' \in [Threads -> {"none", "active", "inactive"}]
    BY Bounds DEF IInv, TypeOK, RunOther, UseCoordinator, Op
<1>10. TypeOK'
  <2>1. JobsOK'
      BY Bounds, Fields, <1>0, <1>1, <1>2, <1>3, WorkingFacts, DoneFacts DEF IInv, TypeOK,
         RunOther, JobsOK
  <2>2. worker' \in WorkerType
      BY Bounds, Fields, <1>0, <1>1, <1>2, <1>3, WorkingFacts, DoneFacts DEF IInv, TypeOK,
         RunOther, WorkerType
  <2>3. op' \in OpType
      BY Bounds, Fields, <1>0, <1>1, <1>2, <1>3, WorkingFacts, DoneFacts DEF IInv, TypeOK,
         RunOther, OpType
  <2>4. t3' \in [Threads -> {"none", "active", "inactive"}]
      BY Bounds, Fields, <1>0, <1>1, <1>2, <1>3, WorkingFacts, DoneFacts DEF IInv, TypeOK, RunOther
  <2> QED
      BY Bounds, Fields, <1>0, <1>1, <1>2, <1>3, WorkingFacts, DoneFacts, <2>1, <2>2, <2>3,
         <2>4 DEF IInv, TypeOK, JobsOK
<1>11. JobsInv'
    BY Bounds, Fields, <1>0, <1>1, <1>2, <1>3, WorkingFacts, DoneFacts DEF IInv, JobsInv, InCall,
       Starts
<1>12. WorkerInv'
    BY Bounds, Fields, <1>0, <1>1, <1>2, <1>3, WorkingFacts, DoneFacts DEF IInv, WorkerInv,
       InTurn, Scanning, FirstUndone
<1>13. TurnInv'
    BY Bounds, Fields, <1>0, <1>1, <1>2, <1>3, WorkingFacts, DoneFacts DEF IInv, TurnInv, InTurn,
       Owed, Quit, SettleJob
<1>14. PastInv'
    BY Bounds, Fields, <1>0, <1>1, <1>2, <1>3, WorkingFacts, DoneFacts DEF IInv, PastInv,
       Engaged, SettleJob
<1>15. KnownInv'
    BY Bounds, Fields, <1>0, <1>1, <1>2, <1>3, WorkingFacts, DoneFacts DEF IInv, KnownInv,
       Engaged, SettleJob
<1>16. VoiceInv'
    BY Bounds, Fields, <1>0, <1>1, <1>2, <1>3, WorkingFacts, DoneFacts DEF IInv, VoiceInv, Owed,
       Quit, SettleJob
<1>17. HistoryInv'
    BY Bounds, Fields, <1>0, <1>1, <1>2, <1>3, WorkingFacts, DoneFacts DEF IInv, HistoryInv,
       Owed, Quit, SettleJob
<1>18. QueueInv'
    BY Bounds, Fields, <1>0, <1>1, <1>2, <1>3, WorkingFacts, DoneFacts DEF IInv, QueueInv
<1>19. OpInv'
    BY Bounds, Fields, <1>0, <1>1, <1>2, <1>3, WorkingFacts, DoneFacts DEF IInv, OpInv, Owed,
       Quit, SettleJob
<1> QED
    BY <1>10, <1>11, <1>12, <1>13, <1>14, <1>15, <1>16, <1>17, <1>18, <1>19 DEF IInv

\* What concluding an attempt does to the queue and the operation.
LEMMA MarkFacts ==
    ASSUME TypeOK
    PROVE  /\ QueueOp(queue, op) \in [Threads -> {"none", "queued", "given up"}]
           /\ \A c \in Indirect : QueueOp(queue, op)[c] = queue[c]
           /\ MarkOp(op) \in OpType
           /\ MarkOp(op).attempt = op.attempt /\ MarkOp(op).call = op.call
           /\ MarkOp(op).first = op.first /\ MarkOp(op).status = op.status
           /\ op.settle => MarkOp(op).settle
           /\ op.attempt => MarkOp(op).settle
<1>1. /\ QueueOp(queue, op) \in [Threads -> {"none", "queued", "given up"}]
      /\ \A c \in Indirect : QueueOp(queue, op)[c] = queue[c]
    BY Bounds DEF TypeOK, QueueOp, RequestSettle, Op
<1>2. op \in OpType
    BY DEF TypeOK
<1>3. CASE Unmarked(op)
  <2>1. MarkOp(op) = [op EXCEPT !.settle = TRUE]
      BY <1>3 DEF MarkOp
  <2> QED
      BY <1>1, <1>2, <2>1 DEF OpType
<1>4. CASE ~Unmarked(op)
  <2>1. MarkOp(op) = op /\ (op.attempt => op.settle)
      BY <1>4 DEF MarkOp, Unmarked
  <2> QED
      BY <1>1, <1>2, <2>1
<1> QED
    BY <1>3, <1>4

LEMMA FinishFacts ==
    ASSUME TypeOK, op.attempt, Finish
    PROVE  /\ queue' \in [Threads -> {"none", "queued", "given up"}]
           /\ \A c \in Indirect : queue'[c] = queue[c]
           /\ op' \in OpType /\ op'.attempt /\ op'.call = op.call /\ op'.settle
<1>1. PICK sent \in BOOLEAN : op' = [MarkOp(op) EXCEPT !.first = @ \/ (sent /\ op.status = "open")]
    BY DEF Finish
<1>2. MarkOp(op) \in OpType /\ MarkOp(op).attempt /\ MarkOp(op).call = op.call /\ MarkOp(op).settle
    BY MarkFacts
<1>3. op' \in OpType /\ op'.attempt /\ op'.call = op.call /\ op'.settle
    BY <1>1, <1>2 DEF OpType
<1> QED
    BY <1>3, MarkFacts DEF Finish

LEMMA FinishHolds == ASSUME IInv, RunFinish PROVE IInv'
<1>0. TypeOK
    BY DEF IInv
<1>1. Working("finish", "idle") /\ Done /\ Finish /\ UNCHANGED <<service, voices, turn, count, calls, file, t3>>
    BY DEF RunFinish, others
<1>2. op.attempt
    BY <1>0, <1>1, WorkingFacts DEF IInv, JobsInv
<1>3. /\ queue' \in [Threads -> {"none", "queued", "given up"}]
      /\ \A c \in Indirect : queue'[c] = queue[c]
      /\ op' \in OpType /\ op'.attempt /\ op'.call = op.call /\ op'.settle
    BY <1>0, <1>1, <1>2, FinishFacts
<1>4. /\ JobsOK' /\ DOMAIN jobs' = DOMAIN jobs /\ Current \in DOMAIN jobs
      /\ jobs[Current].kind = "finish" /\ ~jobs[Current].done
      /\ \A i \in DOMAIN jobs : jobs'[i].kind = jobs[i].kind /\ jobs'[i].call = jobs[i].call
      /\ \A c : SettleJob(c)' => SettleJob(c)
      /\ \A c : SettleJob(c) => SettleJob(c)'
      /\ worker.step = "idle" /\ worker' = Idle /\ worker'.step = "idle" /\ worker' \in WorkerType
      /\ turn.step # "locked"
    BY <1>0, <1>1, WorkingFacts, DoneFacts
<1>10. TypeOK'
  <2>1. JobsOK'
      BY Bounds, Fields, <1>0, <1>1, <1>2, <1>3, <1>4 DEF IInv, TypeOK, RunFinish, JobsOK
  <2>2. worker' \in WorkerType
      BY Bounds, Fields, <1>0, <1>1, <1>2, <1>3, <1>4 DEF IInv, TypeOK, RunFinish, WorkerType
  <2>3. op' \in OpType
      BY Bounds, Fields, <1>0, <1>1, <1>2, <1>3, <1>4 DEF IInv, TypeOK, RunFinish, OpType
  <2>4. queue' \in [Threads -> {"none", "queued", "given up"}]
      BY Bounds, Fields, <1>0, <1>1, <1>2, <1>3, <1>4 DEF IInv, TypeOK, RunFinish
  <2> QED
      BY Bounds, Fields, <1>0, <1>1, <1>2, <1>3, <1>4, <2>1, <2>2, <2>3, <2>4 DEF IInv, TypeOK,
         JobsOK
<1>11. JobsInv'
    BY Bounds, Fields, <1>0, <1>1, <1>2, <1>3, <1>4 DEF IInv, JobsInv, InCall, Starts
<1>12. WorkerInv'
    BY Bounds, Fields, <1>0, <1>1, <1>2, <1>3, <1>4 DEF IInv, WorkerInv, InTurn, Scanning,
       FirstUndone
<1>13. TurnInv'
    BY Bounds, Fields, <1>0, <1>1, <1>2, <1>3, <1>4 DEF IInv, TurnInv, InTurn, Owed, Quit
<1>14. PastInv'
    BY Bounds, Fields, <1>0, <1>1, <1>2, <1>3, <1>4 DEF IInv, PastInv, Engaged
<1>15. KnownInv'
    BY Bounds, Fields, <1>0, <1>1, <1>2, <1>3, <1>4 DEF IInv, KnownInv, Engaged
<1>16. VoiceInv'
    BY Bounds, Fields, <1>0, <1>1, <1>2, <1>3, <1>4 DEF IInv, VoiceInv, Owed, Quit
<1>17. HistoryInv'
    BY Bounds, Fields, <1>0, <1>1, <1>2, <1>3, <1>4 DEF IInv, HistoryInv, Owed, Quit
<1>18. QueueInv'
    BY Bounds, Fields, <1>0, <1>1, <1>2, <1>3, <1>4 DEF IInv, QueueInv
<1>19. OpInv'
    BY Bounds, Fields, <1>0, <1>1, <1>2, <1>3, <1>4 DEF IInv, OpInv, Owed, Quit
<1> QED
    BY <1>10, <1>11, <1>12, <1>13, <1>14, <1>15, <1>16, <1>17, <1>18, <1>19 DEF IInv

LEMMA OperationsHolds == ASSUME IInv, RunSettleOperations PROVE IInv'
<1>0. TypeOK
    BY DEF IInv
<1> DEFINE d == jobs[Current].call
<1>1. Working("settle", "operations") /\ Done /\ UNCHANGED <<service, voices, turn, count, calls, file, t3>>
    BY DEF RunSettleOperations, others
<1>2. /\ queue' = (IF voices[d].op THEN QueueOp(queue, op) ELSE queue)
      /\ op' = (IF voices[d].op THEN MarkOp(op) ELSE op)
    BY DEF RunSettleOperations, Job1
<1>3. SettleJob(d) /\ d \in Calls
  <2>1. d # 0
      BY <1>0, <1>1, WorkingFacts DEF IInv, JobsInv
  <2> QED
      BY <2>1, <1>0, <1>1, WorkingFacts DEF SettleJob
<1>4. d \in Indirect /\ (voices[d].coordinator \/ calls[d].coordinator) => calls[d].settle
  <2>1. FirstUndone(jobs, Current)
      BY <1>0, <1>1, WorkingFacts
  <2>2. d \in Indirect /\ voices[d].coordinator => calls[d].settle
      BY <1>0, <1>1, <2>1, WorkingFacts DEF IInv, WorkerInv
  <2>3. d \in Indirect /\ calls[d].coordinator => voices[d].coordinator
      BY <1>3 DEF IInv, KnownInv, Engaged
  <2> QED
      BY <2>2, <2>3
<1>5. /\ op' \in OpType /\ queue' \in [Threads -> {"none", "queued", "given up"}]
      /\ \A c \in Indirect : queue'[c] = queue[c]
      /\ op'.attempt = op.attempt /\ op'.call = op.call /\ op'.first = op.first /\ op'.status = op.status
      /\ op.settle => op'.settle
      /\ voices[d].op /\ op.attempt => op'.settle
    BY <1>0, <1>2, MarkFacts DEF TypeOK
<1> HIDE DEF d
<1>6. /\ JobsOK' /\ DOMAIN jobs' = DOMAIN jobs /\ Current \in DOMAIN jobs
      /\ jobs[Current].kind = "settle" /\ ~jobs[Current].done
      /\ \A i \in DOMAIN jobs : jobs'[i].kind = jobs[i].kind /\ jobs'[i].call = jobs[i].call
      /\ \A c : SettleJob(c)' => SettleJob(c)
      /\ \A c : SettleJob(c) => SettleJob(c)' \/ c = d
      /\ worker.step = "operations" /\ worker' = Idle /\ worker'.step = "idle" /\ worker' \in WorkerType
      /\ turn.step # "locked"
    BY <1>0, <1>1, WorkingFacts, DoneFacts DEF d
<1>10. TypeOK'
  <2>1. JobsOK'
      BY Bounds, Fields, <1>0, <1>1, <1>3, <1>4, <1>5, <1>6 DEF IInv, TypeOK,
         RunSettleOperations, JobsOK
  <2>2. worker' \in WorkerType
      BY Bounds, Fields, <1>0, <1>1, <1>3, <1>4, <1>5, <1>6 DEF IInv, TypeOK,
         RunSettleOperations, WorkerType
  <2>3. op' \in OpType
      BY Bounds, Fields, <1>0, <1>1, <1>3, <1>4, <1>5, <1>6 DEF IInv, TypeOK,
         RunSettleOperations, OpType
  <2>4. queue' \in [Threads -> {"none", "queued", "given up"}]
      BY Bounds, Fields, <1>0, <1>1, <1>3, <1>4, <1>5, <1>6 DEF IInv, TypeOK, RunSettleOperations
  <2> QED
      BY Bounds, Fields, <1>0, <1>1, <1>3, <1>4, <1>5, <1>6, <2>1, <2>2, <2>3, <2>4 DEF IInv,
         TypeOK, JobsOK
<1>11. JobsInv'
    BY Bounds, Fields, <1>0, <1>1, <1>3, <1>4, <1>5, <1>6 DEF IInv, JobsInv, InCall, Starts
<1>12. WorkerInv'
    BY Bounds, Fields, <1>0, <1>1, <1>3, <1>4, <1>5, <1>6 DEF IInv, WorkerInv, InTurn, Scanning,
       FirstUndone
<1>13. TurnInv'
    BY Bounds, Fields, <1>0, <1>1, <1>3, <1>4, <1>5, <1>6 DEF IInv, TurnInv, InTurn, Owed, Quit
<1>14. PastInv'
    BY Bounds, Fields, <1>0, <1>1, <1>3, <1>4, <1>5, <1>6 DEF IInv, PastInv, Engaged
<1>15. KnownInv'
    BY Bounds, Fields, <1>0, <1>1, <1>3, <1>4, <1>5, <1>6 DEF IInv, KnownInv, Engaged
<1>16. VoiceInv'
    BY Bounds, Fields, <1>0, <1>1, <1>3, <1>4, <1>5, <1>6 DEF IInv, VoiceInv, Owed, Quit
<1>17. HistoryInv'
    BY Bounds, Fields, <1>0, <1>1, <1>3, <1>4, <1>5, <1>6 DEF IInv, HistoryInv, Owed, Quit
<1>18. QueueInv'
    BY Bounds, Fields, <1>0, <1>1, <1>3, <1>4, <1>5, <1>6 DEF IInv, QueueInv
<1>19. OpInv'
    BY Bounds, Fields, <1>0, <1>1, <1>3, <1>4, <1>5, <1>6 DEF IInv, OpInv, Owed, Quit
<1> QED
    BY <1>10, <1>11, <1>12, <1>13, <1>14, <1>15, <1>16, <1>17, <1>18, <1>19 DEF IInv

LEMMA EndsHolds == ASSUME IInv, ScanEnds PROVE IInv'
<1>0. TypeOK
    BY DEF IInv
<1>1. Working("scan", "settling") /\ UNCHANGED <<service, voices, turn, count, calls, file, queue, t3>>
    BY DEF ScanEnds, others
<1>2. /\ Current \in DOMAIN jobs /\ jobs[Current].kind = "scan" /\ ~jobs[Current].done
      /\ worker.step = "settling" /\ ~InTurn
    BY <1>0, <1>1, WorkingFacts
<1>3. /\ op' \in OpType /\ op'.call = op.call /\ op'.settle = op.settle /\ op'.first = op.first
      /\ op'.status = op.status /\ (op.attempt => op'.attempt)
    BY <1>0 DEF ScanEnds, TypeOK, OpType
<1>4. /\ JobsOK' /\ DOMAIN jobs' = DOMAIN jobs
      /\ \A i \in DOMAIN jobs : /\ jobs'[i].call = jobs[i].call
                                /\ jobs'[i].kind = jobs[i].kind \/ (i = Current /\ jobs'[i].kind = "reserved")
                                /\ i # Current => jobs'[i] = jobs[i]
      /\ (\E i \in DOMAIN jobs : jobs'[i].kind = "reserved" /\ jobs[i].kind # "reserved") => op'.attempt
      /\ worker' = Idle
  <2>1. CASE Done
      BY <1>0, <1>1, <2>1, DoneFacts
  <2>2. CASE /\ op' = [op EXCEPT !.attempt = TRUE] /\ worker' = Idle
             /\ jobs' = [jobs EXCEPT ![Current].done = TRUE, ![Current].kind = "reserved"]
    <3>1. jobs \in Seq(JobType) /\ Len(jobs) <= JobLimit /\ DOMAIN jobs = 1..Len(jobs) /\ Len(jobs) \in Nat
        BY <1>0, Fields DEF JobsOK
    <3>2. jobs[Current] \in JobType
        BY <1>2, <3>1, ElementOfSeq
    <3> DEFINE new == [jobs[Current] EXCEPT !.done = TRUE, !.kind = "reserved"]
    <3>3. new \in JobType /\ new.kind = "reserved" /\ new.call = jobs[Current].call
        BY <3>2 DEF JobType
    <3>4. jobs' = [jobs EXCEPT ![Current] = new]
        BY <1>2, <2>2, <3>1
    <3> HIDE DEF new
    <3>5. jobs' \in Seq(JobType) /\ Len(jobs') = Len(jobs) /\ DOMAIN jobs' = DOMAIN jobs
        BY <1>2, <3>1, <3>3, <3>4, ExceptSeq
    <3>6. jobs'[Current] = new /\ \A i \in DOMAIN jobs : i # Current => jobs'[i] = jobs[i]
        BY <1>2, <3>1, <3>4
    <3>7. op'.attempt
        BY <1>0, <2>2 DEF TypeOK, OpType
    <3> QED
        BY <2>2, <3>1, <3>3, <3>5, <3>6, <3>7 DEF JobsOK
  <2> QED
      BY <2>1, <2>2 DEF ScanEnds
<1>5. worker'.step = "idle" /\ worker' \in WorkerType
    BY <1>4 DEF Idle, WorkerType
<1>6. \A c : SettleJob(c)' <=> SettleJob(c)
  <2>1. ASSUME NEW c, SettleJob(c)' PROVE SettleJob(c)
    <3>1. PICK i \in DOMAIN jobs : jobs'[i].kind = "settle" /\ jobs'[i].call = c /\ ~jobs'[i].done
        BY <1>4, <2>1 DEF SettleJob
    <3> QED
        BY <1>2, <1>4, <3>1 DEF SettleJob
  <2>2. ASSUME NEW c, SettleJob(c) PROVE SettleJob(c)'
    <3>1. PICK i \in DOMAIN jobs : jobs[i].kind = "settle" /\ jobs[i].call = c /\ ~jobs[i].done
        BY <2>2 DEF SettleJob
    <3> QED
        BY <1>2, <1>4, <3>1 DEF SettleJob
  <2> QED
      BY <2>1, <2>2
<1>10. TypeOK'
  <2>1. JobsOK'
      BY Bounds, Fields, <1>0, <1>1, <1>2, <1>3, <1>4, <1>5, <1>6 DEF IInv, TypeOK, ScanEnds, JobsOK
  <2>2. worker' \in WorkerType
      BY Bounds, Fields, <1>0, <1>1, <1>2, <1>3, <1>4, <1>5, <1>6 DEF IInv, TypeOK, ScanEnds,
         WorkerType
  <2>3. op' \in OpType
      BY Bounds, Fields, <1>0, <1>1, <1>2, <1>3, <1>4, <1>5, <1>6 DEF IInv, TypeOK, ScanEnds, OpType
  <2> QED
      BY Bounds, Fields, <1>0, <1>1, <1>2, <1>3, <1>4, <1>5, <1>6, <2>1, <2>2, <2>3 DEF IInv,
         TypeOK, JobsOK
<1>11. JobsInv'
    BY Bounds, Fields, <1>0, <1>1, <1>2, <1>3, <1>4, <1>5, <1>6 DEF IInv, JobsInv, InCall, Starts
<1>12. WorkerInv'
    BY Bounds, Fields, <1>0, <1>1, <1>2, <1>3, <1>4, <1>5, <1>6 DEF IInv, WorkerInv, InTurn,
       Scanning, FirstUndone
<1>13. TurnInv'
    BY Bounds, Fields, <1>0, <1>1, <1>2, <1>3, <1>4, <1>5, <1>6 DEF IInv, TurnInv, InTurn, Owed,
       Quit
<1>14. PastInv'
    BY Bounds, Fields, <1>0, <1>1, <1>2, <1>3, <1>4, <1>5, <1>6 DEF IInv, PastInv, Engaged
<1>15. KnownInv'
    BY Bounds, Fields, <1>0, <1>1, <1>2, <1>3, <1>4, <1>5, <1>6 DEF IInv, KnownInv, Engaged
<1>16. VoiceInv'
    BY Bounds, Fields, <1>0, <1>1, <1>2, <1>3, <1>4, <1>5, <1>6 DEF IInv, VoiceInv, Owed, Quit
<1>17. HistoryInv'
    BY Bounds, Fields, <1>0, <1>1, <1>2, <1>3, <1>4, <1>5, <1>6 DEF IInv, HistoryInv, Owed, Quit
<1>18. QueueInv'
    BY Bounds, Fields, <1>0, <1>1, <1>2, <1>3, <1>4, <1>5, <1>6 DEF IInv, QueueInv
<1>19. OpInv'
    BY Bounds, Fields, <1>0, <1>1, <1>2, <1>3, <1>4, <1>5, <1>6 DEF IInv, OpInv, Owed, Quit
<1> QED
    BY <1>10, <1>11, <1>12, <1>13, <1>14, <1>15, <1>16, <1>17, <1>18, <1>19 DEF IInv

LEMMA RefreshesHolds == ASSUME IInv, ScanRefreshes PROVE IInv'
<1>0. TypeOK
    BY DEF IInv
<1>1. UNCHANGED <<service, voices, turn, count, jobs, worker, calls, file, queue, t3>>
    BY DEF ScanRefreshes, others
<1>2. /\ op'.attempt = op.attempt /\ op'.call = op.call /\ op'.settle = op.settle /\ op'.first = op.first
      /\ op'.status = "closed"
    BY <1>0 DEF ScanRefreshes, TypeOK, OpType
<1>10. TypeOK'
  <2>1. op' \in OpType
      BY Bounds, Fields, <1>0, <1>1, <1>2 DEF IInv, TypeOK, ScanRefreshes, OpType
  <2> QED
      BY Bounds, Fields, <1>0, <1>1, <1>2, <2>1 DEF IInv, TypeOK
<1>11. JobsInv'
    BY Bounds, Fields, <1>0, <1>1, <1>2 DEF IInv, JobsInv, InCall, Starts
<1>12. WorkerInv'
    BY Bounds, Fields, <1>0, <1>1, <1>2 DEF IInv, WorkerInv, InTurn, Scanning, FirstUndone
<1>13. TurnInv'
    BY Bounds, Fields, <1>0, <1>1, <1>2 DEF IInv, TurnInv, InTurn, Owed, Quit, SettleJob
<1>14. PastInv'
    BY Bounds, Fields, <1>0, <1>1, <1>2 DEF IInv, PastInv, Engaged, SettleJob
<1>15. KnownInv'
    BY Bounds, Fields, <1>0, <1>1, <1>2 DEF IInv, KnownInv, Engaged, SettleJob
<1>16. VoiceInv'
    BY Bounds, Fields, <1>0, <1>1, <1>2 DEF IInv, VoiceInv, Owed, Quit, SettleJob
<1>17. HistoryInv'
    BY Bounds, Fields, <1>0, <1>1, <1>2 DEF IInv, HistoryInv, Owed, Quit, SettleJob
<1>18. QueueInv'
    BY Bounds, Fields, <1>0, <1>1, <1>2 DEF IInv, QueueInv
<1>19. OpInv'
    BY Bounds, Fields, <1>0, <1>1, <1>2 DEF IInv, OpInv, Owed, Quit, SettleJob
<1> QED
    BY <1>10, <1>11, <1>12, <1>13, <1>14, <1>15, <1>16, <1>17, <1>18, <1>19 DEF IInv

LEMMA RecoverHolds == ASSUME IInv, ScanRecover PROVE IInv'
<1>0. TypeOK
    BY DEF IInv
<1>1. /\ Working("scan", "idle") /\ ~service.recovered
      /\ UNCHANGED <<service, voices, turn, count, calls, file, t3>>
    BY DEF ScanRecover, others
<1>2. /\ Current \in DOMAIN jobs /\ jobs[Current].kind = "scan" /\ ~jobs[Current].done
      /\ worker.step = "idle" /\ ~InTurn
    BY <1>0, <1>1, WorkingFacts
<1>3. /\ queue' \in [Threads -> {"none", "queued", "given up"}] /\ op' \in OpType
      /\ \A c \in Indirect : queue'[c] = queue[c]
      /\ (op.attempt => op'.attempt) /\ op'.call = op.call
      /\ op'.first => op'.attempt /\ op'.settle
      /\ op'.attempt /\ op'.status = "open" => op'.settle
  <2>1. CASE op.status = "open" /\ op.attempt /\ ~op.first /\ Finish
      BY <1>0, <2>1, FinishFacts
  <2>2. CASE (op.status # "open" \/ ~op.attempt \/ op.first) /\ UNCHANGED <<op, queue>>
      BY <1>0, <2>2 DEF IInv, OpInv, TypeOK
  <2> QED
      BY <2>1, <2>2 DEF ScanRecover
<1>4. \/ Done
      \/ UNCHANGED jobs /\ worker'.step = "candidates" /\ worker'.left = SettleCandidates /\ worker' \in WorkerType
    BY Bounds DEF ScanRecover, Goto, Idle, WorkerType, SettleCandidates
<1>5. /\ JobsOK' /\ DOMAIN jobs' = DOMAIN jobs
      /\ \A i \in DOMAIN jobs : jobs'[i].kind = jobs[i].kind /\ jobs'[i].call = jobs[i].call
      /\ \A c : SettleJob(c)' <=> SettleJob(c)
      /\ worker' \in WorkerType
      /\ \/ worker'.step = "idle"
         \/ /\ worker'.step = "candidates" /\ worker'.left = SettleCandidates
            /\ \A i \in DOMAIN jobs : jobs'[i].done <=> jobs[i].done
  <2>1. CASE Done
    <3>1. \A c : SettleJob(c)' => SettleJob(c)
        BY <1>0, <1>1, <2>1, DoneFacts
    <3>2. \A c : SettleJob(c) => SettleJob(c)'
        BY <1>0, <1>1, <2>1, DoneFacts
    <3> QED
        BY <1>0, <1>1, <2>1, <3>1, <3>2, DoneFacts
  <2>2. CASE UNCHANGED jobs /\ worker'.step = "candidates" /\ worker'.left = SettleCandidates /\ worker' \in WorkerType
    <3>1. JobsOK'
        BY <1>0, <2>2, Fields DEF JobsOK
    <3>2. \A c : SettleJob(c)' <=> SettleJob(c)
        BY <2>2 DEF SettleJob
    <3> QED
        BY <2>2, <3>1, <3>2
  <2> QED
      BY <1>4, <2>1, <2>2
<1>10. TypeOK'
  <2>1. JobsOK'
      BY Bounds, Fields, <1>0, <1>1, <1>2, <1>3, <1>5 DEF IInv, TypeOK, ScanRecover, JobsOK
  <2>2. worker' \in WorkerType
      BY Bounds, Fields, <1>0, <1>1, <1>2, <1>3, <1>5 DEF IInv, TypeOK, ScanRecover, WorkerType
  <2>3. op' \in OpType
      BY Bounds, Fields, <1>0, <1>1, <1>2, <1>3, <1>5 DEF IInv, TypeOK, ScanRecover, OpType
  <2>4. queue' \in [Threads -> {"none", "queued", "given up"}]
      BY Bounds, Fields, <1>0, <1>1, <1>2, <1>3, <1>5 DEF IInv, TypeOK, ScanRecover
  <2> QED
      BY Bounds, Fields, <1>0, <1>1, <1>2, <1>3, <1>5, <2>1, <2>2, <2>3, <2>4 DEF IInv, TypeOK,
         JobsOK
<1>11. JobsInv'
    BY Bounds, Fields, <1>0, <1>1, <1>2, <1>3, <1>5 DEF IInv, JobsInv, InCall, Starts
<1>12. WorkerInv'
    BY Bounds, Fields, <1>0, <1>1, <1>2, <1>3, <1>5 DEF IInv, WorkerInv, InTurn, Scanning,
       FirstUndone, SettleCandidates
<1>13. TurnInv'
    BY Bounds, Fields, <1>0, <1>1, <1>2, <1>3, <1>5 DEF IInv, TurnInv, InTurn, Owed, Quit
<1>14. PastInv'
    BY Bounds, Fields, <1>0, <1>1, <1>2, <1>3, <1>5 DEF IInv, PastInv, Engaged
<1>15. KnownInv'
    BY Bounds, Fields, <1>0, <1>1, <1>2, <1>3, <1>5 DEF IInv, KnownInv, Engaged
<1>16. VoiceInv'
    BY Bounds, Fields, <1>0, <1>1, <1>2, <1>3, <1>5 DEF IInv, VoiceInv, Owed, Quit
<1>17. HistoryInv'
    BY Bounds, Fields, <1>0, <1>1, <1>2, <1>3, <1>5 DEF IInv, HistoryInv, Owed, Quit,
       SettleCandidates, KnownInv
<1>18. QueueInv'
    BY Bounds, Fields, <1>0, <1>1, <1>2, <1>3, <1>5 DEF IInv, QueueInv
<1>19. OpInv'
    BY Bounds, Fields, <1>0, <1>1, <1>2, <1>3, <1>5 DEF IInv, OpInv, Owed, Quit
<1> QED
    BY <1>10, <1>11, <1>12, <1>13, <1>14, <1>15, <1>16, <1>17, <1>18, <1>19 DEF IInv

\* A coordinator is handed over: the entry and the marker of its call.
LEMMA HandedOver ==
    ASSUME TypeOK, NEW d,
           calls' = [calls EXCEPT ![d].settle = TRUE], queue' = RequestSettle(queue, d)
    PROVE  /\ calls' \in [Indirect -> CallType]
           /\ queue' \in [Threads -> {"none", "queued", "given up"}]
           /\ \A c \in Indirect : /\ c # d => calls'[c] = calls[c] /\ queue'[c] = queue[c]
                                  /\ calls'[c].state = calls[c].state
                                  /\ calls'[c].coordinator <=> calls[c].coordinator
                                  /\ calls[c].settle => calls'[c].settle
                                  /\ queue[c] # "none" => queue'[c] # "none"
           /\ d \in Indirect => calls'[d].settle /\ queue'[d] = "queued"
<1>1. calls \in [Indirect -> CallType] /\ queue \in [Threads -> {"none", "queued", "given up"}]
    BY DEF TypeOK
<1>2. ASSUME NEW c \in Indirect, c # d PROVE calls'[c] = calls[c] /\ queue'[c] = queue[c]
    BY <1>1, <1>2, Bounds DEF RequestSettle
<1>3. ASSUME d \in Indirect
      PROVE  /\ calls'[d] \in CallType /\ calls'[d].settle /\ calls'[d].state = calls[d].state
             /\ calls'[d].coordinator <=> calls[d].coordinator
             /\ queue'[d] = "queued"
  <2>1. calls[d] \in CallType
      BY <1>1, <1>3
  <2>2. calls'[d] = [calls[d] EXCEPT !.settle = TRUE]
      BY <1>1, <1>3
  <2>3. /\ calls'[d] \in CallType /\ calls'[d].settle /\ calls'[d].state = calls[d].state
        /\ calls'[d].coordinator <=> calls[d].coordinator
    <3>1. PICK old \in CallType : old = calls[d]
        BY <2>1
    <3>2. calls'[d] = [old EXCEPT !.settle = TRUE]
        BY <2>2, <3>1
    <3>3. calls'[d] \in CallType
        BY <3>2 DEF CallType
    <3>4. /\ calls'[d].settle /\ calls'[d].state = old.state
          /\ calls'[d].coordinator <=> old.coordinator
        BY <3>2 DEF CallType
    <3> QED
        BY <3>1, <3>3, <3>4
  <2>4. queue'[d] = "queued"
      BY <1>1, <1>3, Bounds DEF RequestSettle
  <2> QED
      BY <2>3, <2>4
<1>4. calls' \in [Indirect -> CallType]
    BY <1>1, <1>2, <1>3
<1>5. queue' \in [Threads -> {"none", "queued", "given up"}]
    BY <1>1 DEF RequestSettle
<1> QED
    BY <1>2, <1>3, <1>4, <1>5

LEMMA CandidateHolds == ASSUME IInv, NEW d \in Indirect, ScanCandidate(d) PROVE IInv'
<1>0. TypeOK
    BY DEF IInv
<1>1. /\ Working("scan", "candidates") /\ d \in worker.left
      /\ UNCHANGED <<service, voices, turn, count, jobs, file, op, t3>>
    BY DEF ScanCandidate, others
<1>2. /\ Current \in DOMAIN jobs /\ jobs[Current].kind = "scan" /\ ~jobs[Current].done
      /\ worker.step = "candidates" /\ ~InTurn
    BY <1>0, <1>1, WorkingFacts
<1>3. ~service.recovered /\ calls[d].coordinator
    BY <1>1, <1>2 DEF IInv, WorkerInv
<1>4. /\ calls' \in [Indirect -> CallType]
      /\ queue' \in [Threads -> {"none", "queued", "given up"}]
      /\ \A c \in Indirect : /\ c # d => calls'[c] = calls[c] /\ queue'[c] = queue[c]
                             /\ calls'[c].state = calls[c].state
                             /\ calls'[c].coordinator <=> calls[c].coordinator
                             /\ calls[c].settle => calls'[c].settle
      /\ calls'[d].settle /\ queue'[d] = "queued"
    BY <1>0, HandedOver DEF ScanCandidate
<1>5. worker'.step = "candidates" /\ worker'.left = worker.left \ {d}
    BY <1>0, <1>2 DEF TypeOK, WorkerType, ScanCandidate
<1>6. \A c : SettleJob(c)' <=> SettleJob(c)
    BY <1>1 DEF SettleJob
<1>10. TypeOK'
  <2>1. worker' \in WorkerType
      BY Bounds, Fields, <1>0, <1>1, <1>2, <1>3, <1>4, <1>5, <1>6 DEF IInv, TypeOK,
         ScanCandidate, CallType, WorkerType, RequestSettle
  <2>2. calls' \in [Indirect -> CallType]
      BY Bounds, Fields, <1>0, <1>1, <1>2, <1>3, <1>4, <1>5, <1>6 DEF IInv, TypeOK,
         ScanCandidate, CallType, WorkerType, RequestSettle
  <2>3. queue' \in [Threads -> {"none", "queued", "given up"}]
      BY Bounds, Fields, <1>0, <1>1, <1>2, <1>3, <1>4, <1>5, <1>6 DEF IInv, TypeOK,
         ScanCandidate, CallType, WorkerType, RequestSettle
  <2> QED
      BY Bounds, Fields, <1>0, <1>1, <1>2, <1>3, <1>4, <1>5, <1>6, <2>1, <2>2, <2>3 DEF IInv, TypeOK
<1>11. JobsInv'
    BY Bounds, Fields, <1>0, <1>1, <1>2, <1>3, <1>4, <1>5, <1>6 DEF IInv, JobsInv, InCall, Starts
<1>12. WorkerInv'
    BY Bounds, Fields, <1>0, <1>1, <1>2, <1>3, <1>4, <1>5, <1>6 DEF IInv, WorkerInv, InTurn,
       Scanning, FirstUndone
<1>13. TurnInv'
    BY Bounds, Fields, <1>0, <1>1, <1>2, <1>3, <1>4, <1>5, <1>6 DEF IInv, TurnInv, InTurn, Owed,
       Quit
<1>14. PastInv'
    BY Bounds, Fields, <1>0, <1>1, <1>2, <1>3, <1>4, <1>5, <1>6 DEF IInv, PastInv, Engaged
<1>15. KnownInv'
  <2>1. ASSUME NEW c \in Indirect, Engaged(c)'
        PROVE  /\ calls'[c].state # "none"
               /\ calls'[c].coordinator \/ calls'[c].settle => voices'[c].coordinator
    <3>1. Engaged(c)
        BY <1>1, <1>3, <1>4, <1>6, <2>1 DEF Engaged
    <3>2. calls[c].state # "none" /\ (calls[c].coordinator \/ calls[c].settle => voices[c].coordinator)
        BY <3>1 DEF IInv, KnownInv
    <3> QED
        BY <1>1, <1>3, <1>4, <1>6, <3>2
  <2>2. ASSUME NEW c \in Indirect
        PROVE  /\ calls'[c].state = "active" => service'.session = c
               /\ calls'[c].state = "none" => ~calls'[c].coordinator
               /\ file'[c].state = "none" => ~file'[c].coordinator
               /\ file'[c].settle => calls'[c].settle
      BY <1>1, <1>3, <1>4, <1>6 DEF IInv, KnownInv
  <2> QED
      BY <2>1, <2>2 DEF KnownInv
<1>16. VoiceInv'
    BY Bounds, Fields, <1>0, <1>1, <1>2, <1>3, <1>4, <1>5, <1>6 DEF IInv, VoiceInv, Owed, Quit
<1>17. HistoryInv'
    BY Bounds, Fields, <1>0, <1>1, <1>2, <1>3, <1>4, <1>5, <1>6 DEF IInv, HistoryInv, Owed, Quit
<1>18. QueueInv'
    BY Bounds, Fields, <1>0, <1>1, <1>2, <1>3, <1>4, <1>5, <1>6 DEF IInv, QueueInv
<1>19. OpInv'
    BY Bounds, Fields, <1>0, <1>1, <1>2, <1>3, <1>4, <1>5, <1>6 DEF IInv, OpInv, Owed, Quit
<1> QED
    BY <1>10, <1>11, <1>12, <1>13, <1>14, <1>15, <1>16, <1>17, <1>18, <1>19 DEF IInv

LEMMA RecoveredHolds == ASSUME IInv, ScanRecovered PROVE IInv'
<1>0. TypeOK
    BY DEF IInv
<1>1. /\ Working("scan", "candidates") /\ worker.left = {}
      /\ UNCHANGED <<voices, turn, count, calls, op, queue, t3, jobs>>
    BY DEF ScanRecovered, Goto
<1>2. /\ Current \in DOMAIN jobs /\ jobs[Current].kind = "scan" /\ ~jobs[Current].done
      /\ worker.step = "candidates" /\ ~InTurn
    BY <1>0, <1>1, WorkingFacts
<1>3. file' = file \/ file' = calls
    BY DEF ScanRecovered
<1>4. service'.session = service.session /\ service'.main = service.main
    BY <1>0 DEF TypeOK, ServiceType, ScanRecovered
<1>5. worker'.step = "recovered"
    BY DEF ScanRecovered, Goto, Idle
<1>6. \A c : SettleJob(c)' <=> SettleJob(c)
    BY <1>1 DEF SettleJob
<1>10. TypeOK'
  <2>1. worker' \in WorkerType
      BY Bounds, Fields, <1>0, <1>1, <1>2, <1>3, <1>4, <1>5, <1>6 DEF IInv, TypeOK,
         ScanRecovered, ServiceType, WorkerType, CallType, Goto, Idle
  <2>2. file' \in [Indirect -> CallType]
      BY Bounds, Fields, <1>0, <1>1, <1>2, <1>3, <1>4, <1>5, <1>6 DEF IInv, TypeOK,
         ScanRecovered, ServiceType, WorkerType, CallType, Goto, Idle
  <2>3. service' \in ServiceType
      BY Bounds, Fields, <1>0, <1>1, <1>2, <1>3, <1>4, <1>5, <1>6 DEF IInv, TypeOK,
         ScanRecovered, ServiceType, WorkerType, CallType, Goto, Idle
  <2> QED
      BY Bounds, Fields, <1>0, <1>1, <1>2, <1>3, <1>4, <1>5, <1>6, <2>1, <2>2, <2>3 DEF IInv, TypeOK
<1>11. JobsInv'
    BY Bounds, Fields, <1>0, <1>1, <1>2, <1>3, <1>4, <1>5, <1>6 DEF IInv, JobsInv, InCall, Starts
<1>12. WorkerInv'
    BY Bounds, Fields, <1>0, <1>1, <1>2, <1>3, <1>4, <1>5, <1>6 DEF IInv, WorkerInv, InTurn,
       Scanning, FirstUndone
<1>13. TurnInv'
    BY Bounds, Fields, <1>0, <1>1, <1>2, <1>3, <1>4, <1>5, <1>6 DEF IInv, TurnInv, InTurn, Owed,
       Quit
<1>14. PastInv'
    BY Bounds, Fields, <1>0, <1>1, <1>2, <1>3, <1>4, <1>5, <1>6 DEF IInv, PastInv, Engaged
<1>15. KnownInv'
    BY Bounds, Fields, <1>0, <1>1, <1>2, <1>3, <1>4, <1>5, <1>6 DEF IInv, KnownInv, Engaged
<1>16. VoiceInv'
    BY Bounds, Fields, <1>0, <1>1, <1>2, <1>3, <1>4, <1>5, <1>6 DEF IInv, VoiceInv, Owed, Quit
<1>17. HistoryInv'
    BY Bounds, Fields, <1>0, <1>1, <1>2, <1>3, <1>4, <1>5, <1>6 DEF IInv, HistoryInv, Owed, Quit
<1>18. QueueInv'
    BY Bounds, Fields, <1>0, <1>1, <1>2, <1>3, <1>4, <1>5, <1>6 DEF IInv, QueueInv
<1>19. OpInv'
    BY Bounds, Fields, <1>0, <1>1, <1>2, <1>3, <1>4, <1>5, <1>6 DEF IInv, OpInv, Owed, Quit
<1> QED
    BY <1>10, <1>11, <1>12, <1>13, <1>14, <1>15, <1>16, <1>17, <1>18, <1>19 DEF IInv

LEMMA SettlesHolds == ASSUME IInv, NEW due \in SUBSET Threads, ScanSettles(due) PROVE IInv'
<1>0. TypeOK
    BY DEF IInv
<1>1. UNCHANGED <<service, voices, turn, count, jobs, calls, file, op, queue, t3>>
    BY DEF ScanSettles, others, durable, Goto
<1>2. /\ Current \in DOMAIN jobs /\ jobs[Current].kind = "scan" /\ ~jobs[Current].done /\ ~InTurn
      /\ (worker.step = "idle" /\ service.recovered) \/ worker.step = "recovered"
    BY <1>0, WorkingFacts DEF ScanSettles
<1>3. worker'.step = "settling"
    BY DEF ScanSettles, Goto, Idle
<1>4. \A c : SettleJob(c)' <=> SettleJob(c)
    BY <1>1 DEF SettleJob
<1>10. TypeOK'
  <2>1. worker' \in WorkerType
      BY Bounds, Fields, <1>0, <1>1, <1>2, <1>3, <1>4 DEF IInv, TypeOK, ScanSettles, WorkerType,
         Goto, Idle
  <2> QED
      BY Bounds, Fields, <1>0, <1>1, <1>2, <1>3, <1>4, <2>1 DEF IInv, TypeOK
<1>11. JobsInv'
    BY Bounds, Fields, <1>0, <1>1, <1>2, <1>3, <1>4 DEF IInv, JobsInv, InCall, Starts
<1>12. WorkerInv'
    BY Bounds, Fields, <1>0, <1>1, <1>2, <1>3, <1>4 DEF IInv, WorkerInv, InTurn, Scanning,
       FirstUndone
<1>13. TurnInv'
    BY Bounds, Fields, <1>0, <1>1, <1>2, <1>3, <1>4 DEF IInv, TurnInv, InTurn, Owed, Quit
<1>14. PastInv'
    BY Bounds, Fields, <1>0, <1>1, <1>2, <1>3, <1>4 DEF IInv, PastInv, Engaged
<1>15. KnownInv'
    BY Bounds, Fields, <1>0, <1>1, <1>2, <1>3, <1>4 DEF IInv, KnownInv, Engaged
<1>16. VoiceInv'
    BY Bounds, Fields, <1>0, <1>1, <1>2, <1>3, <1>4 DEF IInv, VoiceInv, Owed, Quit
<1>17. HistoryInv'
    BY Bounds, Fields, <1>0, <1>1, <1>2, <1>3, <1>4 DEF IInv, HistoryInv, Owed, Quit
<1>18. QueueInv'
    BY Bounds, Fields, <1>0, <1>1, <1>2, <1>3, <1>4 DEF IInv, QueueInv
<1>19. OpInv'
    BY Bounds, Fields, <1>0, <1>1, <1>2, <1>3, <1>4 DEF IInv, OpInv, Owed, Quit
<1> QED
    BY <1>10, <1>11, <1>12, <1>13, <1>14, <1>15, <1>16, <1>17, <1>18, <1>19 DEF IInv

LEMMA SettleCoordinatorHolds == ASSUME IInv, NEW d \in Threads,
      NEW result \in SettleTerminal \cup {"busy", "unconfirmed"}, SettleCoordinator(d, result) PROVE IInv'
<1>0. TypeOK
    BY DEF IInv
<1>1. /\ Working("scan", "settling") /\ d \in worker.left
      /\ UNCHANGED <<service, voices, turn, count, jobs, calls, file, op>>
    BY DEF SettleCoordinator, others
<1>2. /\ Current \in DOMAIN jobs /\ jobs[Current].kind = "scan" /\ ~jobs[Current].done
      /\ worker.step = "settling" /\ ~InTurn
    BY <1>0, <1>1, WorkingFacts
<1>3. worker'.step = "settling"
    BY <1>0, <1>2 DEF TypeOK, WorkerType, SettleCoordinator
<1>4. \A c \in Indirect : queue[c] # "none" \/ t3[c] = "inactive" => queue'[c] # "none" \/ t3'[c] = "inactive"
    BY <1>0, Bounds DEF TypeOK, SettleCoordinator, SettleInT3, SettleTerminal
<1>5. \A c : SettleJob(c)' <=> SettleJob(c)
    BY <1>1 DEF SettleJob
<1>10. TypeOK'
  <2>1. worker' \in WorkerType
      BY Bounds, Fields, <1>0, <1>1, <1>2, <1>3, <1>4, <1>5 DEF IInv, TypeOK, SettleCoordinator,
         SettleInT3, WorkerType
  <2>2. queue' \in [Threads -> {"none", "queued", "given up"}]
      BY Bounds, Fields, <1>0, <1>1, <1>2, <1>3, <1>4, <1>5 DEF IInv, TypeOK, SettleCoordinator,
         SettleInT3, WorkerType
  <2>3. t3' \in [Threads -> {"none", "active", "inactive"}]
      BY Bounds, Fields, <1>0, <1>1, <1>2, <1>3, <1>4, <1>5 DEF IInv, TypeOK, SettleCoordinator,
         SettleInT3, WorkerType
  <2> QED
      BY Bounds, Fields, <1>0, <1>1, <1>2, <1>3, <1>4, <1>5, <2>1, <2>2, <2>3 DEF IInv, TypeOK
<1>11. JobsInv'
    BY Bounds, Fields, <1>0, <1>1, <1>2, <1>3, <1>4, <1>5 DEF IInv, JobsInv, InCall, Starts
<1>12. WorkerInv'
    BY Bounds, Fields, <1>0, <1>1, <1>2, <1>3, <1>4, <1>5 DEF IInv, WorkerInv, InTurn, Scanning,
       FirstUndone
<1>13. TurnInv'
    BY Bounds, Fields, <1>0, <1>1, <1>2, <1>3, <1>4, <1>5 DEF IInv, TurnInv, InTurn, Owed, Quit
<1>14. PastInv'
    BY Bounds, Fields, <1>0, <1>1, <1>2, <1>3, <1>4, <1>5 DEF IInv, PastInv, Engaged
<1>15. KnownInv'
    BY Bounds, Fields, <1>0, <1>1, <1>2, <1>3, <1>4, <1>5 DEF IInv, KnownInv, Engaged
<1>16. VoiceInv'
    BY Bounds, Fields, <1>0, <1>1, <1>2, <1>3, <1>4, <1>5 DEF IInv, VoiceInv, Owed, Quit
<1>17. HistoryInv'
    BY Bounds, Fields, <1>0, <1>1, <1>2, <1>3, <1>4, <1>5 DEF IInv, HistoryInv, Owed, Quit
<1>18. QueueInv'
    BY Bounds, Fields, <1>0, <1>1, <1>2, <1>3, <1>4, <1>5 DEF IInv, QueueInv
<1>19. OpInv'
    BY Bounds, Fields, <1>0, <1>1, <1>2, <1>3, <1>4, <1>5 DEF IInv, OpInv, Owed, Quit
<1> QED
    BY <1>10, <1>11, <1>12, <1>13, <1>14, <1>15, <1>16, <1>17, <1>18, <1>19 DEF IInv

LEMMA StatusHolds == ASSUME IInv, RunSettleStatus PROVE IInv'
<1>0. TypeOK
    BY DEF IInv
<1> DEFINE d == jobs[Current].call
<1>1. Working("settle", "idle") /\ UNCHANGED <<service, voices, turn, count, jobs, file, op, t3>>
    BY DEF RunSettleStatus, others, Goto
<1>2. /\ Current \in DOMAIN jobs /\ jobs[Current].kind = "settle" /\ ~jobs[Current].done
      /\ worker.step = "idle" /\ ~InTurn
    BY <1>0, <1>1, WorkingFacts
<1>3. SettleJob(d) /\ d \in Calls
  <2>1. d # 0
      BY <1>2 DEF IInv, JobsInv
  <2> QED
      BY <2>1, <1>0, <1>2, Fields DEF SettleJob
<1>4. /\ queue' = (IF voices[d].coordinator THEN RequestSettle(queue, d) ELSE queue)
      /\ calls' = (IF voices[d].coordinator THEN [calls EXCEPT ![d].settle = TRUE] ELSE calls)
    BY DEF RunSettleStatus, Job1
<1>5. \A k : FirstUndone(jobs, k) => k = Current
    BY <1>0, <1>1, WorkingFacts
<1>6. worker'.step = "operations" /\ worker'.left = {}
    BY DEF RunSettleStatus, Goto, Idle
<1>7. /\ calls' \in [Indirect -> CallType]
      /\ queue' \in [Threads -> {"none", "queued", "given up"}]
      /\ \A c \in Indirect : /\ c # d => calls'[c] = calls[c] /\ queue'[c] = queue[c]
                             /\ calls'[c].state = calls[c].state
                             /\ calls'[c].coordinator <=> calls[c].coordinator
                             /\ calls[c].settle => calls'[c].settle
                             /\ queue[c] # "none" => queue'[c] # "none"
      /\ d \in Indirect /\ voices[d].coordinator => calls'[d].settle /\ queue'[d] = "queued"
      /\ ~voices[d].coordinator => calls' = calls
  <2>1. CASE voices[d].coordinator
    <3>1. calls' = [calls EXCEPT ![d].settle = TRUE] /\ queue' = RequestSettle(queue, d)
        BY <1>4, <2>1
    <3> HIDE DEF d
    <3> QED
        BY <1>0, <2>1, <3>1, HandedOver
  <2>2. CASE ~voices[d].coordinator
      BY <1>0, <1>4, <2>2 DEF TypeOK
  <2> QED
      BY <2>1, <2>2
<1>8. d <= count.calls
    BY <1>3 DEF IInv, PastInv, Engaged
<1> HIDE DEF d
<1>9. \A c : SettleJob(c)' <=> SettleJob(c)
    BY <1>1 DEF SettleJob
<1>10. TypeOK'
  <2>1. worker' \in WorkerType
      BY Bounds, Fields, <1>0, <1>1, <1>2, <1>3, <1>5, <1>6, <1>7, <1>9 DEF IInv, TypeOK,
         RunSettleStatus, Job1, CallType, WorkerType, Goto, Idle, RequestSettle
  <2>2. calls' \in [Indirect -> CallType]
      BY Bounds, Fields, <1>0, <1>1, <1>2, <1>3, <1>5, <1>6, <1>7, <1>9 DEF IInv, TypeOK,
         RunSettleStatus, Job1, CallType, WorkerType, Goto, Idle, RequestSettle
  <2>3. queue' \in [Threads -> {"none", "queued", "given up"}]
      BY Bounds, Fields, <1>0, <1>1, <1>2, <1>3, <1>5, <1>6, <1>7, <1>9 DEF IInv, TypeOK,
         RunSettleStatus, Job1, CallType, WorkerType, Goto, Idle, RequestSettle
  <2> QED
      BY Bounds, Fields, <1>0, <1>1, <1>2, <1>3, <1>5, <1>6, <1>7, <1>9, <2>1, <2>2,
         <2>3 DEF IInv, TypeOK
<1>11. JobsInv'
    BY Bounds, Fields, <1>0, <1>1, <1>2, <1>3, <1>5, <1>6, <1>7, <1>9 DEF IInv, JobsInv, InCall,
       Starts
<1>12. WorkerInv'
    BY Bounds, Fields, <1>0, <1>1, <1>2, <1>3, <1>5, <1>6, <1>7, <1>9 DEF IInv, WorkerInv,
       InTurn, Scanning, FirstUndone, d
<1>13. TurnInv'
    BY Bounds, Fields, <1>0, <1>1, <1>2, <1>3, <1>5, <1>6, <1>7, <1>9 DEF IInv, TurnInv, InTurn,
       Owed, Quit
<1>14. PastInv'
  <2>1. \A c \in Calls : c > count'.calls => voices'[c] = NoVoice
      BY <1>1 DEF IInv, PastInv
  <2>2. ASSUME NEW c \in Indirect, c > count'.calls
        PROVE  ~calls'[c].coordinator /\ ~calls'[c].settle /\ ~file'[c].coordinator /\ ~file'[c].settle
    <3>1. c # d
        BY <1>0, <1>1, <1>3, <1>8, <2>2, Fields, Bounds
    <3> QED
        BY <1>1, <1>7, <2>2, <3>1 DEF IInv, PastInv
  <2>3. ASSUME NEW c \in Calls, Engaged(c)' PROVE c <= count'.calls
      BY <1>1, <1>9, <2>3 DEF IInv, PastInv, Engaged
  <2> QED
      BY <2>1, <2>2, <2>3 DEF PastInv
<1>15. KnownInv'
  <2>1. ASSUME NEW c \in Indirect, Engaged(c)'
        PROVE  /\ calls'[c].state # "none"
               /\ calls'[c].coordinator \/ calls'[c].settle => voices'[c].coordinator
    <3>1. Engaged(c)
        BY <1>1, <1>3, <1>7, <1>9, <2>1 DEF Engaged
    <3>2. calls[c].state # "none" /\ (calls[c].coordinator \/ calls[c].settle => voices[c].coordinator)
        BY <3>1 DEF IInv, KnownInv
    <3> QED
        BY <1>1, <1>3, <1>7, <1>9, <3>2, <1>7
  <2>2. ASSUME NEW c \in Indirect
        PROVE  /\ calls'[c].state = "active" => service'.session = c
               /\ calls'[c].state = "none" => ~calls'[c].coordinator
               /\ file'[c].state = "none" => ~file'[c].coordinator
               /\ file'[c].settle => calls'[c].settle
      BY <1>1, <1>3, <1>7, <1>9 DEF IInv, KnownInv
  <2> QED
      BY <2>1, <2>2 DEF KnownInv
<1>16. VoiceInv'
    BY Bounds, Fields, <1>0, <1>1, <1>2, <1>3, <1>5, <1>6, <1>7, <1>9 DEF IInv, VoiceInv, Owed, Quit
<1>17. HistoryInv'
    BY Bounds, Fields, <1>0, <1>1, <1>2, <1>3, <1>5, <1>6, <1>7, <1>9 DEF IInv, HistoryInv, Owed,
       Quit
<1>18. QueueInv'
    BY Bounds, Fields, <1>0, <1>1, <1>2, <1>3, <1>5, <1>6, <1>7, <1>9 DEF IInv, QueueInv
<1>19. OpInv'
    BY Bounds, Fields, <1>0, <1>1, <1>2, <1>3, <1>5, <1>6, <1>7, <1>9 DEF IInv, OpInv, Owed, Quit
<1> QED
    BY <1>10, <1>11, <1>12, <1>13, <1>14, <1>15, <1>16, <1>17, <1>18, <1>19 DEF IInv

-----------------------------------------------------------------------------
(* The submissions of the main loop.                                           *)

\* Jobs that are added behind the others: the first that is not done stays the first.
LEMMA FirstStays ==
    ASSUME JobsOK, JobsOK', \A i \in DOMAIN jobs : i \in DOMAIN jobs' /\ jobs'[i] = jobs[i],
           \E i \in DOMAIN jobs : ~jobs[i].done
    PROVE  \A k : FirstUndone(jobs', k) => FirstUndone(jobs, k)
<1>1. /\ DOMAIN jobs = 1..Len(jobs) /\ Len(jobs) \in Nat
      /\ DOMAIN jobs' = 1..Len(jobs') /\ Len(jobs') \in Nat
    BY DEF JobsOK
<1>2. PICK i \in DOMAIN jobs : ~jobs[i].done
    OBVIOUS
<1>3. ASSUME NEW k, FirstUndone(jobs', k) PROVE FirstUndone(jobs, k)
  <2>1. k \in 1..Len(jobs') /\ ~jobs'[k].done /\ \A j \in 1..(k - 1) : jobs'[j].done
      BY <1>1, <1>3 DEF FirstUndone
  <2>2. k <= i
    <3>1. CASE k > i
      <4>1. i \in 1..(k - 1)
          BY <1>1, <1>2, <2>1, <3>1
      <4> QED
          BY <1>2, <2>1, <4>1
    <3> QED
        BY <1>1, <1>2, <2>1, <3>1
  <2>3. k \in DOMAIN jobs /\ \A j \in 1..(k - 1) : j \in DOMAIN jobs
      BY <1>1, <1>2, <2>1, <2>2
  <2> QED
      BY <2>1, <2>3 DEF FirstUndone
<1> QED
    BY <1>3

\* One job is submitted: a text at any time, the jobs that lead to a call only between calls
\* and when no other is there.
LEMMA SubmitHolds ==
    ASSUME IInv, NEW kind \in {"scan", "accept", "other"}, Submit(<<Job(kind, 0)>>, service),
           kind # "other" => ~InCall /\ jobs = <<>>,
           UNCHANGED <<voices, turn, worker, calls, file, op, queue, t3, count>>
    PROVE  IInv'
<1>0. TypeOK
    BY DEF IInv
<1> DEFINE new == <<Job(kind, 0)>>
<1>1. /\ Job(kind, 0) \in JobType /\ Job(kind, 0).kind = kind
      /\ new \in Seq(JobType) /\ DOMAIN new = {1} /\ new[1] = Job(kind, 0)
    BY DEF Job, JobType
<1> HIDE DEF new
<1>2. /\ JobsOK'
      /\ \A i \in DOMAIN jobs : i \in DOMAIN jobs' /\ jobs'[i] = jobs[i]
      /\ \A i \in DOMAIN jobs' \ DOMAIN jobs :
            i > Len(jobs) /\ i - Len(jobs) \in DOMAIN new /\ jobs'[i] = new[i - Len(jobs)]
      /\ service' = service \/ service' = [service EXCEPT !.main = "quit"]
    BY <1>0, <1>1, Fields, SubmitFacts DEF new
<1>3. /\ DOMAIN jobs = 1..Len(jobs) /\ Len(jobs) \in Nat
      /\ DOMAIN jobs' = 1..Len(jobs') /\ Len(jobs') \in Nat
    BY <1>0, <1>2, Fields DEF JobsOK
<1>4. \A i \in DOMAIN jobs' \ DOMAIN jobs : i = Len(jobs) + 1 /\ jobs'[i].kind = kind
    BY <1>1, <1>2, <1>3
<1>5. /\ service' \in ServiceType /\ service'.session = service.session
      /\ service'.recovered = service.recovered
      /\ service.main = "quit" => service'.main = "quit"
    BY <1>0, <1>2 DEF TypeOK, ServiceType
<1>6. \A c : SettleJob(c)' <=> SettleJob(c)
  <2>1. ASSUME NEW c, SettleJob(c)' PROVE SettleJob(c)
    <3>1. PICK i \in DOMAIN jobs' : jobs'[i].kind = "settle" /\ jobs'[i].call = c /\ ~jobs'[i].done
        BY <2>1 DEF SettleJob
    <3>2. i \in DOMAIN jobs
        BY <1>4, <3>1
    <3> QED
        BY <1>2, <3>1, <3>2 DEF SettleJob
  <2>2. ASSUME NEW c, SettleJob(c) PROVE SettleJob(c)'
      BY <1>2, <2>2 DEF SettleJob
  <2> QED
      BY <2>1, <2>2
<1>7. \A c \in Calls : Owed(c) => Owed(c)'
    BY <1>5, <1>6 DEF Owed, Quit
<1>8. (\E i \in DOMAIN jobs : ~jobs[i].done) => \A k : FirstUndone(jobs', k) => FirstUndone(jobs, k)
    BY <1>0, <1>2, Fields, FirstStays
<1>10. TypeOK'
  <2>1. JobsOK'
      BY <1>2
  <2>2. service' \in ServiceType
      BY <1>5
  <2> QED
      BY Bounds, Fields, <1>0, <1>2, <1>5, <1>6, <2>1, <2>2 DEF IInv, TypeOK, JobsOK
<1>11. JobsInv'
  <2>1. \A i \in DOMAIN jobs' : i \notin DOMAIN jobs => jobs'[i].kind = kind /\ i = Len(jobs) + 1
      BY <1>4
  <2>2. kind # "other" => DOMAIN jobs = {} /\ ~InCall
      BY <1>3
  <2>3. ASSUME NEW i \in DOMAIN jobs', NEW j \in DOMAIN jobs',
               jobs'[i].kind \in Starts, jobs'[j].kind \in Starts
        PROVE  i = j
    <3>1. CASE i \in DOMAIN jobs /\ j \in DOMAIN jobs
        BY <1>2, <2>3, <3>1 DEF IInv, JobsInv
    <3>2. CASE i \notin DOMAIN jobs
      <4>1. kind \in Starts
          BY <2>1, <2>3, <3>2
      <4>2. kind # "other"
          BY <4>1 DEF Starts
      <4>3. j \notin DOMAIN jobs
          BY <2>2, <4>2
      <4> QED
          BY <2>1, <3>2, <4>3
    <3>3. CASE j \notin DOMAIN jobs
      <4>1. kind \in Starts
          BY <2>1, <2>3, <3>3
      <4>2. kind # "other"
          BY <4>1 DEF Starts
      <4>3. i \notin DOMAIN jobs
          BY <2>2, <4>2
      <4> QED
          BY <2>1, <3>3, <4>3
    <3> QED
        BY <3>1, <3>2, <3>3
  <2>4. ASSUME InCall', NEW i \in DOMAIN jobs' PROVE jobs'[i].kind \notin Starts
    <3>1. InCall /\ kind = "other"
        BY <1>5, <2>2, <2>4 DEF InCall
    <3> QED
        BY <1>2, <2>1, <3>1 DEF IInv, JobsInv, Starts
  <2>5. ASSUME NEW i \in DOMAIN jobs'
        PROVE  /\ jobs'[i].kind = "settle" => jobs'[i].call # 0
               /\ jobs'[i].kind \in {"finish", "reserved", "validate"} => op'.attempt
    <3>1. CASE i \in DOMAIN jobs
        BY <1>2, <3>1 DEF IInv, JobsInv
    <3>2. CASE i \notin DOMAIN jobs
        BY <2>1, <3>2
    <3> QED
        BY <3>1, <3>2
  <2> QED
      BY <2>3, <2>4, <2>5 DEF JobsInv
<1>12. WorkerInv'
  <2>1. worker.step \in Scanning => \E i \in DOMAIN jobs' : jobs'[i].kind = "scan" /\ ~jobs'[i].done
      BY <1>2 DEF IInv, WorkerInv
  <2>2. worker.step = "operations" =>
            /\ \E i \in DOMAIN jobs' : ~jobs'[i].done
            /\ \A k \in DOMAIN jobs' : FirstUndone(jobs', k) =>
                  /\ jobs'[k].kind = "settle"
                  /\ jobs'[k].call \in Indirect /\ voices[jobs'[k].call].coordinator =>
                        calls[jobs'[k].call].settle
    <3> SUFFICES ASSUME worker.step = "operations"
                 PROVE  /\ \E i \in DOMAIN jobs' : ~jobs'[i].done
                        /\ \A k \in DOMAIN jobs' : FirstUndone(jobs', k) =>
                              /\ jobs'[k].kind = "settle"
                              /\ jobs'[k].call \in Indirect /\ voices[jobs'[k].call].coordinator =>
                                    calls[jobs'[k].call].settle
      OBVIOUS
    <3>1. \E i \in DOMAIN jobs : ~jobs[i].done
        BY DEF IInv, WorkerInv
    <3>2. ASSUME NEW k \in DOMAIN jobs', FirstUndone(jobs', k)
          PROVE  k \in DOMAIN jobs /\ FirstUndone(jobs, k) /\ jobs'[k] = jobs[k]
        BY <1>2, <1>8, <3>1, <3>2 DEF FirstUndone
    <3> QED
        BY <1>2, <3>1, <3>2 DEF IInv, WorkerInv
  <2> QED
      BY <1>0, <1>5, <2>1, <2>2, Fields DEF IInv, WorkerInv, InTurn
<1>13. TurnInv'
    BY Bounds, Fields, <1>0, <1>2, <1>5, <1>6, <1>7 DEF IInv, TurnInv, InTurn, Owed, Quit
<1>14. PastInv'
    BY Bounds, Fields, <1>0, <1>2, <1>5, <1>6 DEF IInv, PastInv, Engaged
<1>15. KnownInv'
    BY Bounds, Fields, <1>0, <1>2, <1>5, <1>6 DEF IInv, KnownInv, Engaged
<1>16. VoiceInv'
    BY Bounds, Fields, <1>0, <1>2, <1>5, <1>6, <1>7 DEF IInv, VoiceInv, Owed, Quit
<1>17. HistoryInv'
    BY Bounds, Fields, <1>0, <1>2, <1>5, <1>6, <1>7 DEF IInv, HistoryInv, Owed, Quit
<1>18. QueueInv'
    BY Bounds, Fields, <1>0, <1>2, <1>5, <1>6 DEF IInv, QueueInv
<1>19. OpInv'
    BY Bounds, Fields, <1>0, <1>2, <1>5, <1>6, <1>7 DEF IInv, OpInv, Owed, Quit
<1> QED
    BY <1>10, <1>11, <1>12, <1>13, <1>14, <1>15, <1>16, <1>17, <1>18, <1>19 DEF IInv

LEMMA SubmitScanHolds == ASSUME IInv, SubmitScan PROVE IInv'
    BY SubmitHolds DEF SubmitScan, durable

LEMMA SubmitAcceptHolds == ASSUME IInv, SubmitAccept PROVE IInv'
    BY SubmitHolds DEF SubmitAccept, durable

LEMMA SubmitOtherHolds == ASSUME IInv, SubmitOther PROVE IInv'
    BY SubmitHolds DEF SubmitOther, durable

LEMMA EndCallHolds ==
    ASSUME IInv, NEW detached \in BOOLEAN, NEW confirmed \in BOOLEAN, EndCall(detached, confirmed)
    PROVE  IInv'
<1>f. PICK d : d = service.session
    OBVIOUS
<1> DEFINE finish == confirmed /\ voices[d].op /\ ~detached /\ op.attempt
           over == [service EXCEPT !.session = 0, !.main = IF confirmed THEN @ ELSE "quit"]
           new == <<Job("settle", d)>> \o (IF finish THEN <<Job("finish", d)>> ELSE <<>>)
<1>0. TypeOK
    BY DEF IInv
<1>1. /\ d \in Calls /\ d # 0 /\ InCall /\ UNCHANGED <<voices, turn, worker, count, file, op, queue, t3>>
      /\ calls' = [calls EXCEPT ![d].state = "ended"] /\ Submit(new, over)
    BY <1>0, <1>f, Fields DEF EndCall, durable, InCall
<1>a. /\ new \in Seq(JobType) /\ 1 \in DOMAIN new /\ DOMAIN new \subseteq {1, 2}
      /\ new[1] = Job("settle", d)
      /\ 2 \in DOMAIN new => new[2] = Job("finish", d) /\ op.attempt
  <2> DEFINE one == <<Job("settle", d)>>
             two == IF finish THEN <<Job("finish", d)>> ELSE <<>>
  <2>1. Job("settle", d) \in JobType /\ Job("finish", d) \in JobType
      BY <1>1 DEF Job, JobType
  <2>2. one \in Seq(JobType) /\ Len(one) = 1 /\ one[1] = Job("settle", d)
      BY <2>1
  <2>3. /\ two \in Seq(JobType) /\ Len(two) \in {0, 1}
        /\ Len(two) = 1 => two[1] = Job("finish", d) /\ op.attempt
    <3>1. CASE finish
        BY <2>1, <3>1
    <3>2. CASE ~finish
        BY <3>2
    <3> QED
        BY <3>1, <3>2
  <2>4. new = one \o two
      OBVIOUS
  <2> HIDE DEF one, two, new
  <2>5. /\ new \in Seq(JobType) /\ Len(new) = 1 + Len(two) /\ DOMAIN new = 1..Len(new)
        /\ \A i \in 1..(1 + Len(two)) : new[i] = IF i <= 1 THEN one[i] ELSE two[i - 1]
      BY <2>2, <2>3, <2>4, ConcatProperties
  <2>6. CASE Len(two) = 0
      BY <2>2, <2>5, <2>6
  <2>7. CASE Len(two) = 1
      BY <2>2, <2>3, <2>5, <2>7
  <2> QED
      BY <2>3, <2>6, <2>7
<1>b. /\ Job("settle", d).kind = "settle" /\ Job("settle", d).call = d /\ ~Job("settle", d).done
      /\ Job("finish", d).kind = "finish" /\ Job("finish", d).call = d
    BY DEF Job
<1> HIDE DEF new, finish, over
<1>2. /\ JobsOK'
      /\ \A i \in DOMAIN jobs : i \in DOMAIN jobs' /\ jobs'[i] = jobs[i]
      /\ \A i \in DOMAIN jobs' \ DOMAIN jobs :
            i > Len(jobs) /\ i - Len(jobs) \in DOMAIN new /\ jobs'[i] = new[i - Len(jobs)]
      /\ \/ /\ service' = over
            /\ Len(jobs) + 1 \in DOMAIN jobs' /\ jobs'[Len(jobs) + 1] = new[1]
         \/ service' = [over EXCEPT !.main = "quit"]
    BY <1>0, <1>1, <1>a, Fields, SubmitFacts
<1>4. \A i \in DOMAIN jobs' \ DOMAIN jobs :
         /\ jobs'[i].call = d /\ jobs'[i].kind \in {"settle", "finish"}
         /\ jobs'[i].kind = "finish" => op.attempt
    BY <1>2, <1>a, <1>b
<1>5. /\ service' \in ServiceType /\ service'.session = 0
      /\ service'.recovered = service.recovered
      /\ service.main = "quit" => service'.main = "quit"
    BY <1>0, <1>2 DEF TypeOK, ServiceType, over
<1>c. SettleJob(d)' \/ service'.main = "quit"
  <2>1. CASE service' = over /\ Len(jobs) + 1 \in DOMAIN jobs' /\ jobs'[Len(jobs) + 1] = new[1]
    <3>1. /\ Len(jobs) + 1 \in DOMAIN jobs' /\ jobs'[Len(jobs) + 1].kind = "settle"
          /\ jobs'[Len(jobs) + 1].call = d /\ ~jobs'[Len(jobs) + 1].done
        BY <1>a, <1>b, <2>1
    <3> QED
        BY <3>1 DEF SettleJob
  <2>2. CASE service' = [over EXCEPT !.main = "quit"]
      BY <1>0, <2>2 DEF TypeOK, ServiceType, over
  <2> QED
      BY <1>2, <2>1, <2>2
<1>6. /\ \A c : SettleJob(c)' => SettleJob(c) \/ c = d
      /\ \A c : SettleJob(c) => SettleJob(c)'
  <2>1. ASSUME NEW c, SettleJob(c)' PROVE SettleJob(c) \/ c = d
    <3>1. PICK i \in DOMAIN jobs' : jobs'[i].kind = "settle" /\ jobs'[i].call = c /\ ~jobs'[i].done
        BY <2>1 DEF SettleJob
    <3> QED
        BY <1>2, <1>4, <3>1 DEF SettleJob
  <2>2. ASSUME NEW c, SettleJob(c) PROVE SettleJob(c)'
      BY <1>2, <2>2 DEF SettleJob
  <2> QED
      BY <2>1, <2>2
<1>7. /\ calls' \in [Indirect -> CallType]
      /\ \A c \in Indirect : /\ c # d => calls'[c] = calls[c]
                             /\ calls'[c].coordinator <=> calls[c].coordinator
                             /\ calls'[c].settle <=> calls[c].settle
      /\ d \in Indirect => calls'[d].state = "ended"
  <2>1. ASSUME NEW c \in Indirect, c # d PROVE calls'[c] = calls[c]
      BY <1>0, <1>1, <2>1 DEF TypeOK
  <2>2. ASSUME d \in Indirect
        PROVE  /\ calls'[d] \in CallType /\ calls'[d].state = "ended"
               /\ calls'[d].coordinator <=> calls[d].coordinator
               /\ calls'[d].settle <=> calls[d].settle
    <3>1. calls[d] \in CallType /\ calls'[d] = [calls[d] EXCEPT !.state = "ended"]
        BY <1>0, <1>1, <2>2 DEF TypeOK
    <3> QED
        BY <3>1 DEF CallType
  <2>3. calls' \in [Indirect -> CallType]
      BY <1>0, <1>1, <2>1, <2>2 DEF TypeOK
  <2> QED
      BY <2>1, <2>2, <2>3
<1>8. (\E i \in DOMAIN jobs : ~jobs[i].done) => \A k : FirstUndone(jobs', k) => FirstUndone(jobs, k)
    BY <1>0, <1>2, Fields, FirstStays
<1>d. Engaged(d) /\ \A c \in Calls : Engaged(c)' => Engaged(c)
    BY <1>1, <1>5, <1>6, <1>f, Bounds DEF Engaged
<1>e. \A c \in Calls : Owed(c) => Owed(c)'
  <2>1. ASSUME NEW c \in Calls, Owed(c) PROVE Owed(c)'
    <3>1. c = d \/ service.main = "quit" \/ SettleJob(c)
        BY <1>f, <2>1 DEF Owed, Quit
    <3>2. service'.main = "quit" \/ SettleJob(c)'
        BY <1>5, <1>6, <1>c, <3>1
    <3> QED
        BY <3>2 DEF Owed, Quit
  <2> QED
      BY <2>1
<1>10. TypeOK'
    BY <1>0, <1>1, <1>2, <1>5, <1>7 DEF TypeOK, JobsOK
<1>11. JobsInv'
  <2>1. \A i \in DOMAIN jobs' : jobs'[i].kind \notin Starts
      BY <1>1, <1>2, <1>4 DEF IInv, JobsInv, Starts
  <2>2. ASSUME NEW i \in DOMAIN jobs'
        PROVE  /\ jobs'[i].kind = "settle" => jobs'[i].call # 0
               /\ jobs'[i].kind \in {"finish", "reserved", "validate"} => op'.attempt
    <3>1. CASE i \in DOMAIN jobs
        BY <1>1, <1>2, <3>1 DEF IInv, JobsInv
    <3>2. CASE i \notin DOMAIN jobs
        BY <1>1, <1>4, <3>2
    <3> QED
        BY <3>1, <3>2
  <2> QED
      BY <2>1, <2>2 DEF JobsInv
<1>12. WorkerInv'
  <2>1. worker'.step \in Scanning => \E i \in DOMAIN jobs' : jobs'[i].kind = "scan" /\ ~jobs'[i].done
      BY <1>1, <1>2 DEF IInv, WorkerInv
  <2>2. worker'.step = "operations" =>
            /\ \E i \in DOMAIN jobs' : ~jobs'[i].done
            /\ \A k \in DOMAIN jobs' : FirstUndone(jobs', k) =>
                  /\ jobs'[k].kind = "settle"
                  /\ jobs'[k].call \in Indirect /\ voices'[jobs'[k].call].coordinator =>
                        calls'[jobs'[k].call].settle
    <3> SUFFICES ASSUME worker.step = "operations"
                 PROVE  /\ \E i \in DOMAIN jobs' : ~jobs'[i].done
                        /\ \A k \in DOMAIN jobs' : FirstUndone(jobs', k) =>
                              /\ jobs'[k].kind = "settle"
                              /\ jobs'[k].call \in Indirect /\ voices'[jobs'[k].call].coordinator =>
                                    calls'[jobs'[k].call].settle
      BY <1>1
    <3>1. \E i \in DOMAIN jobs : ~jobs[i].done
        BY DEF IInv, WorkerInv
    <3>2. ASSUME NEW k \in DOMAIN jobs', FirstUndone(jobs', k)
          PROVE  k \in DOMAIN jobs /\ FirstUndone(jobs, k) /\ jobs'[k] = jobs[k]
        BY <1>2, <1>8, <3>1, <3>2 DEF FirstUndone
    <3> QED
        BY <1>1, <1>2, <1>7, <3>1, <3>2 DEF IInv, WorkerInv
  <2>3. worker'.step = "candidates" => /\ ~service'.recovered
                                     /\ \A c \in worker'.left : c \in Indirect /\ calls'[c].coordinator
      BY <1>1, <1>5, <1>7 DEF IInv, WorkerInv
  <2> QED
      BY <1>1, <2>1, <2>2, <2>3 DEF IInv, WorkerInv, InTurn
<1>13. TurnInv'
    BY <1>0, Fields, Bounds, <1>1, <1>e DEF IInv, TurnInv, InTurn
<1>14. PastInv'
    BY <1>0, Fields, Bounds, <1>1, <1>7, <1>d DEF IInv, PastInv
<1>15. KnownInv'
  <2>1. ASSUME NEW c \in Indirect, Engaged(c)'
        PROVE  /\ calls'[c].state # "none"
               /\ calls'[c].coordinator \/ calls'[c].settle => voices'[c].coordinator
      BY <1>1, <1>7, <1>d, <2>1, Bounds DEF IInv, KnownInv
  <2>2. ASSUME NEW c \in Indirect
        PROVE  /\ calls'[c].state = "active" => service'.session = c
               /\ calls'[c].state = "none" => ~calls'[c].coordinator
               /\ file'[c].state = "none" => ~file'[c].coordinator
               /\ file'[c].settle => calls'[c].settle
      BY <1>1, <1>7, <1>f DEF IInv, KnownInv
  <2> QED
      BY <2>1, <2>2 DEF KnownInv
<1>16. VoiceInv'
    BY <1>0, Fields, Bounds, <1>1, <1>7, <1>e DEF IInv, VoiceInv
<1>17. HistoryInv'
    BY <1>0, Fields, Bounds, <1>1, <1>5, <1>7, <1>e DEF IInv, HistoryInv
<1>18. QueueInv'
    BY <1>1, <1>7 DEF IInv, QueueInv
<1>19. OpInv'
    BY <1>0, Fields, Bounds, <1>1, <1>5, <1>e DEF IInv, OpInv, Quit
<1> QED
    BY <1>10, <1>11, <1>12, <1>13, <1>14, <1>15, <1>16, <1>17, <1>18, <1>19 DEF IInv

-----------------------------------------------------------------------------
(* The start of a run.                                                         *)

\* A run begins with what is on disk, no call, no job and a recovery to come.
LEMMA FreshRun ==
    ASSUME service' = NewService, turn' = NoTurn, jobs' = <<>>, worker' = Idle,
           voices' = [c \in Calls |-> NoVoice]
    PROVE  /\ service' \in ServiceType /\ turn' \in TurnType /\ JobsOK' /\ worker' \in WorkerType
           /\ voices' \in [Calls -> VoiceType]
           /\ service'.session = 0 /\ service'.main = "on" /\ ~service'.recovered
           /\ turn'.step = "none" /\ worker'.step = "idle" /\ DOMAIN jobs' = {}
           /\ \A c \in Calls : voices'[c] = NoVoice /\ ~voices'[c].coordinator
           /\ \A c \in Calls : ~Engaged(c)' /\ ~Owed(c)'
           /\ JobsInv' /\ WorkerInv' /\ TurnInv' /\ VoiceInv'
<1>1. /\ service' \in ServiceType /\ turn' \in TurnType /\ worker' \in WorkerType
      /\ voices' \in [Calls -> VoiceType]
      /\ service'.session = 0 /\ service'.main = "on" /\ ~service'.recovered
      /\ turn'.step = "none" /\ worker'.step = "idle"
      /\ \A c \in Calls : voices'[c] = NoVoice /\ ~voices'[c].coordinator
    BY DEF NewService, NoTurn, Idle, NoVoice, ServiceType, TurnType, WorkerType, VoiceType
<1>2. DOMAIN jobs' = {} /\ jobs' \in Seq(JobType) /\ Len(jobs') = 0
    OBVIOUS
<1>3. JobsOK'
    BY <1>2, Bounds DEF JobsOK
<1>4. \A c \in Calls : ~SettleJob(c)' /\ ~Engaged(c)' /\ ~Owed(c)'
    BY <1>1, <1>2, Bounds DEF SettleJob, Engaged, Owed, Quit
<1>5. JobsInv' /\ WorkerInv' /\ TurnInv'
    BY <1>1, <1>2 DEF JobsInv, WorkerInv, Scanning, TurnInv, InTurn
<1>6. VoiceInv'
    BY <1>1, Bounds DEF VoiceInv
<1> QED
    BY <1>1, <1>2, <1>3, <1>4, <1>5, <1>6

LEMMA InitHolds == Init => IInv
<1> SUFFICES ASSUME Init PROVE IInv
  OBVIOUS
<1>1. /\ service = NewService /\ turn = NoTurn /\ jobs = <<>> /\ worker = Idle
      /\ voices = [c \in Calls |-> NoVoice] /\ calls = [c \in Indirect |-> NoCall] /\ file = calls
      /\ count = [calls |-> 0, restarts |-> 0]
      /\ op = [status |-> "open", coordinator |-> FALSE, attempt |-> FALSE, call |-> 0,
               settle |-> FALSE, first |-> FALSE]
      /\ queue = [k \in Threads |-> "none"] /\ t3 = [k \in Threads |-> "none"]
    BY DEF Init
<1>2. TypeOK
  <2>1. service \in ServiceType /\ turn \in TurnType /\ worker \in WorkerType /\ op \in OpType
      BY <1>1 DEF NewService, NoTurn, Idle, ServiceType, TurnType, WorkerType, OpType
  <2>2. voices \in [Calls -> VoiceType] /\ calls \in [Indirect -> CallType] /\ file \in [Indirect -> CallType]
      BY <1>1 DEF NoVoice, NoCall, VoiceType, CallType
  <2>3. jobs \in Seq(JobType) /\ Len(jobs) <= JobLimit
      BY <1>1, Bounds
  <2>4. count \in [calls : 0..MaxCalls, restarts : 0..MaxRestarts]
      BY <1>1, Bounds
  <2> QED
      BY <1>1, <2>1, <2>2, <2>3, <2>4 DEF TypeOK
<1>3. /\ service.session = 0 /\ ~service.recovered /\ turn.step = "none" /\ worker.step = "idle"
      /\ count.calls = 0 /\ op.call = 0 /\ ~op.first /\ DOMAIN jobs = {}
      /\ \A c \in Calls : voices[c] = NoVoice /\ ~voices[c].coordinator
      /\ \A c \in Indirect : ~calls[c].coordinator /\ ~calls[c].settle /\ calls[c].state = "none"
    BY <1>1 DEF NewService, NoTurn, Idle, NoVoice, NoCall
<1>4. \A c \in Calls : ~Engaged(c)
    BY <1>3, Bounds DEF Engaged, SettleJob
<1>5. JobsInv /\ WorkerInv /\ TurnInv /\ VoiceInv
    BY <1>3, Bounds DEF JobsInv, InCall, WorkerInv, Scanning, TurnInv, InTurn, VoiceInv
<1>6. PastInv /\ KnownInv
    BY <1>1, <1>3, <1>4, Bounds DEF PastInv, KnownInv
<1>7. HistoryInv /\ QueueInv /\ OpInv
    BY <1>3 DEF HistoryInv, QueueInv, OpInv
<1> QED
    BY <1>2, <1>5, <1>6, <1>7 DEF IInv

\* What is read back keeps what it says of the threads, and no call is on.
LEMMA LoadedFacts ==
    ASSUME NEW f \in [Indirect -> CallType]
    PROVE  /\ Loaded(f) \in [Indirect -> CallType]
           /\ \A c \in Indirect : /\ Loaded(f)[c].state # "active"
                                  /\ Loaded(f)[c].state = "none" <=> f[c].state = "none"
                                  /\ Loaded(f)[c].coordinator <=> f[c].coordinator
                                  /\ Loaded(f)[c].settle <=> f[c].settle
<1>1. ASSUME NEW c \in Indirect
      PROVE  /\ Loaded(f)[c] \in CallType /\ Loaded(f)[c].state # "active"
             /\ Loaded(f)[c].state = "none" <=> f[c].state = "none"
             /\ Loaded(f)[c].coordinator <=> f[c].coordinator
             /\ Loaded(f)[c].settle <=> f[c].settle
  <2>1. f[c] \in CallType
      OBVIOUS
  <2>2. Loaded(f)[c] = IF f[c].state = "active" THEN [f[c] EXCEPT !.state = "interrupted"] ELSE f[c]
      BY DEF Loaded
  <2>3. CASE f[c].state = "active"
      BY <2>1, <2>2, <2>3 DEF CallType
  <2>4. CASE f[c].state # "active"
      BY <2>1, <2>2, <2>4
  <2> QED
      BY <2>3, <2>4
<1>2. Loaded(f) \in [Indirect -> CallType]
    BY <1>1 DEF Loaded
<1> QED
    BY <1>1, <1>2

LEMMA RestartCounts ==
    ASSUME TypeOK, count.restarts < MaxRestarts, count' = [count EXCEPT !.restarts = @ + 1]
    PROVE  count' \in [calls : 0..MaxCalls, restarts : 0..MaxRestarts] /\ count'.calls = count.calls
<1>1. count \in [calls : 0..MaxCalls, restarts : 0..MaxRestarts]
    BY DEF TypeOK
<1>2. count.restarts \in 0..MaxRestarts
    BY <1>1
<1>3. count.restarts + 1 \in 0..MaxRestarts
    BY <1>2, Bounds
<1> QED
    BY <1>1, <1>3

LEMMA CrashHolds == ASSUME IInv, Crash PROVE IInv'
<1>1. /\ service' = NewService /\ turn' = NoTurn /\ jobs' = <<>> /\ worker' = Idle
      /\ voices' = [c \in Calls |-> NoVoice] /\ UNCHANGED <<t3, file, op, queue>>
      /\ calls' = Loaded(file)
      /\ count.restarts < MaxRestarts /\ count' = [count EXCEPT !.restarts = @ + 1]
    BY DEF Crash, Restart, durable
<1>2. TypeOK
    BY DEF IInv
<1>3. /\ calls' \in [Indirect -> CallType]
      /\ \A c \in Indirect : /\ calls'[c].state # "active"
                             /\ calls'[c].state = "none" <=> file[c].state = "none"
                             /\ calls'[c].coordinator <=> file[c].coordinator
                             /\ calls'[c].settle <=> file[c].settle
    BY <1>1, <1>2, LoadedFacts DEF TypeOK
<1>4. count' \in [calls : 0..MaxCalls, restarts : 0..MaxRestarts] /\ count'.calls = count.calls
    BY <1>1, <1>2, RestartCounts
<1>5. TypeOK'
    BY <1>1, <1>2, <1>3, <1>4, FreshRun DEF TypeOK, JobsOK
<1>6. JobsInv' /\ WorkerInv' /\ TurnInv' /\ VoiceInv'
    BY <1>1, FreshRun
<1>7. /\ service'.session = 0 /\ ~service'.recovered /\ worker'.step = "idle"
      /\ \A c \in Calls : voices'[c] = NoVoice /\ ~Engaged(c)'
    BY <1>1, FreshRun
<1>8. PastInv' /\ KnownInv'
    BY <1>1, <1>3, <1>4, <1>7, Bounds DEF IInv, PastInv, KnownInv
<1>9. HistoryInv' /\ OpInv'
    BY <1>1, <1>7 DEF IInv, HistoryInv, OpInv
<1>10. QueueInv'
    BY <1>1, <1>3 DEF IInv, QueueInv, KnownInv
<1> QED
    BY <1>5, <1>6, <1>8, <1>9, <1>10 DEF IInv

LEMMA ExitHolds == ASSUME IInv, Exit PROVE IInv'
<1>f. PICK d : d = service.session
    OBVIOUS
<1> DEFINE status == InCall /\ voices[d].coordinator
           about == InCall /\ voices[d].op
           left == IF InCall THEN [calls EXCEPT ![d].state = "ended", ![d].settle = @ \/ status] ELSE calls
           q == IF status THEN RequestSettle(queue, d) ELSE queue
<1>1. /\ service' = NewService /\ turn' = NoTurn /\ jobs' = <<>> /\ worker' = Idle
      /\ voices' = [c \in Calls |-> NoVoice] /\ UNCHANGED t3
      /\ count.restarts < MaxRestarts /\ count' = [count EXCEPT !.restarts = @ + 1]
    BY DEF Exit, Restart
<1>2. /\ file' = left /\ calls' = Loaded(left)
      /\ queue' = (IF about THEN QueueOp(q, op) ELSE q)
      /\ op' = (IF about THEN MarkOp(op) ELSE op)
    BY <1>f DEF Exit
<1>3. TypeOK
    BY DEF IInv
<1>4. /\ left \in [Indirect -> CallType]
      /\ \A c \in Indirect : /\ left[c].coordinator <=> calls[c].coordinator
                             /\ left[c].state = "none" => calls[c].state = "none"
                             /\ left[c].settle => calls[c].settle \/ (c = d /\ status)
  <2>1. CASE ~InCall
      BY <1>3, <2>1 DEF TypeOK
  <2>2. CASE InCall
    <3>1. left = [calls EXCEPT ![d].state = "ended", ![d].settle = @ \/ status]
        BY <2>2
    <3> HIDE DEF left, status
    <3>2. ASSUME NEW c \in Indirect, c # d PROVE left[c] = calls[c]
        BY <1>3, <3>1, <3>2 DEF TypeOK
    <3>3. ASSUME d \in Indirect
          PROVE  /\ left[d] \in CallType /\ left[d].state = "ended"
                 /\ left[d].coordinator <=> calls[d].coordinator
                 /\ left[d].settle => calls[d].settle \/ status
      <4>1. calls[d] \in CallType
          BY <1>3, <3>3 DEF TypeOK
      <4>2. left[d] = [calls[d] EXCEPT !.state = "ended", !.settle = @ \/ status]
          BY <1>3, <3>1, <3>3 DEF TypeOK
      <4> QED
          BY <4>1, <4>2 DEF CallType
    <3>4. left \in [Indirect -> CallType]
        BY <1>3, <3>1, <3>2, <3>3 DEF TypeOK
    <3> QED
        BY <3>2, <3>3, <3>4
  <2> QED
      BY <2>1, <2>2
<1>5. /\ calls' \in [Indirect -> CallType] /\ file' \in [Indirect -> CallType]
      /\ \A c \in Indirect : /\ calls'[c].state # "active"
                             /\ calls'[c].state = "none" <=> file'[c].state = "none"
                             /\ calls'[c].coordinator <=> calls[c].coordinator
                             /\ file'[c].coordinator <=> calls[c].coordinator
                             /\ file'[c].state = "none" => calls[c].state = "none"
                             /\ calls'[c].settle <=> file'[c].settle
                             /\ calls'[c].settle => calls[c].settle \/ (c = d /\ status)
  <2> HIDE DEF left, status
  <2> QED
      BY <1>2, <1>4, LoadedFacts
<1>6. /\ queue' \in [Threads -> {"none", "queued", "given up"}]
      /\ \A c \in Indirect : /\ queue[c] # "none" => queue'[c] # "none"
                             /\ c = d /\ status => queue'[c] # "none"
  <2>1. /\ q \in [Threads -> {"none", "queued", "given up"}]
        /\ \A c \in Indirect : /\ queue[c] # "none" => q[c] # "none"
                               /\ c = d /\ status => q[c] # "none"
      BY <1>3, Bounds DEF TypeOK, RequestSettle
  <2> HIDE DEF q, status, about
  <2>2. /\ QueueOp(q, op) \in [Threads -> {"none", "queued", "given up"}]
        /\ \A c \in Indirect : QueueOp(q, op)[c] = q[c]
      BY <2>1, Bounds DEF QueueOp, RequestSettle, Op
  <2> QED
      BY <1>2, <2>1, <2>2
<1> HIDE DEF left, q, status, about
<1>7. /\ op' \in OpType /\ op'.call = op.call /\ op'.attempt = op.attempt /\ op'.first = op.first
      /\ op.settle => op'.settle
    BY <1>2, <1>3, MarkFacts DEF TypeOK
<1>8. count' \in [calls : 0..MaxCalls, restarts : 0..MaxRestarts] /\ count'.calls = count.calls
    BY <1>1, <1>3, RestartCounts
<1>9. TypeOK'
    BY <1>1, <1>3, <1>5, <1>6, <1>7, <1>8, FreshRun DEF TypeOK, JobsOK
<1>10. JobsInv' /\ WorkerInv' /\ TurnInv' /\ VoiceInv'
    BY <1>1, FreshRun
<1>11. /\ service'.session = 0 /\ ~service'.recovered /\ worker'.step = "idle"
       /\ \A c \in Calls : voices'[c] = NoVoice /\ ~Engaged(c)'
    BY <1>1, FreshRun
<1>12. d # 0 => d <= count.calls
    BY <1>3, <1>f, Fields DEF IInv, PastInv, Engaged
<1>13. PastInv'
  <2>1. ASSUME NEW c \in Indirect, c > count'.calls
        PROVE  ~calls'[c].coordinator /\ ~calls'[c].settle /\ ~file'[c].coordinator /\ ~file'[c].settle
    <3>1. c # d
        BY <1>3, <1>8, <1>12, <2>1, Fields, Bounds
    <3> QED
        BY <1>5, <1>8, <2>1, <3>1 DEF IInv, PastInv
  <2> QED
      BY <1>11, <2>1 DEF PastInv
<1>14. KnownInv'
    BY <1>5, <1>11, Bounds DEF IInv, KnownInv
<1>15. HistoryInv' /\ OpInv'
    BY <1>7, <1>11 DEF IInv, HistoryInv, OpInv
<1>16. QueueInv'
    BY <1>1, <1>5, <1>6 DEF IInv, QueueInv
<1> QED
    BY <1>9, <1>10, <1>13, <1>14, <1>15, <1>16 DEF IInv

-----------------------------------------------------------------------------
(* A job is called back.                                                       *)

\* Where a job that stays was before.
Old(j, i) == IF j < i THEN j ELSE j + 1

Without(s, i) == SubSeq(s, 1, i - 1) \o SubSeq(s, i + 1, Len(s))

LEMMA StayFacts ==
    ASSUME TypeOK, NEW i \in DOMAIN jobs, jobs[i].done, NEW rest,
           rest = Without(jobs, i)
    PROVE  /\ rest \in Seq(JobType) /\ Len(rest) < Len(jobs)
           /\ \A j \in DOMAIN rest : Old(j, i) \in DOMAIN jobs /\ Old(j, i) # i /\ rest[j] = jobs[Old(j, i)]
           /\ \A j, l \in DOMAIN rest : Old(j, i) = Old(l, i) => j = l
           /\ \A l \in DOMAIN jobs : l # i => \E j \in DOMAIN rest : rest[j] = jobs[l]
           /\ \A j : FirstUndone(rest, j) => FirstUndone(jobs, Old(j, i))
<1>1. /\ rest \in Seq(JobType) /\ Len(rest) = Len(jobs) - 1
      /\ \A j \in 1..(Len(jobs) - 1) : rest[j] = IF j < i THEN jobs[j] ELSE jobs[j + 1]
    BY Fields, RemovalFacts DEF Without
<1>2. /\ DOMAIN jobs = 1..Len(jobs) /\ Len(jobs) \in Nat /\ DOMAIN rest = 1..(Len(jobs) - 1)
      /\ i \in 1..Len(jobs)
    BY <1>1, Fields DEF JobsOK
<1>3. \A j \in DOMAIN rest : Old(j, i) \in DOMAIN jobs /\ Old(j, i) # i /\ rest[j] = jobs[Old(j, i)]
  <2> SUFFICES ASSUME NEW j \in DOMAIN rest
               PROVE  Old(j, i) \in DOMAIN jobs /\ Old(j, i) # i /\ rest[j] = jobs[Old(j, i)]
    OBVIOUS
  <2>1. j \in Nat /\ j \in 1..(Len(jobs) - 1) /\ i \in Nat /\ rest[j] = IF j < i THEN jobs[j] ELSE jobs[j + 1]
      BY <1>1, <1>2
  <2>2. CASE j < i
      BY <1>2, <2>1, <2>2 DEF Old
  <2>3. CASE ~(j < i)
    <3>1. j + 1 \in 1..Len(jobs) /\ j + 1 # i
        BY <1>2, <2>1, <2>3
    <3> QED
        BY <1>2, <2>1, <2>3, <3>1 DEF Old
  <2> QED
      BY <2>2, <2>3
<1>4. \A j, l \in DOMAIN rest : Old(j, i) = Old(l, i) => j = l
    BY <1>2 DEF Old
<1>5. ASSUME NEW l \in DOMAIN jobs, l # i PROVE \E j \in DOMAIN rest : rest[j] = jobs[l]
  <2>1. CASE l < i
    <3>1. l \in DOMAIN rest /\ rest[l] = jobs[l]
        BY <1>1, <1>2, <2>1
    <3> QED
        BY <3>1
  <2>2. CASE l > i
    <3>1. l - 1 \in DOMAIN rest /\ ~(l - 1 < i) /\ l - 1 + 1 = l
        BY <1>2, <2>2
    <3>2. rest[l - 1] = jobs[l]
        BY <1>1, <1>2, <3>1
    <3> QED
        BY <3>1, <3>2
  <2>3. l < i \/ l > i
      BY <1>2, <1>5
  <2> QED
      BY <2>1, <2>2, <2>3
<1>6. ASSUME NEW j, FirstUndone(rest, j) PROVE FirstUndone(jobs, Old(j, i))
  <2>1. j \in DOMAIN rest /\ ~rest[j].done /\ \A l \in 1..(j - 1) : rest[l].done
      BY <1>6 DEF FirstUndone
  <2>2. Old(j, i) \in DOMAIN jobs /\ ~jobs[Old(j, i)].done
      BY <1>3, <2>1
  <2>a. /\ j \in Nat \ {0} /\ i \in Nat \ {0} /\ j <= Len(jobs) - 1
        /\ j < i => Old(j, i) = j
        /\ j >= i => Old(j, i) = j + 1
      BY <1>2, <2>1 DEF Old
  <2>3. ASSUME NEW l \in 1..(Old(j, i) - 1) PROVE jobs[l].done
    <3>a. l \in Nat \ {0} /\ (j < i => l <= j - 1) /\ (j >= i => l <= j)
        BY <2>a, <2>3
    <3>1. CASE l < i
      <4>1. l \in 1..(j - 1) /\ l \in DOMAIN rest
          BY <1>2, <2>a, <3>a, <3>1
      <4>2. rest[l] = jobs[l]
          BY <1>1, <1>2, <3>1, <4>1
      <4> QED
          BY <2>1, <4>1, <4>2
    <3>2. CASE l > i
      <4>1. l - 1 \in 1..(j - 1) /\ l - 1 \in DOMAIN rest /\ ~(l - 1 < i) /\ l - 1 + 1 = l
          BY <1>2, <2>a, <3>a, <3>2
      <4>2. rest[l - 1] = jobs[l]
          BY <1>1, <1>2, <4>1
      <4> QED
          BY <2>1, <4>1, <4>2
    <3>3. CASE l = i
        BY <3>3
    <3> QED
        BY <2>a, <3>a, <3>1, <3>2, <3>3
  <2> QED
      BY <2>2, <2>3 DEF FirstUndone
<1>7. Len(rest) < Len(jobs)
    BY <1>1, <1>2
<1> QED
    BY <1>1, <1>3, <1>4, <1>5, <1>6, <1>7

\* The jobs that stay after one was called back, and perhaps the next job behind them.
LEMMA CalledBackFacts ==
    ASSUME IInv, NEW i \in DOMAIN jobs, jobs[i].done, NEW rest,
           rest = Without(jobs, i),
           \/ jobs' = rest
           \/ jobs' = Append(rest, Job("validate", 0)) /\ jobs[i].kind = "reserved"
    PROVE  /\ JobsOK'
           /\ \A j \in DOMAIN jobs' :
                 \/ j \in DOMAIN rest /\ jobs'[j] = rest[j]
                 \/ jobs'[j] = Job("validate", 0) /\ jobs[i].kind = "reserved" /\ j = Len(rest) + 1
           /\ \A j \in DOMAIN rest : j \in DOMAIN jobs' /\ jobs'[j] = rest[j]
           /\ \A c : SettleJob(c)' <=> SettleJob(c)
           /\ (\E j \in DOMAIN jobs : ~jobs[j].done) =>
                 /\ \E j \in DOMAIN jobs' : ~jobs'[j].done
                 /\ \A k : FirstUndone(jobs', k) =>
                       /\ Old(k, i) \in DOMAIN jobs /\ jobs'[k] = jobs[Old(k, i)]
                       /\ FirstUndone(jobs, Old(k, i))
<1>0. TypeOK
    BY DEF IInv
<1>1. /\ rest \in Seq(JobType) /\ Len(rest) < Len(jobs)
      /\ \A j \in DOMAIN rest : Old(j, i) \in DOMAIN jobs /\ Old(j, i) # i /\ rest[j] = jobs[Old(j, i)]
      /\ \A l \in DOMAIN jobs : l # i => \E j \in DOMAIN rest : rest[j] = jobs[l]
      /\ \A j : FirstUndone(rest, j) => FirstUndone(jobs, Old(j, i))
    BY <1>0, StayFacts
<1>2. Job("validate", 0) \in JobType /\ Job("validate", 0).kind = "validate"
    BY DEF Job, JobType
<1>3. /\ Len(rest) \in Nat /\ DOMAIN rest = 1..Len(rest) /\ Len(jobs) \in Nat /\ Len(jobs) <= JobLimit
      /\ JobLimit \in Nat
    BY <1>0, <1>1, Fields, Bounds DEF JobsOK
<1>4. /\ JobsOK' /\ DOMAIN jobs' = 1..Len(jobs') /\ Len(jobs') \in Nat
      /\ \A j \in DOMAIN jobs' :
            \/ j \in DOMAIN rest /\ jobs'[j] = rest[j]
            \/ jobs'[j] = Job("validate", 0) /\ jobs[i].kind = "reserved" /\ j = Len(rest) + 1
      /\ \A j \in DOMAIN rest : j \in DOMAIN jobs' /\ jobs'[j] = rest[j]
  <2>1. CASE jobs' = rest
      BY <1>1, <1>3, <2>1 DEF JobsOK
  <2>2. CASE jobs' = Append(rest, Job("validate", 0)) /\ jobs[i].kind = "reserved"
    <3>1. /\ jobs' \in Seq(JobType) /\ Len(jobs') = Len(rest) + 1
          /\ \A j \in 1..Len(rest) : jobs'[j] = rest[j]
          /\ jobs'[Len(rest) + 1] = Job("validate", 0)
      <4> DEFINE v == Job("validate", 0)
      <4>1. v \in JobType /\ jobs' = Append(rest, v)
          BY <1>2, <2>2
      <4> HIDE DEF v
      <4>2. /\ jobs' \in Seq(JobType) /\ Len(jobs') = Len(rest) + 1
            /\ \A j \in 1..Len(rest) : jobs'[j] = rest[j]
            /\ jobs'[Len(rest) + 1] = v
          BY <1>1, <4>1, AppendProperties
      <4> QED
          BY <4>2 DEF v
    <3>2. /\ DOMAIN jobs' = 1..(Len(rest) + 1) /\ Len(jobs') <= JobLimit
        BY <1>1, <1>3, <3>1
    <3>3. \A j \in DOMAIN jobs' : j \in DOMAIN rest \/ j = Len(rest) + 1
        BY <1>3, <3>2
    <3>4. \A j \in DOMAIN rest : j \in DOMAIN jobs'
        BY <1>3, <3>2
    <3> QED
        BY <1>3, <2>2, <3>1, <3>2, <3>3, <3>4 DEF JobsOK
  <2> QED
      BY <2>1, <2>2
<1>5. \A c : SettleJob(c)' <=> SettleJob(c)
  <2>1. ASSUME NEW c, SettleJob(c)' PROVE SettleJob(c)
    <3>1. PICK j \in DOMAIN jobs' : jobs'[j].kind = "settle" /\ jobs'[j].call = c /\ ~jobs'[j].done
        BY <2>1 DEF SettleJob
    <3>2. j \in DOMAIN rest /\ jobs'[j] = rest[j]
        BY <1>2, <1>4, <3>1
    <3>3. Old(j, i) \in DOMAIN jobs /\ jobs'[j] = jobs[Old(j, i)]
        BY <1>1, <3>2
    <3> QED
        BY <3>1, <3>3 DEF SettleJob
  <2>2. ASSUME NEW c, SettleJob(c) PROVE SettleJob(c)'
    <3>1. PICK l \in DOMAIN jobs : jobs[l].kind = "settle" /\ jobs[l].call = c /\ ~jobs[l].done
        BY <2>2 DEF SettleJob
    <3>2. PICK j \in DOMAIN rest : rest[j] = jobs[l]
        BY <1>1, <3>1
    <3>3. j \in DOMAIN jobs' /\ jobs'[j] = jobs[l]
        BY <1>4, <3>2
    <3> QED
        BY <3>1, <3>3 DEF SettleJob
  <2> QED
      BY <2>1, <2>2
<1>6. ASSUME \E j \in DOMAIN jobs : ~jobs[j].done
      PROVE  /\ \E j \in DOMAIN jobs' : ~jobs'[j].done
             /\ \A k : FirstUndone(jobs', k) =>
                   /\ Old(k, i) \in DOMAIN jobs /\ jobs'[k] = jobs[Old(k, i)]
                   /\ FirstUndone(jobs, Old(k, i))
  <2>1. PICK l \in DOMAIN jobs : ~jobs[l].done
      BY <1>6
  <2>2. PICK j \in DOMAIN rest : rest[j] = jobs[l]
      BY <1>1, <2>1
  <2>3. j \in DOMAIN jobs' /\ ~jobs'[j].done
      BY <1>4, <2>1, <2>2
  <2>4. ASSUME NEW k, FirstUndone(jobs', k)
        PROVE  /\ Old(k, i) \in DOMAIN jobs /\ jobs'[k] = jobs[Old(k, i)]
               /\ FirstUndone(jobs, Old(k, i))
    <3>1. k \in DOMAIN jobs' /\ ~jobs'[k].done /\ \A m \in 1..(k - 1) : jobs'[m].done
        BY <2>4 DEF FirstUndone
    <3>a. k \in Nat \ {0} /\ j \in Nat \ {0} /\ j <= Len(rest)
      <4>1. k \in 1..Len(jobs') /\ j \in 1..Len(rest)
          BY <1>3, <1>4, <2>2, <3>1
      <4>2. Len(jobs') \in Nat /\ Len(rest) \in Nat
          BY <1>3, <1>4
      <4> QED
          BY <4>1, <4>2
    <3>2. k <= j
      <4>1. CASE k > j
        <5>1. j \in 1..(k - 1)
            BY <3>a, <4>1
        <5> QED
            BY <2>3, <3>1, <5>1
      <4> QED
          BY <3>a, <4>1
    <3>3. k \in DOMAIN rest /\ \A m \in 1..(k - 1) : m \in DOMAIN rest
        BY <1>3, <3>a, <3>2
    <3>4. FirstUndone(rest, k)
        BY <1>4, <3>1, <3>3 DEF FirstUndone
    <3> QED
        BY <1>1, <1>4, <3>3, <3>4
  <2> QED
      BY <2>3, <2>4
<1> QED
    BY <1>4, <1>5, <1>6

LEMMA CallbackHolds == ASSUME IInv, NEW i \in DOMAIN jobs, Callback(i) PROVE IInv'
<1>0. TypeOK
    BY DEF IInv
<1>f. PICK rest : rest = Without(jobs, i)
    OBVIOUS
<1>1. /\ jobs[i].done /\ UNCHANGED <<turn, worker, file, queue, t3>>
      /\ \/ jobs[i].kind \in {"accept", "validate"} /\ StartCall(rest, jobs[i].kind = "validate")
         \/ /\ jobs' = IF jobs[i].kind = "reserved" THEN Append(rest, Job("validate", 0)) ELSE rest
            /\ UNCHANGED <<service, voices, calls, op, count>>
         \/ jobs' = rest /\ UNCHANGED <<service, voices, calls, op, count>>
    BY <1>f DEF Callback, Without
<1>2. \/ jobs' = rest
      \/ jobs' = Append(rest, Job("validate", 0)) /\ jobs[i].kind = "reserved"
    BY <1>1 DEF StartCall
<1>3. /\ JobsOK'
      /\ \A j \in DOMAIN jobs' :
            \/ j \in DOMAIN rest /\ jobs'[j] = rest[j]
            \/ jobs'[j] = Job("validate", 0) /\ jobs[i].kind = "reserved" /\ j = Len(rest) + 1
      /\ \A j \in DOMAIN rest : j \in DOMAIN jobs' /\ jobs'[j] = rest[j]
      /\ \A c : SettleJob(c)' <=> SettleJob(c)
    BY <1>1, <1>2, <1>f, CalledBackFacts
<1>4. (\E j \in DOMAIN jobs : ~jobs[j].done) =>
         /\ \E j \in DOMAIN jobs' : ~jobs'[j].done
         /\ \A k : FirstUndone(jobs', k) =>
               /\ Old(k, i) \in DOMAIN jobs /\ jobs'[k] = jobs[Old(k, i)]
               /\ FirstUndone(jobs, Old(k, i))
    BY <1>1, <1>2, <1>f, CalledBackFacts
<1>5. /\ \A j \in DOMAIN rest : Old(j, i) \in DOMAIN jobs /\ Old(j, i) # i /\ rest[j] = jobs[Old(j, i)]
      /\ \A j, l \in DOMAIN rest : Old(j, i) = Old(l, i) => j = l
      /\ \A l \in DOMAIN jobs : l # i => \E j \in DOMAIN rest : rest[j] = jobs[l]
    BY <1>0, <1>1, <1>f, StayFacts
<1>6. Job("validate", 0).kind = "validate"
    BY DEF Job
<1>7. jobs[i].kind \in Starts => ~InCall /\ \A j \in DOMAIN rest : rest[j].kind \notin Starts
    BY <1>5 DEF IInv, JobsInv
<1>8. op.attempt => op'.attempt
    BY <1>0, <1>1 DEF StartCall, TypeOK, OpType
\* The jobs, with and without a call that starts.
<1>9. /\ \A j, l \in DOMAIN jobs' : jobs'[j].kind \in Starts /\ jobs'[l].kind \in Starts => j = l
      /\ InCall \/ (jobs[i].kind \in {"accept", "validate"} /\ jobs' = rest) =>
            \A j \in DOMAIN jobs' : jobs'[j].kind \notin Starts
      /\ \A j \in DOMAIN jobs' : jobs'[j].kind = "settle" => jobs'[j].call # 0
      /\ \A j \in DOMAIN jobs' : jobs'[j].kind \in {"finish", "reserved", "validate"} => op'.attempt
  <2>1. ASSUME NEW j \in DOMAIN jobs', NEW l \in DOMAIN jobs',
               jobs'[j].kind \in Starts, jobs'[l].kind \in Starts
        PROVE  j = l
    <3>1. CASE j \in DOMAIN rest /\ l \in DOMAIN rest
      <4>1. jobs[Old(j, i)].kind \in Starts /\ jobs[Old(l, i)].kind \in Starts
          BY <1>3, <1>5, <2>1, <3>1
      <4>2. Old(j, i) = Old(l, i)
          BY <1>5, <3>1, <4>1 DEF IInv, JobsInv
      <4> QED
          BY <1>5, <3>1, <4>2
    <3>2. CASE jobs[i].kind = "reserved"
      <4>1. \A m \in DOMAIN rest : rest[m].kind \notin Starts
          BY <1>7, <3>2 DEF Starts
      <4>2. j \notin DOMAIN rest /\ l \notin DOMAIN rest
          BY <1>3, <2>1, <4>1
      <4> QED
          BY <1>3, <4>2
    <3> QED
        BY <1>3, <3>1, <3>2
  <2>2. ASSUME InCall \/ (jobs[i].kind \in {"accept", "validate"} /\ jobs' = rest), NEW j \in DOMAIN jobs'
        PROVE  jobs'[j].kind \notin Starts
    <3>1. CASE InCall
      <4>1. jobs[i].kind \notin Starts
          BY <3>1 DEF IInv, JobsInv
      <4>2. jobs[i].kind # "reserved"
          BY <4>1 DEF Starts
      <4>3. Old(j, i) \in DOMAIN jobs /\ jobs'[j] = jobs[Old(j, i)]
          BY <1>3, <1>5, <4>2
      <4> QED
          BY <3>1, <4>3 DEF IInv, JobsInv
    <3>2. CASE jobs[i].kind \in {"accept", "validate"} /\ jobs' = rest
        BY <1>3, <1>7, <3>2 DEF Starts
    <3> QED
        BY <2>2, <3>1, <3>2
  <2>3. ASSUME NEW j \in DOMAIN jobs'
        PROVE  /\ jobs'[j].kind = "settle" => jobs'[j].call # 0
               /\ jobs'[j].kind \in {"finish", "reserved", "validate"} => op'.attempt
    <3>1. CASE j \in DOMAIN rest
      <4>1. Old(j, i) \in DOMAIN jobs /\ jobs'[j] = jobs[Old(j, i)]
          BY <1>3, <1>5, <3>1
      <4> QED
          BY <1>8, <4>1 DEF IInv, JobsInv
    <3>2. CASE j \notin DOMAIN rest
      <4>1. jobs'[j].kind = "validate" /\ jobs[i].kind = "reserved"
          BY <1>3, <1>6, <3>2
      <4>2. op.attempt
          BY <4>1 DEF IInv, JobsInv
      <4> QED
          BY <1>8, <4>1, <4>2
    <3> QED
        BY <3>1, <3>2
  <2> QED
      BY <2>1, <2>2, <2>3
<1>a. worker.step \in Scanning => \E j \in DOMAIN jobs' : jobs'[j].kind = "scan" /\ ~jobs'[j].done
  <2> SUFFICES ASSUME worker.step \in Scanning
               PROVE  \E j \in DOMAIN jobs' : jobs'[j].kind = "scan" /\ ~jobs'[j].done
    OBVIOUS
  <2>1. PICK l \in DOMAIN jobs : jobs[l].kind = "scan" /\ ~jobs[l].done
      BY DEF IInv, WorkerInv
  <2>2. PICK j \in DOMAIN rest : rest[j] = jobs[l]
      BY <1>1, <1>5, <2>1
  <2> QED
      BY <1>3, <2>1, <2>2
<1>b. CASE UNCHANGED <<service, voices, calls, op, count>>
  <2>1. UNCHANGED <<service, voices, calls, op, count, turn, worker, file, queue, t3>>
      BY <1>1, <1>b
  <2>2. TypeOK'
      BY <1>0, <1>3, <2>1 DEF TypeOK, JobsOK
  <2>3. JobsInv'
    <3>1. InCall' <=> InCall
        BY <2>1 DEF InCall
    <3> QED
        BY <1>9, <3>1 DEF JobsInv
  <2>4. WorkerInv'
    <3>1. worker.step = "operations" =>
             \A k \in DOMAIN jobs' : FirstUndone(jobs', k) =>
                /\ jobs'[k].kind = "settle"
                /\ jobs'[k].call \in Indirect /\ voices[jobs'[k].call].coordinator =>
                      calls[jobs'[k].call].settle
        BY <1>4 DEF IInv, WorkerInv
    <3>2. worker.step = "operations" => \E j \in DOMAIN jobs' : ~jobs'[j].done
        BY <1>4 DEF IInv, WorkerInv
    <3> QED
        BY <1>a, <2>1, <3>1, <3>2 DEF IInv, WorkerInv, InTurn
  <2>5. TurnInv' /\ VoiceInv' /\ HistoryInv' /\ OpInv'
      BY <1>3, <2>1 DEF IInv, TurnInv, InTurn, VoiceInv, HistoryInv, OpInv, Owed, Quit
  <2>6. PastInv' /\ KnownInv' /\ QueueInv'
      BY <1>3, <2>1 DEF IInv, PastInv, KnownInv, QueueInv, Engaged
  <2> QED
      BY <2>2, <2>3, <2>4, <2>5, <2>6 DEF IInv
<1>c. ASSUME jobs[i].kind \in {"accept", "validate"}, StartCall(rest, jobs[i].kind = "validate")
      PROVE  IInv'
  <2>f. PICK d : d = count.calls + 1
      OBVIOUS
  <2>a. PICK about \in BOOLEAN : about = (jobs[i].kind = "validate")
      OBVIOUS
  <2>1. /\ ~InCall /\ d <= MaxCalls /\ count' = [count EXCEPT !.calls = d]
        /\ calls' = [calls EXCEPT ![d].state = "active"]
        /\ service' = [service EXCEPT !.session = d, !.writer = TRUE]
        /\ voices' = [voices EXCEPT ![d].op = about]
        /\ op' = IF about THEN [op EXCEPT !.call = d] ELSE op
        /\ jobs' = rest
      BY <1>c, <2>f, <2>a DEF StartCall
  <2>2. count.calls \in Nat /\ d \in Calls /\ d > count.calls /\ d # 0
      BY <1>0, <2>1, <2>f, Fields, Bounds DEF Calls
  <2>3. service.session = 0
      BY <2>1 DEF InCall
  <2>4. count' \in [calls : 0..MaxCalls, restarts : 0..MaxRestarts] /\ count'.calls = d
    <3>1. count \in [calls : 0..MaxCalls, restarts : 0..MaxRestarts]
        BY <1>0 DEF TypeOK
    <3>2. d \in 0..MaxCalls
        BY <2>2, Bounds DEF Calls
    <3> QED
        BY <2>1, <3>1, <3>2
  <2>5. /\ service' \in ServiceType /\ service'.session = d /\ service'.recovered = service.recovered
        /\ service'.main = service.main
      BY <1>0, <2>1, <2>2 DEF TypeOK, ServiceType
  <2>6. /\ voices' \in [Calls -> VoiceType]
        /\ \A c \in Calls : /\ c # d => voices'[c] = voices[c]
                            /\ voices'[c].coordinator <=> voices[c].coordinator
        /\ voices'[d].op <=> about
        /\ ~voices[d].coordinator
    <3>1. voices \in [Calls -> VoiceType] /\ voices[d] \in VoiceType /\ voices[d] = NoVoice
        BY <1>0, <2>2 DEF IInv, TypeOK, PastInv
    <3>2. voices'[d] = [voices[d] EXCEPT !.op = about] /\ \A c \in Calls : c # d => voices'[c] = voices[c]
        BY <2>1, <2>2, <3>1
    <3>3. /\ voices'[d] \in VoiceType /\ voices'[d].coordinator <=> voices[d].coordinator
        BY <3>1, <3>2 DEF VoiceType
    <3>4. voices'[d].op <=> about
        BY <3>1, <3>2 DEF VoiceType
    <3>5. voices'[d] \in VoiceType /\ (voices'[d].coordinator <=> voices[d].coordinator)
        BY <3>1, <3>2 DEF VoiceType
    <3>6. voices' \in [Calls -> VoiceType]
        BY <2>1, <3>1, <3>2, <3>5
    <3> QED
        BY <3>1, <3>2, <3>4, <3>5, <3>6 DEF NoVoice
  <2>7. /\ calls' \in [Indirect -> CallType]
        /\ \A c \in Indirect : /\ c # d => calls'[c] = calls[c]
                               /\ calls'[c].coordinator <=> calls[c].coordinator
                               /\ calls'[c].settle <=> calls[c].settle
        /\ d \in Indirect => calls'[d].state = "active"
    <3>1. ASSUME NEW c \in Indirect, c # d PROVE calls'[c] = calls[c]
        BY <1>0, <2>1, <3>1 DEF TypeOK
    <3>2. ASSUME d \in Indirect
          PROVE  /\ calls'[d] \in CallType /\ calls'[d].state = "active"
                 /\ calls'[d].coordinator <=> calls[d].coordinator
                 /\ calls'[d].settle <=> calls[d].settle
      <4>1. calls[d] \in CallType /\ calls'[d] = [calls[d] EXCEPT !.state = "active"]
          BY <1>0, <2>1, <3>2 DEF TypeOK
      <4> QED
          BY <4>1 DEF CallType
    <3>3. calls' \in [Indirect -> CallType]
        BY <1>0, <2>1, <3>1, <3>2 DEF TypeOK
    <3> QED
        BY <3>1, <3>2, <3>3
  <2>8. /\ op' \in OpType /\ op'.status = op.status
        /\ op'.attempt <=> op.attempt
        /\ op'.settle <=> op.settle
        /\ op'.first <=> op.first
        /\ op'.call = (IF about THEN d ELSE op.call)
      BY <1>0, <2>1, <2>2 DEF TypeOK, OpType
  <2>9. d \in Indirect => ~calls[d].coordinator /\ ~calls[d].settle
      BY <2>2 DEF IInv, PastInv
  <2>10. \A c \in Calls : /\ Engaged(c)' => c = d \/ Engaged(c)
                          /\ Owed(c) => Owed(c)'
                          /\ Owed(d)'
      BY <1>1, <1>3, <2>3, <2>5, Bounds DEF Engaged, Owed, Quit
  <2>11. TypeOK'
      BY <1>0, <1>1, <1>3, <2>4, <2>5, <2>6, <2>7, <2>8 DEF TypeOK, JobsOK
  <2>12. JobsInv'
      BY <1>9, <1>c, <2>1 DEF JobsInv
  <2>13. WorkerInv'
    <3>1. worker.step = "operations" =>
             \A k \in DOMAIN jobs' : FirstUndone(jobs', k) =>
                /\ jobs'[k].kind = "settle"
                /\ jobs'[k].call \in Indirect /\ voices'[jobs'[k].call].coordinator =>
                      calls'[jobs'[k].call].settle
      <4> SUFFICES ASSUME worker.step = "operations", NEW k \in DOMAIN jobs', FirstUndone(jobs', k)
                   PROVE  /\ jobs'[k].kind = "settle"
                          /\ jobs'[k].call \in Indirect /\ voices'[jobs'[k].call].coordinator =>
                                calls'[jobs'[k].call].settle
        OBVIOUS
      <4>1. \E j \in DOMAIN jobs : ~jobs[j].done
          BY DEF IInv, WorkerInv
      <4>2. PICK l \in DOMAIN jobs : jobs'[k] = jobs[l] /\ FirstUndone(jobs, l)
          BY <1>4, <4>1
      <4>3. /\ jobs[l].kind = "settle"
            /\ jobs[l].call \in Indirect /\ voices[jobs[l].call].coordinator => calls[jobs[l].call].settle
          BY <4>2 DEF IInv, WorkerInv
      <4> QED
          BY <2>6, <2>7, <4>2, <4>3, Bounds
    <3>2. worker.step = "operations" => \E j \in DOMAIN jobs' : ~jobs'[j].done
        BY <1>4 DEF IInv, WorkerInv
    <3>3. worker.step = "candidates" =>
             ~service'.recovered /\ \A c \in worker.left : c \in Indirect /\ calls'[c].coordinator
        BY <2>5, <2>7 DEF IInv, WorkerInv
    <3> QED
        BY <1>1, <1>a, <3>1, <3>2, <3>3 DEF IInv, WorkerInv, InTurn
  <2>14. TurnInv'
      BY <1>0, <1>1, <2>10, Fields DEF IInv, TurnInv, InTurn
  <2>15. PastInv'
    <3>1. \A c \in Calls : c > d => c # d /\ c > count.calls
        BY <2>2, Bounds DEF Calls
    <3>2. \A c \in Calls : c <= count.calls => c <= d
        BY <2>2, Bounds DEF Calls
    <3>3. \A c \in Calls : Engaged(c)' => c <= d
        BY <2>2, <2>10, <3>2 DEF IInv, PastInv, Calls
    <3> QED
        BY <1>1, <2>4, <2>6, <2>7, <3>1, <3>3, Bounds DEF IInv, PastInv
  <2>16. KnownInv'
    <3>1. ASSUME NEW c \in Indirect, Engaged(c)'
          PROVE  /\ calls'[c].state # "none"
                 /\ calls'[c].coordinator \/ calls'[c].settle => voices'[c].coordinator
      <4>1. CASE c = d
          BY <2>7, <2>9, <4>1
      <4>2. CASE c # d
          BY <2>6, <2>7, <2>10, <3>1, <4>2, Bounds DEF IInv, KnownInv
      <4> QED
          BY <4>1, <4>2
    <3>2. ASSUME NEW c \in Indirect
          PROVE  /\ calls'[c].state = "active" => service'.session = c
                 /\ calls'[c].state = "none" => ~calls'[c].coordinator
                 /\ file'[c].state = "none" => ~file'[c].coordinator
                 /\ file'[c].settle => calls'[c].settle
      <4>1. c # 0
          BY Bounds
      <4> QED
          BY <1>1, <2>3, <2>5, <2>7, <4>1 DEF IInv, KnownInv
    <3> QED
        BY <3>1, <3>2 DEF KnownInv
  <2>17. VoiceInv'
      BY <2>6, <2>7, <2>10, Bounds DEF IInv, VoiceInv
  <2>18. HistoryInv'
      BY <1>1, <2>5, <2>7, <2>10, Bounds DEF IInv, HistoryInv
  <2>19. QueueInv'
      BY <1>1, <2>7 DEF IInv, QueueInv
  <2>20. OpInv'
    <3>1. CASE about
      <4>1. op.attempt
          BY <2>a, <3>1 DEF IInv, JobsInv
      <4>2. op'.call = d /\ voices'[d].op /\ Owed(d)'
          BY <2>2, <2>6, <2>8, <2>10, <3>1
      <4>3. Owed(op.call)' /\ voices'[op'.call].op
          BY <4>2
      <4> QED
          BY <2>8, <4>1, <4>3 DEF IInv, OpInv
    <3>2. CASE ~about
      <4>1. op'.call = op.call
          BY <2>8, <3>2
      <4>2. op.call # 0 => op.call \in Calls
          BY <1>0, Fields
      <4>3. op.call # 0 /\ voices[op.call].op => op.call # d
        <5>1. voices[d] = NoVoice
            BY <2>2 DEF IInv, PastInv
        <5> QED
            BY <5>1 DEF NoVoice
      <4> QED
          BY <1>1, <2>5, <2>6, <2>8, <2>10, <4>1, <4>2, <4>3 DEF IInv, OpInv, Quit
    <3> QED
        BY <3>1, <3>2
  <2> QED
      BY <2>11, <2>12, <2>13, <2>14, <2>15, <2>16, <2>17, <2>18, <2>19, <2>20 DEF IInv
<1> QED
    BY <1>1, <1>b, <1>c

-----------------------------------------------------------------------------
(* Theorems.                                                                   *)

LEMMA MainHolds == ASSUME IInv, MainNext PROVE IInv'
<1>1. ASSUME NEW i \in DOMAIN jobs, Callback(i) PROVE IInv'
    BY <1>1, CallbackHolds
<1>2. ASSUME NEW detached \in BOOLEAN, NEW confirmed \in BOOLEAN, EndCall(detached, confirmed) PROVE IInv'
    BY <1>2, EndCallHolds
<1> QED
    BY <1>1, <1>2, SubmitScanHolds, SubmitAcceptHolds, SubmitOtherHolds DEF MainNext

LEMMA TurnHolds == ASSUME IInv, TurnNext PROVE IInv'
BY TurnBeginsHolds, CreateHolds, SelectHolds, OperationTurnHolds, UnlocksHolds,
   RemembersHolds DEF TurnNext

LEMMA WorkerHolds == ASSUME IInv, WorkerNext PROVE IInv'
<1>1. ASSUME NEW c \in Indirect, ScanCandidate(c) PROVE IInv'
    BY <1>1, CandidateHolds
<1>2. ASSUME NEW due \in SUBSET Threads, ScanSettles(due) PROVE IInv'
    BY <1>2, SettlesHolds
<1>3. ASSUME NEW k \in Threads, NEW result \in SettleTerminal \cup {"busy", "unconfirmed"},
             SettleCoordinator(k, result)
      PROVE  IInv'
    BY <1>3, SettleCoordinatorHolds
<1> QED
    BY <1>1, <1>2, <1>3, PlainHolds, OtherHolds, StatusHolds, OperationsHolds, FinishHolds,
       FailsHolds,
       RefreshesHolds, RecoverHolds, RecoveredHolds, EndsHolds DEF WorkerNext

LEMMA NextHolds == IInv /\ [Next]_vars => IInv'
<1> SUFFICES ASSUME IInv, [Next]_vars PROVE IInv'
  OBVIOUS
<1>1. CASE UNCHANGED vars
    BY <1>1, StutterHolds
<1> QED
    BY <1>1, MainHolds, TurnHolds, WorkerHolds, ExitHolds, CrashHolds, FlushHolds DEF Next,
       Environment

THEOREM Invariance == Spec => []IInv
BY InitHolds, NextHolds, PTL DEF Spec

\* Every variable keeps its type and the queue of jobs its limit, for any number of calls,
\* restarts and jobs (service.py:403).
THEOREM TypeCorrect == Spec => []TypeOK
<1>1. IInv => TypeOK
    BY DEF IInv
<1> QED
    BY <1>1, Invariance, PTL

\* No thread is settled while a call is on (conversations.py:97): a scan is on its way only
\* between calls, and what leads to a call waits until it is done.
THEOREM SettledBetweenCalls == Spec => []NeverDuringCall
<1>1. IInv => NeverDuringCall
    BY DEF IInv, WorkerInv, Scanning, JobsInv, Starts, NeverDuringCall
<1> QED
    BY <1>1, Invariance, PTL

\* The coordinators of a call that is over are not forgotten, whatever full queues, exits
\* and crashes come between (docs/telegram-service.md:27).
THEOREM NothingForgotten == Spec => []NotForgotten
<1>1. ASSUME IInv PROVE NotForgotten
  <2>1. \A c \in Calls : Owed(c) => Ahead(c)
      BY DEF Owed, Quit, SettleJob, Ahead
  <2>2. \A c \in Indirect : calls[c].coordinator /\ ~calls[c].settle => Ahead(c)
      BY <1>1, <2>1, Bounds DEF IInv, HistoryInv, Ahead
  <2>3. \A c \in Indirect : calls[c].settle => queue[c] # "none" \/ t3[c] = "inactive"
      BY <1>1 DEF IInv, QueueInv
  <2>4. op.attempt /\ op.call # 0 /\ ~op.settle /\ op.status = "open" => Ahead(op.call)
      BY <1>1, <2>1, Fields DEF IInv, OpInv, Quit, Ahead
  <2> QED
      BY <2>2, <2>3, <2>4 DEF NotForgotten
<1>2. IInv => NotForgotten
    BY <1>1
<1> QED
    BY <1>2, Invariance, PTL
=============================================================================
