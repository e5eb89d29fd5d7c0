---------------------------- MODULE LiveVoice_proofs ----------------------------
(* Proofs about the speech session of a call: its types, that a request to hang up *)
(* is decided in time, and that the goodbye is not cut off.                         *)
EXTENDS LiveVoice, CallMedia, FiniteSetTheorems, SequenceTheorems, TLAPS

S == HANGUP_SILENCE
L == GOODBYE_LIMIT
T == GOODBYE_TAIL

LEMMA Times == /\ S \in Nat \ {0} /\ L \in Nat \ {0} /\ T \in Nat \ {0}
               /\ SEGMENT_GAP \in Nat \ {0} /\ AUDIO_IDLE \in Nat \ {0}
               /\ WAIT_TONE_QUIET \in Nat \ {0} /\ LOOSE_LIMIT \in Nat \ {0}
               /\ LOOSE_LIMIT <= L
               /\ OutputLimit \in Nat \ {0} /\ QueueLimit \in Nat \ {0} /\ SeenLimit \in Nat \ {0}
  BY TimesAssumption, LimitsAssumption DEF S, L, T

LEMMA Bounds == /\ MaxAge \in Nat /\ MaxAge = L + T + 1
                /\ MaxQuiet \in Nat /\ MaxSilence \in Nat
                /\ StrictLimit \in Nat /\ StrictLimit = S + 2 * L + T
  BY Times DEF MaxAge, MaxQuiet, MaxSilence, StrictLimit, S, L, T

-----------------------------------------------------------------------------
(* The parts of the inductive invariant.  Those about a request are stated of any *)
(* h, for the steps of one iteration of the loop.                                 *)

\* No request, no age; a request is armed at its limit at the latest, and the call is
\* hung up T later.
InTime(h) ==
    /\ h.mode = "none" => h.age = 0 /\ ~h.armed
    /\ h.mode # "none" /\ ~h.armed => h.age <= L
    /\ h.armed => h.age + h.left <= L + T

\* Nothing of the model's audio waits when its end is set, and none came before it began.
NothingWaits(h) ==
    /\ h.armed /\ ~h.late /\ h.age < L => NoNewAudio
    /\ h.mode # "none" /\ ~h.began => NoNewAudio

\* The age of a clear request: waiting for the end of another, waiting for the pause, and
\* followed.
StrictInTime ==
    talk.words = "strict" =>
       /\ ~talk.judged /\ Following => talk.age <= hangup.age
       /\ ~talk.judged /\ ~Following => talk.age <= S + L
       /\ talk.judged => /\ hangup.mode = "strict" /\ ~hangup.withdrawn
                         /\ talk.age <= S + L + hangup.age

\* Audio is new only after an answer; a lost chunk ends the session.
AudioKnown ==
    /\ ~Following /\ ~talk.answered => NoNewAudio
    /\ output.lost => run = "hung_up" \/ (run = "broken" /\ output.quiet = 0)
    /\ run = "hung_up" => hangup.armed /\ (hangup.late => hangup.age >= L)

IInv == TypeOK /\ InTime(hangup) /\ NothingWaits(hangup) /\ StrictInTime /\ AudioKnown

\* The invariant gives the two properties.
LEMMA IInvImplies == IInv => HangUpBounded /\ GoodbyeNotCut
<1> SUFFICES ASSUME IInv PROVE HangUpBounded /\ GoodbyeNotCut
  OBVIOUS
<1>1. hangup \in HangupType /\ talk \in TalkType
  BY DEF IInv, TypeOK
<1>2. hangup.age \in Nat /\ hangup.left \in Nat /\ talk.age \in Nat /\ hangup.armed \in BOOLEAN
  BY <1>1 DEF HangupType, TalkType, Words
<1>3. hangup.age <= L + T
  BY <1>2, Times DEF IInv, InTime
<1>4. talk.words = "strict" => talk.age <= S + 2 * L + T
  BY <1>2, <1>3, Times DEF IInv, StrictInTime
<1>5. HangUpBounded
  BY <1>3, <1>4, Bounds DEF HangUpBounded, L, T
<1>6. GoodbyeNotCut
  BY <1>2, Times DEF IInv, AudioKnown, NothingWaits, GoodbyeNotCut, L
<1> QED BY <1>5, <1>6

-----------------------------------------------------------------------------
(* The steps outside the loop.                                                 *)

LEMMA InitHolds == Init => IInv
<1> SUFFICES ASSUME Init PROVE IInv
  OBVIOUS
<1>1. NoTalk \in TalkType /\ NoHangup \in HangupType /\ NoOutput \in OutputType /\ NoWork \in WorkType
  BY Times DEF NoTalk, NoHangup, NoOutput, NoWork, TalkType, Words, HangupType, OutputType,
     WorkType, Chunks
<1>2. TypeOK
  BY <1>1, Times DEF Init, TypeOK, ContextType, NoOutput
<1>3. NoNewAudio
  BY DEF Init, NoOutput, NoNewAudio
<1> QED
  BY <1>2, <1>3, Times DEF Init, IInv, InTime, NothingWaits, StrictInTime, AudioKnown, NoHangup,
     NoTalk, NoOutput, Following

\* What ends the session without a hang-up leaves nothing behind.
LEMMA LeaveHolds ==
  ASSUME TypeOK, NEW how \in {"failed", "time_limit", "stopped"}, Leave(how), context' \in ContextType
  PROVE  IInv'
<1>1. NoTalk \in TalkType /\ NoHangup \in HangupType /\ NoOutput \in OutputType /\ NoWork \in WorkType
  BY Times DEF NoTalk, NoHangup, NoOutput, NoWork, TalkType, Words, HangupType, OutputType,
     WorkType, Chunks
<1>2. TypeOK'
  BY <1>1, Times DEF Leave, TypeOK, NoOutput, Ended
<1>3. NoNewAudio'
  BY DEF Leave, NoOutput, NoNewAudio
<1> QED
  BY <1>2, <1>3, Times DEF Leave, IInv, InTime, NothingWaits, StrictInTime, AudioKnown, NoHangup,
     NoTalk, NoOutput, Following

\* Steps that concern none of the audio, the words and the request.
LEMMA OthersHold ==
  ASSUME IInv, UNCHANGED <<talk, hangup, output>>, run # "hung_up",
         \/ run' = run \/ (run = "connecting" /\ run' = "on") \/ run' = "broken",
         TypeOK'
  PROVE  IInv'
<1>1. run' # "hung_up"
  OBVIOUS
<1>2. output.lost => run' = "broken" /\ output.quiet = 0
  BY DEF IInv, AudioKnown
<1>3. NoNewAudio' = NoNewAudio
  BY DEF NoNewAudio
<1> QED
  BY <1>1, <1>2, <1>3 DEF IInv, InTime, NothingWaits, StrictInTime, AudioKnown, Following

LEMMA OpenHolds ==
  ASSUME IInv, ExtendInstructions \/ SendStart \/ ReceiveStarted \/ ServiceFails
  PROVE  IInv'
<1>1. TypeOK'
  BY DEF IInv, ExtendInstructions, SendStart, ReceiveStarted, ServiceFails, TypeOK, ContextType,
     locals, Live
<1>2. run # "hung_up" /\ UNCHANGED <<talk, hangup, output>>
  BY DEF ExtendInstructions, SendStart, ReceiveStarted, ServiceFails, locals
<1> QED
  BY <1>1, <1>2, OthersHold DEF ExtendInstructions, SendStart, ReceiveStarted, ServiceFails,
     locals

LEMMA WorkHolds ==
  ASSUME IInv, Delegate \/ TakeDelegation \/ AnswerDelegation
  PROVE  IInv'
<1>1. work' \in WorkType
  <2>1. work \in WorkType
    BY DEF IInv, TypeOK
  <2>a. /\ work.asked \in Nat /\ work.asked <= SeenLimit /\ work.queued \in Nat
        /\ work.queued <= QueueLimit /\ work.waiting \in BOOLEAN
    BY <2>1, Times DEF WorkType
  <2>2. CASE Delegate
    <3>1. CASE work.asked < SeenLimit /\ work.queued < QueueLimit
      <4>1. work' = [work EXCEPT !.asked = @ + 1, !.queued = @ + 1]
        BY <2>2, <3>1 DEF Delegate
      <4>2. work.asked + 1 \in 0..SeenLimit /\ work.queued + 1 \in 0..QueueLimit
        BY <2>a, <3>1, Times
      <4> QED BY <2>1, <4>1, <4>2 DEF WorkType
    <3>2. CASE ~(work.asked < SeenLimit /\ work.queued < QueueLimit)
      BY <2>1, <2>2, <3>2 DEF Delegate
    <3> QED BY <3>1, <3>2
  <2>3. CASE TakeDelegation
    <3>1. work.queued - 1 \in 0..QueueLimit
      BY <2>a, <2>3, Times DEF TakeDelegation
    <3> QED BY <2>1, <2>3, <3>1 DEF TakeDelegation, WorkType
  <2>4. CASE AnswerDelegation
    BY <2>1, <2>4, Times DEF AnswerDelegation, WorkType
  <2> QED BY <2>2, <2>3, <2>4
<1>2. TypeOK' /\ run = "on"
  BY <1>1 DEF IInv, Delegate, TakeDelegation, AnswerDelegation, TypeOK, Live, Receives
<1> QED
  BY <1>2, OthersHold DEF Delegate, TakeDelegation, AnswerDelegation

LEMMA EndHolds ==
  ASSUME IInv, StartFails \/ TimeLimit \/ Close
  PROVE  IInv'
  BY LeaveHolds DEF IInv, TypeOK, StartFails, TimeLimit, Close

-----------------------------------------------------------------------------
(* Words and audio.                                                             *)

LEMMA AgedFacts ==
  ASSUME NEW o \in OutputType
  PROVE  /\ Aged(o) \in OutputType
         /\ Aged(o).quiet = o.quiet /\ Aged(o).lost = o.lost
         /\ Len(Aged(o).queue) = Len(o.queue)
         /\ Aged(o).playing # "new"
         /\ \A i \in DOMAIN Aged(o).queue : Aged(o).queue[i] # "new"
<1> DEFINE Old(chunk) == IF chunk = "new" THEN "old" ELSE chunk
           q == [i \in DOMAIN o.queue |-> Old(o.queue[i])]
<1>1. o.queue \in Seq(Chunks) /\ o.playing \in Chunks \cup {"none"}
  BY DEF OutputType
<1>2. \A i \in DOMAIN o.queue : o.queue[i] \in Chunks
  BY <1>1
<1>3. DOMAIN o.queue = 1..Len(o.queue) /\ Len(o.queue) \in Nat
  BY <1>1
<1>4. \A i \in DOMAIN o.queue : q[i] \in Chunks /\ q[i] # "new"
  BY <1>2 DEF Chunks
<1>5. q \in Seq(Chunks) /\ Len(q) = Len(o.queue) /\ DOMAIN q = DOMAIN o.queue
  <2>1. q \in [1..Len(o.queue) -> Chunks]
    BY <1>3, <1>4
  <2> HIDE DEF q
  <2>2. q \in Seq(Chunks)
    BY <1>3, <2>1, SeqDef
  <2> QED BY <1>3, <2>1, <2>2, LenProperties
<1>6. Aged(o) = [o EXCEPT !.queue = q, !.playing = Old(o.playing)]
  BY DEF Aged
<1>7. Old(o.playing) \in Chunks \cup {"none"} /\ Old(o.playing) # "new"
  BY <1>1 DEF Chunks
<1>8. Aged(o) = [queue |-> q, playing |-> Old(o.playing), quiet |-> o.quiet, lost |-> o.lost]
  BY <1>6 DEF OutputType
<1> HIDE DEF q, Old
<1> QED
  BY <1>4, <1>5, <1>7, <1>8 DEF OutputType

LEMMA HearCallerHolds ==
  ASSUME IInv, NEW words \in Words, NEW withdraws \in BOOLEAN,
         HearCaller(words, withdraws)
  PROVE  IInv'
<1>1. talk \in TalkType /\ hangup \in HangupType /\ output \in OutputType /\ run = "on"
  BY DEF IInv, TypeOK, HearCaller, Receives
<1>2. talk' \in TalkType /\ talk'.age = 0 /\ talk'.judged = FALSE /\ talk'.answered = FALSE
  BY <1>1 DEF HearCaller, TalkType, Words
<1>3. ~output.lost
  BY <1>1 DEF IInv, AudioKnown
<1>4. CASE Following
  <2>1. hangup' = [hangup EXCEPT !.withdrawn = withdraws] /\ output' = output
    BY <1>4 DEF HearCaller
  <2>2. /\ hangup' \in HangupType /\ Following'
        /\ \A f \in {"mode", "age", "armed", "left", "late", "began"} : hangup'[f] = hangup[f]
    BY <1>1, <1>4, <2>1 DEF HangupType, Following
  <2>3. NoNewAudio' = NoNewAudio
    BY <2>1 DEF NoNewAudio
  <2>4. TypeOK'
    BY <1>2, <2>1, <2>2 DEF IInv, TypeOK, HearCaller
  <2>5. InTime(hangup)' /\ NothingWaits(hangup)'
    BY <2>2, <2>3 DEF IInv, InTime, NothingWaits
  <2>6. StrictInTime'
    BY <1>2, <2>2, <2>4 DEF StrictInTime, TypeOK, HangupType
  <2>7. AudioKnown'
    BY <1>1, <1>3, <2>1, <2>2 DEF AudioKnown, HearCaller
  <2> QED BY <2>4, <2>5, <2>6, <2>7 DEF IInv
<1>5. CASE ~Following
  <2>1. hangup' = hangup /\ output' = Aged(output) /\ ~Following'
    BY <1>5 DEF HearCaller, Following
  <2>2. NoNewAudio'
    BY <1>1, <1>3, <2>1, AgedFacts DEF NoNewAudio
  <2>3. TypeOK'
    BY <1>1, <1>2, <2>1, AgedFacts DEF IInv, TypeOK, HearCaller
  <2>4. InTime(hangup)' /\ NothingWaits(hangup)'
    BY <2>1, <2>2 DEF IInv, InTime, NothingWaits
  <2>5. StrictInTime'
    BY <1>2, <2>1, Times DEF StrictInTime
  <2>6. AudioKnown'
    BY <1>1, <1>3, <2>1, <2>2, AgedFacts DEF AudioKnown, HearCaller
  <2> QED BY <2>2, <2>3, <2>4, <2>5, <2>6 DEF IInv
<1> QED BY <1>4, <1>5

LEMMA HearModelHolds ==
  ASSUME IInv, NEW farewell \in BOOLEAN, HearModel(farewell)
  PROVE  IInv'
<1>1. talk \in TalkType /\ hangup \in HangupType /\ run = "on"
  BY DEF IInv, TypeOK, HearModel, Receives
<1>2. talk' = [talk EXCEPT !.farewell = farewell] /\ UNCHANGED <<run, context, output, work>>
  BY DEF HearModel
<1>3. talk' \in TalkType /\ \A f \in {"words", "age", "judged", "answered"} : talk'[f] = talk[f]
  BY <1>1, <1>2 DEF TalkType, Words
<1>4. /\ hangup' \in HangupType
      /\ \A f \in {"mode", "age", "armed", "left", "late", "began", "withdrawn"} : hangup'[f] = hangup[f]
  <2>1. CASE Following
    <3>1. hangup' = [hangup EXCEPT !.farewell = farewell]
      BY <2>1 DEF HearModel
    <3> QED BY <1>1, <3>1 DEF HangupType
  <2>2. CASE ~Following
    BY <1>1, <2>2 DEF HearModel
  <2> QED BY <2>1, <2>2
<1>5. NoNewAudio' = NoNewAudio
  BY <1>2 DEF NoNewAudio
<1>6. TypeOK'
  BY <1>2, <1>3, <1>4 DEF IInv, TypeOK
<1>7. InTime(hangup)' /\ NothingWaits(hangup)'
  BY <1>4, <1>5 DEF IInv, InTime, NothingWaits
<1>8. StrictInTime'
  BY <1>3, <1>4 DEF IInv, StrictInTime, Following
<1>9. AudioKnown'
  BY <1>1, <1>2, <1>3, <1>4, <1>5 DEF IInv, AudioKnown, Following
<1> QED BY <1>6, <1>7, <1>8, <1>9 DEF IInv

\* A request hears of audio: it began, and if its end was set it is late.
LEMMA ReceiveAudioHolds == ASSUME IInv, ReceiveAudio PROVE IInv'
<1>1. talk \in TalkType /\ hangup \in HangupType /\ output \in OutputType /\ run = "on"
  BY DEF IInv, TypeOK, ReceiveAudio, Receives
<1>2. /\ talk' \in TalkType /\ talk'.answered
      /\ \A f \in {"words", "age", "judged"} : talk'[f] = talk[f]
  BY <1>1 DEF ReceiveAudio, Answered, TalkType, Words
<1>3. /\ hangup' \in HangupType
      /\ \A f \in {"mode", "age", "armed", "left", "withdrawn"} : hangup'[f] = hangup[f]
      /\ Following => hangup'.began /\ hangup'.late = hangup.armed
  <2>1. CASE Following
    <3>1. hangup' = [hangup EXCEPT !.began = TRUE, !.late = hangup.armed]
      BY <2>1 DEF ReceiveAudio
    <3> QED BY <1>1, <3>1 DEF HangupType
  <2>2. CASE ~Following
    BY <1>1, <2>2 DEF ReceiveAudio
  <2> QED BY <2>1, <2>2
<1>4. /\ output' \in OutputType /\ Len(output'.queue) <= OutputLimit
      /\ run' = "on" \/ run' = "broken"
      /\ output'.lost => run' = "broken" /\ output'.quiet = 0
  <2>1. /\ output.queue \in Seq(Chunks) /\ Len(output.queue) \in Nat
        /\ Len(output.queue) <= OutputLimit /\ ~output.lost
    BY <1>1 DEF IInv, TypeOK, OutputType, AudioKnown
  <2>2. CASE Len(output.queue) < OutputLimit
    <3>1. output' = [output EXCEPT !.queue = Append(@, "new"), !.quiet = 0] /\ run' = run
      BY <2>2 DEF ReceiveAudio
    <3>2. /\ Append(output.queue, "new") \in Seq(Chunks)
          /\ Len(Append(output.queue, "new")) <= OutputLimit
      BY <2>1, <2>2, Times DEF Chunks
    <3> QED BY <1>1, <2>1, <3>1, <3>2 DEF OutputType
  <2>3. CASE ~(Len(output.queue) < OutputLimit)
    <3>1. output' = [output EXCEPT !.quiet = 0, !.lost = TRUE] /\ run' = "broken"
      BY <2>3 DEF ReceiveAudio
    <3> QED BY <1>1, <2>1, <3>1 DEF OutputType
  <2> QED BY <2>2, <2>3
<1>5. TypeOK'
  BY <1>2, <1>3, <1>4 DEF IInv, TypeOK, ReceiveAudio, Live
<1>6. InTime(hangup)' /\ NothingWaits(hangup)'
  BY <1>1, <1>3 DEF IInv, InTime, NothingWaits, Following, HangupType
<1>7. StrictInTime'
  BY <1>2, <1>3 DEF IInv, StrictInTime, Following
<1>8. AudioKnown'
  BY <1>2, <1>4 DEF AudioKnown
<1> QED BY <1>5, <1>6, <1>7, <1>8 DEF IInv

-----------------------------------------------------------------------------
(* The player.                                                                  *)

LEMMA PlayChunkHolds == ASSUME IInv, PlayChunk PROVE IInv'
<1>1. output \in OutputType /\ run = "on" /\ output.queue # <<>> /\ output.queue \in Seq(Chunks)
  BY DEF IInv, TypeOK, PlayChunk, OutputType
<1>2. output' = [output EXCEPT !.playing = Head(output.queue), !.queue = Tail(@)]
  BY DEF PlayChunk
<1>3. /\ Tail(output.queue) \in Seq(Chunks) /\ Len(Tail(output.queue)) = Len(output.queue) - 1
      /\ Head(output.queue) \in Chunks /\ Head(output.queue) = output.queue[1]
      /\ Len(output.queue) \in Nat \ {0}
      /\ \A i \in 1..Len(Tail(output.queue)) : Tail(output.queue)[i] = output.queue[i + 1]
  BY <1>1
<1>4. /\ output' \in OutputType /\ output'.queue = Tail(output.queue)
      /\ output'.playing = Head(output.queue) /\ output'.lost = output.lost
      /\ output'.quiet = output.quiet
  BY <1>1, <1>2, <1>3 DEF OutputType
<1>5. TypeOK'
  BY <1>3, <1>4, Times DEF IInv, TypeOK, PlayChunk
<1>6. ASSUME NoNewAudio PROVE NoNewAudio'
  <2>1. \A i \in 1..Len(output.queue) : output.queue[i] # "new"
    BY <1>1, <1>6 DEF NoNewAudio
  <2>2. Head(output.queue) # "new"
    BY <1>3, <2>1
  <2>3. \A i \in 1..Len(Tail(output.queue)) : i + 1 \in 1..Len(output.queue)
    BY <1>3
  <2>4. \A i \in 1..Len(Tail(output.queue)) : Tail(output.queue)[i] # "new"
    BY <1>3, <2>1, <2>3
  <2>5. DOMAIN Tail(output.queue) = 1..Len(Tail(output.queue))
    BY <1>3
  <2> QED BY <1>4, <1>6, <2>2, <2>4, <2>5 DEF NoNewAudio
<1>7. UNCHANGED <<run, talk, hangup>>
  BY DEF PlayChunk
<1> QED
  BY <1>1, <1>4, <1>5, <1>6, <1>7 DEF IInv, InTime, NothingWaits, StrictInTime, AudioKnown,
     Following

LEMMA ChunkEndsHolds == ASSUME IInv, ChunkPlayed \/ ChunkRefused PROVE IInv'
<1>1. talk \in TalkType /\ hangup \in HangupType /\ output \in OutputType /\ run = "on"
  BY DEF IInv, TypeOK, ChunkPlayed, ChunkRefused
<1>2. output' = [output EXCEPT !.playing = "none", !.quiet = 0] /\ (run' = "on" \/ run' = "broken")
  BY <1>1 DEF ChunkPlayed, ChunkRefused
<1>3. /\ output' \in OutputType /\ output'.queue = output.queue /\ output'.lost = output.lost
      /\ output'.playing = "none" /\ output'.quiet = 0
  BY <1>1, <1>2 DEF OutputType
<1>4. NoNewAudio => NoNewAudio'
  BY <1>3 DEF NoNewAudio
<1>5. /\ talk' \in TalkType /\ (talk.answered => talk'.answered)
      /\ \A f \in {"words", "age", "judged"} : talk'[f] = talk[f]
  BY <1>1 DEF ChunkPlayed, ChunkRefused, Answered, TalkType, Words
<1>6. /\ hangup' \in HangupType /\ (hangup.began => hangup'.began)
      /\ \A f \in {"mode", "age", "armed", "left", "withdrawn", "late"} : hangup'[f] = hangup[f]
  <2>1. CASE hangup' = hangup
    BY <1>1, <2>1
  <2>2. CASE hangup' = [hangup EXCEPT !.began = TRUE]
    BY <1>1, <2>2 DEF HangupType
  <2> QED BY <2>1, <2>2 DEF ChunkPlayed, ChunkRefused
<1>7. TypeOK'
  BY <1>2, <1>3, <1>5, <1>6 DEF IInv, TypeOK, ChunkPlayed, ChunkRefused, Live
<1>8. InTime(hangup)' /\ NothingWaits(hangup)'
  BY <1>4, <1>6 DEF IInv, InTime, NothingWaits
<1>9. StrictInTime'
  BY <1>5, <1>6 DEF IInv, StrictInTime, Following
<1>10. AudioKnown'
  BY <1>1, <1>2, <1>3, <1>4, <1>5, <1>6 DEF IInv, AudioKnown, Following
<1> QED BY <1>7, <1>8, <1>9, <1>10 DEF IInv

LEMMA WaitToneHolds == ASSUME IInv, WaitTone PROVE IInv'
<1>1. output \in OutputType /\ run = "on" /\ ~output.lost /\ output.playing = "none"
  BY DEF IInv, TypeOK, WaitTone, AudioKnown
<1>2. output' = [output EXCEPT !.queue = <<"tone">>] /\ UNCHANGED <<run, context, talk, hangup, work>>
  BY DEF WaitTone
<1>3. <<"tone">> \in Seq(Chunks) /\ Len(<<"tone">>) = 1 /\ DOMAIN <<"tone">> = 1..1
  BY DEF Chunks
<1>4. output' \in OutputType /\ output'.queue = <<"tone">> /\ output'.playing = "none" /\ ~output'.lost
  BY <1>1, <1>2, <1>3 DEF OutputType
<1>5. TypeOK'
  BY <1>2, <1>3, <1>4, Times DEF IInv, TypeOK
<1>6. NoNewAudio'
  BY <1>3, <1>4 DEF NoNewAudio
<1> QED
  BY <1>1, <1>2, <1>4, <1>5, <1>6 DEF IInv, InTime, NothingWaits, StrictInTime, AudioKnown,
     Following

-----------------------------------------------------------------------------
(* An iteration of the loop: what each of its steps does to the request.        *)

\* What holds of a request after each of the steps.
Sound(h) == h \in HangupType /\ InTime(h) /\ NothingWaits(h)

\* A late goodbye is only cut off at the limit.
Settled(h) == h.armed => (h.late => h.age >= L)

LEMMA NoHangupFacts == Sound(NoHangup) /\ Settled(NoHangup)
  BY Times DEF Sound, Settled, NoHangup, HangupType, InTime, NothingWaits

LEMMA RecognizeFacts ==
  ASSUME IInv
  PROVE  /\ Sound(Recognize(hangup))
         /\ \/ Recognize(hangup) = hangup /\ ~(Judges /\ Mode # "none")
            \/ /\ Judges /\ Mode # "none" /\ Recognize(hangup).mode = Mode
               /\ Recognize(hangup).age = 0 /\ ~Recognize(hangup).armed
               /\ ~Recognize(hangup).withdrawn
<1> DEFINE h == Recognize(hangup)
<1>1. talk \in TalkType /\ hangup \in HangupType /\ Sound(hangup)
  BY DEF IInv, TypeOK, Sound
<1>2. CASE Judges /\ Mode # "none"
  <2>1. h = [NoHangup EXCEPT !.mode = Mode, !.began = talk.answered, !.farewell = talk.farewell]
    BY <1>2 DEF Recognize
  <2>2. Mode \in {"strict", "loose"}
    BY <1>2 DEF Mode
  <2>3. /\ h \in HangupType /\ h.mode = Mode /\ h.age = 0 /\ ~h.armed /\ ~h.withdrawn
        /\ h.began = talk.answered
    <3> DEFINE n == NoHangup
    <3>1. n \in HangupType /\ n.age = 0 /\ ~n.armed /\ ~n.withdrawn
      BY NoHangupFacts DEF Sound, NoHangup
    <3>2. h = [n EXCEPT !.mode = Mode, !.began = talk.answered, !.farewell = talk.farewell]
      BY <2>1
    <3>3. talk.answered \in BOOLEAN /\ talk.farewell \in BOOLEAN
      BY <1>1 DEF TalkType, Words
    <3> HIDE DEF n, h
    <3> QED BY <2>2, <3>1, <3>2, <3>3 DEF HangupType
  <2>4. ~talk.answered => NoNewAudio
    BY <1>2 DEF IInv, AudioKnown, Judges
  <2>5. InTime(h) /\ NothingWaits(h)
    BY <2>2, <2>3, <2>4, Times DEF InTime, NothingWaits
  <2> QED BY <1>2, <2>3, <2>5 DEF Sound
<1>3. CASE ~(Judges /\ Mode # "none")
  BY <1>1, <1>3 DEF Recognize
<1> QED BY <1>2, <1>3

LEMMA DisarmFacts ==
  ASSUME NEW h, Sound(h)
  PROVE  /\ Sound(Disarm(h)) /\ Settled(Disarm(h))
         /\ Disarm(h).mode = h.mode /\ Disarm(h).age = h.age /\ Disarm(h).withdrawn = h.withdrawn
         /\ ~h.armed => Disarm(h) = h
<1>1. h \in HangupType /\ h.age \in Nat /\ h.left \in Nat
  BY DEF Sound, HangupType
<1>2. CASE h.armed /\ h.late /\ h.age < L
  <2>1. Disarm(h) = [h EXCEPT !.armed = FALSE, !.left = 0]
    BY <1>2 DEF Disarm, L
  <2>2. /\ Disarm(h) \in HangupType /\ ~Disarm(h).armed /\ Disarm(h).age = h.age
        /\ Disarm(h).mode = h.mode /\ Disarm(h).began = h.began /\ Disarm(h).withdrawn = h.withdrawn
    <3> DEFINE d == Disarm(h)
    <3>1. d = [h EXCEPT !.armed = FALSE, !.left = 0]
      BY <2>1
    <3> HIDE DEF d
    <3>2. /\ d \in HangupType /\ ~d.armed /\ d.age = h.age
          /\ d.mode = h.mode /\ d.began = h.began /\ d.withdrawn = h.withdrawn
      BY <1>1, <3>1 DEF HangupType
    <3> QED BY <3>2 DEF d
  <2>3. h.mode # "none"
    BY <1>2 DEF Sound, InTime
  <2>4. InTime(Disarm(h)) /\ NothingWaits(Disarm(h))
    BY <1>1, <1>2, <2>2, <2>3, Times DEF Sound, InTime, NothingWaits
  <2> QED BY <1>2, <2>2, <2>4 DEF Sound, Settled
<1>3. CASE ~(h.armed /\ h.late /\ h.age < L)
  <2>1. Disarm(h) = h
    BY <1>3 DEF Disarm, L
  <2> QED BY <1>1, <1>3, <2>1, Times DEF Settled
<1> QED BY <1>2, <1>3

\* Audio that was heard out leaves nothing waiting.
LEMMA HeardOutFacts ==
  ASSUME IInv, run \in Live, NEW h, HeardOut(h)
  PROVE  NoNewAudio
<1>1. output \in OutputType
  BY DEF IInv, TypeOK
<1>2. ~output.lost
  BY <1>1, Times DEF IInv, AudioKnown, HeardOut, Live, OutputType
<1> QED
  BY <1>2 DEF HeardOut, NoNewAudio

LEMMA WeighFacts ==
  ASSUME IInv, run \in Live, NEW h, Sound(h), Settled(h)
  PROVE  /\ Sound(Weigh(h)) /\ Settled(Weigh(h))
         /\ Weigh(h).mode # "none" /\ ~Weigh(h).armed => Weigh(h).age < L
         /\ Weigh(h).armed /\ Weigh(h).left = 0 => Weigh(h) = h
         /\ \/ Weigh(h) = NoHangup /\ h.mode = "none"
            \/ Weigh(h) = NoHangup /\ ~h.armed /\ (h.withdrawn \/ h.mode = "loose")
            \/ /\ Weigh(h).mode = h.mode /\ Weigh(h).age = h.age
               /\ Weigh(h).withdrawn = h.withdrawn
<1> DEFINE p == Prompt(h)
<1>1. h \in HangupType /\ h.age \in Nat /\ h.left \in Nat
  BY DEF Sound, HangupType
<1>2. CASE h.mode = "none" \/ h.armed
  <2>1. Weigh(h) = h
    BY <1>2 DEF Weigh
  <2>2. h.mode = "none" => ~h.armed
    BY DEF Sound, InTime
  <2> QED BY <1>2, <2>1, <2>2
<1>3. CASE h.mode # "none" /\ ~h.armed /\ Dropped(h)
  <2>1. Weigh(h) = NoHangup
    BY <1>3 DEF Weigh
  <2>2. h.withdrawn \/ h.mode = "loose"
    BY <1>3 DEF Dropped
  <2>3. NoHangup.mode = "none" /\ ~NoHangup.armed
    BY DEF NoHangup
  <2> QED BY <1>3, <2>1, <2>2, <2>3, NoHangupFacts
<1>4. CASE h.mode # "none" /\ ~h.armed /\ ~Dropped(h)
  <2>1. Weigh(h) = Arm(p)
    BY <1>4 DEF Weigh
  <2>2. /\ p \in HangupType
        /\ \A f \in {"mode", "age", "armed", "left", "withdrawn", "late", "began"} : p[f] = h[f]
    <3>1. CASE p = h
      BY <1>1, <3>1
    <3>2. CASE p = [h EXCEPT !.prompted = h.age]
      BY <1>1, <3>2 DEF HangupType
    <3> QED BY <3>1, <3>2 DEF Prompt
  <2> HIDE DEF p
  <2>3. h.age <= L
    BY <1>4 DEF Sound, InTime
  <2>4. CASE Ends(p)
    <3> DEFINE w == [p EXCEPT !.armed = TRUE, !.left = GOODBYE_TAIL, !.late = FALSE]
    <3>1. Weigh(h) = w
      BY <2>1, <2>4 DEF Arm
    <3>2. /\ w \in HangupType /\ w.armed /\ w.left = T /\ ~w.late
          /\ \A f \in {"mode", "age", "withdrawn", "began"} : w[f] = h[f]
      BY <2>2, Times DEF HangupType, T
    <3> HIDE DEF w
    <3>3. w.age < L => NoNewAudio
      <4>1. CASE HeardOut(p)
        BY <4>1, HeardOutFacts
      <4>2. CASE p.age >= GOODBYE_LIMIT
        BY <1>1, <2>2, <3>2, <4>2, Times DEF L
      <4>3. CASE p.mode = "strict" /\ Unanswered(p)
        BY <1>4, <2>2, <4>3 DEF Unanswered, Sound, NothingWaits
      <4> QED BY <2>4, <4>1, <4>2, <4>3 DEF Ends
    <3>4. InTime(w)
      BY <1>1, <1>4, <2>3, <3>2, Times DEF InTime
    <3>5. NothingWaits(w)
      BY <3>2, <3>3 DEF Sound, NothingWaits
    <3>6. w.left # 0
      BY <3>2, Times
    <3> QED BY <3>1, <3>2, <3>4, <3>5, <3>6 DEF Sound, Settled
  <2>5. CASE ~Ends(p)
    <3>1. Weigh(h) = p
      BY <2>1, <2>5 DEF Arm
    <3>2. p.age < L
      BY <1>1, <2>2, <2>5, Times DEF Ends, L
    <3>3. InTime(p) /\ NothingWaits(p)
      BY <2>2 DEF Sound, InTime, NothingWaits
    <3> QED BY <1>4, <2>2, <3>1, <3>2, <3>3 DEF Sound, Settled
  <2> QED BY <2>4, <2>5
<1> QED BY <1>2, <1>3, <1>4

-----------------------------------------------------------------------------
(* The iteration as a whole.                                                    *)

LEMMA LoopHolds == ASSUME IInv, Loop PROVE IInv'
<1> DEFINE r == Recognize(hangup)
           d == Disarm(r)
           h == Weigh(d)
<1>1. talk \in TalkType /\ hangup \in HangupType /\ output \in OutputType /\ run \in Live
  BY DEF IInv, TypeOK, Loop
<1>2. context' \in ContextType
  BY DEF Loop, IInv, TypeOK, ContextType
<1>3. Sound(r) /\ \/ r = hangup /\ ~(Judges /\ Mode # "none")
                  \/ /\ Judges /\ Mode # "none" /\ r.mode = Mode
                     /\ r.age = 0 /\ ~r.armed /\ ~r.withdrawn
  BY RecognizeFacts
<1>4. /\ Sound(d) /\ Settled(d)
      /\ d.mode = r.mode /\ d.age = r.age /\ d.withdrawn = r.withdrawn
      /\ ~r.armed => d = r
  BY <1>3, DisarmFacts
<1>5. /\ Sound(h) /\ Settled(h)
      /\ h.mode # "none" /\ ~h.armed => h.age < L
      /\ h.armed /\ h.left = 0 => h = d
      /\ \/ h = NoHangup /\ d.mode = "none"
         \/ h = NoHangup /\ ~d.armed /\ (d.withdrawn \/ d.mode = "loose")
         \/ h.mode = d.mode /\ h.age = d.age /\ h.withdrawn = d.withdrawn
  BY <1>1, <1>4, WeighFacts
<1> HIDE DEF r, d, h
<1>6. h.age \in Nat /\ h.left \in Nat /\ hangup.age \in Nat /\ talk.age \in Nat /\ h.armed \in BOOLEAN
  BY <1>1, <1>5 DEF Sound, HangupType, TalkType, Words
\* The end is due: it was set for the request that is followed.
<1>7. CASE h.armed /\ h.left = 0
  <2>1. run' = "hung_up" /\ hangup' = h /\ UNCHANGED <<talk, output, work>>
    BY <1>7 DEF Loop, r, d, h
  <2>2. h = d /\ d = hangup
    <3>1. r.armed
      BY <1>4, <1>5, <1>7
    <3>2. r = hangup
      BY <1>3, <3>1
    <3>3. d.armed => d = r
      BY <1>4 DEF d, Disarm, Sound, HangupType
    <3> QED BY <1>5, <1>7, <3>2, <3>3
  <2>3. hangup' = hangup /\ NoNewAudio' = NoNewAudio
    BY <2>1, <2>2 DEF NoNewAudio
  <2>4. TypeOK'
    BY <1>2, <2>1, <2>3 DEF IInv, TypeOK, Ended
  <2>5. InTime(hangup)' /\ NothingWaits(hangup)' /\ StrictInTime'
    BY <2>1, <2>3 DEF IInv, InTime, NothingWaits, StrictInTime, Following
  <2>6. AudioKnown'
    BY <1>5, <1>7, <2>1, <2>2, <2>3 DEF IInv, AudioKnown, Following, Settled
  <2> QED BY <2>4, <2>5, <2>6 DEF IInv
<1>8. CASE ~(h.armed /\ h.left = 0) /\ run = "broken"
  <2>1. Leave("failed")
    BY <1>8 DEF Loop, r, d, h
  <2> QED BY <1>2, <2>1, LeaveHolds DEF IInv
\* Time passes.
<1>9. CASE ~(h.armed /\ h.left = 0) /\ run # "broken"
  <2>1. Pass(h)
    BY <1>9 DEF Loop, r, d, h
  <2>2. run = "on" /\ ~output.lost
    BY <1>1, <1>9 DEF IInv, AudioKnown, Live
  <2>3. UNCHANGED <<run, work>>
    BY <2>1 DEF Pass
  <2>4. /\ hangup' \in HangupType
        /\ \A f \in {"mode", "armed", "late", "began", "withdrawn"} : hangup'[f] = h[f]
        /\ h.mode = "none" => hangup' = h
        /\ h.mode # "none" => hangup'.age = h.age + 1
        /\ h.armed => hangup'.left = h.left - 1 /\ hangup'.age = h.age + 1
    <3>1. CASE h.mode = "none"
      BY <1>5, <2>1, <3>1 DEF Pass, Sound, InTime
    <3>2. CASE h.mode # "none"
      <4>1. hangup' = [h EXCEPT !.age = Least(@ + 1, MaxAge), !.left = IF h.armed THEN @ - 1 ELSE 0]
        BY <2>1, <3>2 DEF Pass
      <4>2. h.age + 1 <= MaxAge
        BY <1>5, <1>6, Times, Bounds DEF Sound, InTime
      <4>3. Least(h.age + 1, MaxAge) = h.age + 1
        BY <1>6, <4>2 DEF Least
      <4>4. (IF h.armed THEN h.left - 1 ELSE 0) \in Nat
        BY <1>6, <1>9
      <4>5. h \in HangupType
        BY <1>5 DEF Sound
      <4>6. hangup' = [h EXCEPT !.age = h.age + 1, !.left = IF h.armed THEN h.left - 1 ELSE 0]
        BY <4>1, <4>3
      <4> DEFINE age == h.age + 1
                 left == IF h.armed THEN h.left - 1 ELSE 0
      <4>7. hangup' = [h EXCEPT !.age = age, !.left = left] /\ age \in Nat /\ left \in Nat
        BY <1>6, <4>4, <4>6
      <4>8. age = h.age + 1 /\ (h.armed => left = h.left - 1)
        OBVIOUS
      <4> HIDE DEF age, left
      <4>9. /\ hangup' \in HangupType /\ hangup'.age = age /\ hangup'.left = left
            /\ \A f \in {"mode", "armed", "late", "began", "withdrawn"} : hangup'[f] = h[f]
        BY <4>5, <4>7 DEF HangupType
      <4> QED BY <3>2, <4>8, <4>9
    <3> QED BY <3>1, <3>2
  <2>5. /\ talk' \in TalkType /\ talk'.words = talk.words /\ talk'.answered = talk.answered
        /\ talk'.judged = (talk.judged \/ Judges) /\ talk'.age <= talk.age + 1
    <3> DEFINE age == IF talk.words = "none" THEN 0 ELSE Least(talk.age + 1, MaxSilence)
               judged == talk.judged \/ Judges
    <3>1. talk' = [talk EXCEPT !.age = age, !.judged = judged]
      BY <2>1 DEF Pass
    <3>2. age \in Nat /\ age <= talk.age + 1
      BY <1>6, Bounds DEF Least
    <3>3. judged \in BOOLEAN
      BY <1>1 DEF TalkType, Words, Judges
    <3> HIDE DEF age, judged
    <3>4. /\ talk' \in TalkType /\ talk'.words = talk.words /\ talk'.answered = talk.answered
          /\ talk'.judged = judged /\ talk'.age = age
      BY <1>1, <3>1, <3>2, <3>3 DEF TalkType, Words
    <3> QED BY <3>2, <3>4 DEF judged
  <2>6. /\ output' \in OutputType /\ Len(output'.queue) <= OutputLimit /\ ~output'.lost
        /\ NoNewAudio => NoNewAudio'
        /\ Following /\ h.mode = "none" /\ ~talk.answered => NoNewAudio'
    <3> DEFINE o == [output EXCEPT !.quiet = Least(@ + 1, MaxQuiet)]
    <3>1. Least(output.quiet + 1, MaxQuiet) \in Nat
      BY <1>1, Bounds DEF OutputType, Least
    <3>2. /\ o \in OutputType /\ o.queue = output.queue /\ o.playing = output.playing
          /\ o.lost = output.lost
      BY <1>1, <3>1 DEF OutputType
    <3>3. output' = IF Following /\ h.mode = "none" /\ ~talk.answered THEN Aged(o) ELSE o
      BY <2>1 DEF Pass
    <3> HIDE DEF o
    <3>4. Len(output.queue) <= OutputLimit
      BY DEF IInv, TypeOK
    <3>5. CASE Following /\ h.mode = "none" /\ ~talk.answered
      BY <2>2, <3>2, <3>3, <3>4, <3>5, AgedFacts DEF NoNewAudio
    <3>6. CASE ~(Following /\ h.mode = "none" /\ ~talk.answered)
      BY <2>2, <3>2, <3>3, <3>4, <3>6 DEF NoNewAudio
    <3> QED BY <3>5, <3>6
  <2>7. TypeOK'
    BY <1>2, <2>3, <2>4, <2>5, <2>6 DEF IInv, TypeOK
  <2>8. InTime(hangup)'
    <3>1. CASE h.mode = "none"
      BY <1>5, <2>4, <3>1 DEF Sound, InTime
    <3>2. CASE h.mode # "none"
      BY <1>5, <1>6, <2>4, <3>2, Times DEF Sound, InTime
    <3> QED BY <3>1, <3>2
  <2>9. NothingWaits(hangup)'
    <3>1. ASSUME hangup'.armed, ~hangup'.late, hangup'.age < L PROVE NoNewAudio'
      BY <1>5, <1>6, <2>4, <2>6, <3>1, Times DEF Sound, NothingWaits
    <3>2. ASSUME hangup'.mode # "none", ~hangup'.began PROVE NoNewAudio'
      BY <1>5, <2>4, <2>6, <3>2 DEF Sound, NothingWaits
    <3> QED BY <3>1, <3>2 DEF NothingWaits
  <2>10. StrictInTime'
    <3> SUFFICES ASSUME talk'.words = "strict"
                 PROVE  /\ ~talk'.judged /\ Following' => talk'.age <= hangup'.age
                        /\ ~talk'.judged /\ ~Following' => talk'.age <= S + L
                        /\ talk'.judged => /\ hangup'.mode = "strict" /\ ~hangup'.withdrawn
                                           /\ talk'.age <= S + L + hangup'.age
      BY DEF StrictInTime
    <3>0. /\ Following' <=> h.mode # "none"
          /\ talk'.age \in Nat /\ hangup'.age \in Nat /\ talk.words = "strict"
      BY <2>4, <2>5 DEF Following, TalkType, Words, HangupType
    <3>1. CASE talk.judged
      <4>1. Following /\ hangup.mode = "strict" /\ ~hangup.withdrawn /\ talk.age <= S + L + hangup.age
        BY <3>0, <3>1 DEF IInv, StrictInTime, Following
      <4>2. r = hangup
        BY <1>3, <4>1 DEF Judges
      <4>3. h.mode = "strict" /\ h.age = hangup.age /\ ~h.withdrawn
        BY <1>4, <1>5, <4>1, <4>2
      <4>4. hangup'.mode = "strict" /\ ~hangup'.withdrawn /\ hangup'.age = h.age + 1 /\ talk'.judged
        BY <2>4, <2>5, <3>1, <4>3
      <4>5. talk'.age <= S + L + hangup'.age
        BY <1>6, <2>5, <3>0, <4>1, <4>3, <4>4, Times
      <4> QED BY <4>4, <4>5
    <3>2. CASE ~talk.judged /\ Judges
      <4>1. ~Following /\ talk.age <= S + L
        BY <3>0, <3>2 DEF IInv, StrictInTime, Judges
      <4>2. Mode = "strict"
        BY <3>0 DEF Mode
      <4>3. r.mode = "strict" /\ r.age = 0 /\ ~r.withdrawn
        BY <1>3, <3>2, <4>2
      <4>4. h.mode = "strict" /\ h.age = 0 /\ ~h.withdrawn
        BY <1>4, <1>5, <4>3
      <4>5. hangup'.mode = "strict" /\ ~hangup'.withdrawn /\ hangup'.age = h.age + 1 /\ talk'.judged
        BY <2>4, <2>5, <3>2, <4>4
      <4>6. talk'.age <= S + L + hangup'.age
        BY <1>6, <2>5, <3>0, <4>1, <4>4, <4>5, Times
      <4> QED BY <4>5, <4>6
    <3>3. CASE ~talk.judged /\ ~Judges
      <4>1. r = hangup /\ ~talk'.judged
        BY <1>3, <2>5, <3>3
      <4>2. CASE Following
        <5>1. talk.age <= hangup.age
          BY <3>0, <3>3, <4>2 DEF IInv, StrictInTime
        <5>2. CASE h.mode # "none"
          <6>1. h.age = hangup.age
            BY <1>4, <1>5, <4>1, <5>2 DEF NoHangup
          <6> QED BY <1>6, <2>4, <2>5, <3>0, <4>1, <5>1, <5>2, <6>1
        <5>3. CASE h.mode = "none"
          <6>1. ~d.armed /\ d.mode # "none" /\ d.age = hangup.age
            BY <1>4, <1>5, <4>1, <4>2, <5>3 DEF Following, NoHangup
          <6>2. hangup.age <= L
            BY <1>4, <6>1 DEF Sound, InTime
          <6> QED BY <1>6, <2>5, <3>0, <4>1, <5>1, <5>3, <6>2, Times
        <5> QED BY <5>2, <5>3
      <4>3. CASE ~Following
        <5>1. h.mode = "none"
          BY <1>4, <1>5, <4>1, <4>3 DEF Following, NoHangup
        <5>2. talk.age < S
          BY <1>6, <3>0, <3>3, <4>3, Times DEF Judges, S
        <5> QED BY <1>6, <2>5, <3>0, <4>1, <5>1, <5>2, Times
      <4> QED BY <4>2, <4>3
    <3> QED BY <3>1, <3>2, <3>3
  <2>11. AudioKnown'
    <3>1. ASSUME ~Following', ~talk'.answered PROVE NoNewAudio'
      <4>1. h.mode = "none" /\ ~talk.answered
        BY <2>4, <2>5, <3>1 DEF Following
      <4>2. CASE Following
        BY <2>6, <4>1, <4>2
      <4>3. CASE ~Following
        BY <2>6, <4>1, <4>3 DEF IInv, AudioKnown
      <4> QED BY <4>2, <4>3
    <3> QED BY <2>2, <2>3, <2>6, <3>1 DEF AudioKnown
  <2> QED BY <2>7, <2>8, <2>9, <2>10, <2>11 DEF IInv
<1> QED BY <1>1, <1>7, <1>8, <1>9

-----------------------------------------------------------------------------
(* Theorems.                                                                    *)

LEMMA NextHolds == IInv /\ [Next]_vars => IInv'
<1> SUFFICES ASSUME IInv, [Next]_vars PROVE IInv'
  OBVIOUS
<1>1. CASE UNCHANGED vars
  BY <1>1 DEF vars, locals, IInv, TypeOK, InTime, NothingWaits, NoNewAudio, StrictInTime,
     AudioKnown, Following
<1>2. ASSUME NEW words \in Words, NEW withdraws \in BOOLEAN,
             HearCaller(words, withdraws)
      PROVE  IInv'
  BY <1>2, HearCallerHolds
<1>3. ASSUME NEW farewell \in BOOLEAN, HearModel(farewell) PROVE IInv'
  BY <1>3, HearModelHolds
<1> QED
  BY <1>1, <1>2, <1>3, OpenHolds, WorkHolds, EndHolds, ReceiveAudioHolds, PlayChunkHolds,
     ChunkEndsHolds, WaitToneHolds, LoopHolds DEF Next

THEOREM Invariance == Spec => []IInv
  BY InitHolds, NextHolds, PTL DEF Spec

\* Every variable of the session keeps its type and its queues their limits, whatever the
\* times and limits are set to (live_voice.py:202-418).
THEOREM TypeCorrect == Spec => []TypeOK
<1>1. IInv => TypeOK
  BY DEF IInv
<1> QED BY <1>1, Invariance, PTL

\* A request to hang up is decided within GOODBYE_LIMIT and GOODBYE_TAIL, and silence after
\* a clear one ends the call, for all times that TimesAssumption allows (live_voice.py:352-398).
THEOREM HangUpDecided == Spec => []HangUpBounded
  BY IInvImplies, Invariance, PTL

\* The goodbye is not cut off before the limit and none of it is lost (live_voice.py:362-374).
THEOREM GoodbyeHeard == Spec => []GoodbyeNotCut
  BY IInvImplies, Invariance, PTL

-----------------------------------------------------------------------------
(* The media of a call (CallMedia): its types, that a clean-up it reports is   *)
(* one, and that main hears the answer to its own requests.  Its variables are *)
(* its own; nothing here relates them to those of LiveVoice.                   *)

WaitsType == [Requesters -> Nat]

-----------------------------------------------------------------------------
(* Types.                                                                      *)

LEMMA MediaAtFirst == ASSUME MediaInit PROVE MediaTypeOK
<1>1. count \in [sends : 0..MaxSends, reports : 0..MaxReports]
  BY ConstantsAssumption DEF MediaInit
<1>2. waits \in WaitsType
  BY DEF MediaInit, WaitsType
<1>3. events \in EventsType /\ engine \in EngineType
  BY DEF MediaInit, EventsType, EngineType
<1> QED
  BY <1>1, <1>2, <1>3 DEF MediaInit, MediaTypeOK, MainType, IpcType, MediaType, VoiceType,
     WaitsType

LEMMA WriteTypes ==
  ASSUME MediaTypeOK, NEW who \in Requesters, NEW op \in Requests \cup {"pcm"}, Write(who, op)
  PROVE  waits' \in WaitsType /\ ipc' \in IpcType /\ engine' \in EngineType
<1>1. ipc.sequence + 1 \in Numbers
  BY DEF MediaTypeOK, IpcType, Numbers
<1> DEFINE request == [id |-> ipc.sequence + 1, op |-> op]
<1>2. request \in Pipe
  BY <1>1 DEF Pipe
<1>3. Append(engine.stdin, request) \in Seq(Pipe)
  BY <1>2 DEF MediaTypeOK, EngineType
<1>4. engine' = [engine EXCEPT !.stdin = Append(engine.stdin, request)]
  BY DEF Write
<1> HIDE DEF request
<1>5. engine' \in EngineType
  BY <1>3, <1>4 DEF MediaTypeOK, EngineType
<1>6. ipc' \in IpcType
  BY <1>1 DEF Write, MediaTypeOK, IpcType, Numbers
<1>7. waits' \in WaitsType
  BY <1>1 DEF Write, MediaTypeOK, WaitsType, Numbers
<1> QED BY <1>5, <1>6, <1>7

LEMMA AnswerTypes ==
  ASSUME MediaTypeOK, NEW who \in Requesters, NEW ok \in BOOLEAN, Answer(who, ok)
  PROVE  waits' \in WaitsType /\ ipc' \in IpcType
BY DEF Answer, MediaTypeOK, IpcType, WaitsType

LEMMA FailTypes ==
  ASSUME MediaTypeOK, NEW who \in Requesters, RequestFails(who)
  PROVE  waits' \in WaitsType /\ ipc' \in IpcType
<1>1. CASE Answer(who, FALSE)
  BY <1>1, AnswerTypes
<1>2. CASE GivesUp(who) /\ UNCHANGED ipc
  BY <1>2 DEF GivesUp, MediaTypeOK, WaitsType
<1>3. CASE WriteFails /\ UNCHANGED <<waits, ipc>>
  BY <1>3 DEF MediaTypeOK, WaitsType
<1> QED BY <1>1, <1>2, <1>3 DEF RequestFails

LEMMA EnqueueTypes ==
  ASSUME events \in EventsType, NEW e \in States \cup {"end_requested"}, Enqueue(e)
  PROVE  events' \in EventsType
<1>1. events.queue \in Seq(States \cup {"end_requested"})
  BY DEF EventsType
<1>2. Append(events.queue, e) \in Seq(States \cup {"end_requested"})
  BY <1>1
<1> DEFINE queue == Append(events.queue, e)
<1>3. queue \in Seq(States \cup {"end_requested"})
  BY <1>2
<1>4. \/ events' = [events EXCEPT !.queue = queue]
      \/ events' = [events EXCEPT !.overflow = TRUE]
  BY DEF Enqueue
<1> HIDE DEF queue
<1> QED BY <1>3, <1>4 DEF EventsType

\* The states of the phone call begin a speech session only before the media stop.
LEMMA NativeStateTypes ==
  ASSUME MediaTypeOK, NEW s \in States, NativeState(s)
  PROVE  /\ media' \in MediaType /\ voice' \in VoiceType /\ events' \in EventsType
         /\ media'.stopping = media.stopping
         /\ media.stopping => voice' = voice
<1>1. CASE media.stopping /\ UNCHANGED <<media, voice, events>>
  BY <1>1 DEF MediaTypeOK
<1>3. CASE ~media.stopping /\ Enqueue(s)
           /\ media' = [media EXCEPT !.connected = s = "connected", !.requested = @ \/ s = "connected"]
           /\ voice' = IF s = "connected" /\ ~media.requested
                       THEN [voice EXCEPT !.pc = "connecting"] ELSE voice
  <2>1. events' \in EventsType
    BY <1>3, EnqueueTypes DEF MediaTypeOK
  <2>2. voice' \in VoiceType
    BY <1>3 DEF MediaTypeOK, VoiceType
  <2>3. media' \in MediaType /\ media'.stopping = media.stopping
    BY <1>3 DEF MediaTypeOK, MediaType
  <2> QED BY <1>3, <2>1, <2>2, <2>3
<1> QED BY <1>1, <1>3 DEF NativeState

LEMMA LeaveTypes ==
  ASSUME MediaTypeOK, NEW failed \in BOOLEAN, ReaderLeaves(failed)
  PROVE  /\ media' \in MediaType /\ voice' \in VoiceType /\ events' \in EventsType
         /\ media'.stopping = media.stopping /\ reader' = "done"
         /\ media.stopping => voice' = voice
<1>1. CASE NativeState("failed")
  BY <1>1, NativeStateTypes DEF ReaderLeaves, States
<1>2. CASE UNCHANGED <<media, voice, events>>
  BY <1>2 DEF ReaderLeaves, MediaTypeOK
<1> QED BY <1>1, <1>2 DEF ReaderLeaves

LEMMA MediaTypesKept == ASSUME MediaTypeOK, [MediaNext]_mediaVars PROVE MediaTypeOK'
<1>0. /\ main \in MainType /\ waits \in WaitsType /\ ipc \in IpcType /\ engine \in EngineType
      /\ media \in MediaType /\ voice \in VoiceType /\ events \in EventsType
  BY DEF MediaTypeOK, WaitsType
<1>n. {TableSize, QueueSize, MaxSends, MaxReports} \subseteq Nat
  BY ConstantsAssumption
<1>1. CASE Start
  BY <1>0, <1>1 DEF Start, Goto, Spawn, MediaTypeOK, MainType, IpcType, EngineType, WaitsType,
     Requests
<1>2. CASE MainWrites
  <2>1. /\ waits' \in WaitsType /\ ipc' \in IpcType /\ engine' \in EngineType
    BY <1>2, WriteTypes DEF MainWrites, Requesters
  <2> QED BY <1>2, <2>1 DEF MainWrites, MediaTypeOK, WaitsType
<1>3. CASE MainAnswered
  <2>1. /\ waits' \in WaitsType /\ ipc' \in IpcType
    BY <1>3, AnswerTypes DEF MainAnswered, Requesters
  <2>2. main' \in MainType
    BY <1>0, <1>3 DEF MainAnswered, Goto, MainType, Requests
  <2> QED BY <1>3, <2>1, <2>2 DEF MainAnswered, MediaTypeOK, WaitsType
<1>4. CASE MainFails
  <2>1. /\ waits' \in WaitsType /\ ipc' \in IpcType
    BY <1>4, FailTypes DEF MainFails, Requesters
  <2>2. main' \in MainType
    BY <1>0, <1>4 DEF MainFails, MainType, Requests
  <2> QED BY <1>4, <2>1, <2>2 DEF MainFails, MediaTypeOK, WaitsType
<1>5. CASE Drain
  <2>1. main' \in MainType
    BY <1>0, <1>5 DEF Drain, Goto, MainType
  <2>2. events' \in EventsType
    <3>1. CASE events' = events
      BY <1>0, <3>1
    <3>2. CASE events.queue # <<>> /\ events' = [events EXCEPT !.queue = Tail(events.queue)]
      <4> DEFINE queue == Tail(events.queue)
      <4>1. queue \in Seq(States \cup {"end_requested"})
        BY <1>0, <3>2 DEF EventsType
      <4>2. events' = [events EXCEPT !.queue = queue]
        BY <3>2
      <4> HIDE DEF queue
      <4> QED BY <1>0, <4>1, <4>2 DEF EventsType
    <3> QED BY <1>5, <3>1, <3>2 DEF Drain
  <2> QED BY <1>5, <2>1, <2>2 DEF Drain, MediaTypeOK
<1>6. CASE Quit
  BY <1>0, <1>6 DEF Quit, Goto, MediaTypeOK, MainType, MediaType, VoiceType
<1>7. CASE Join
  <2> DEFINE ended == main.ok /\ voice.pc \in {"none", "done"} /\ (voice.started => voice.confirmed)
  <2>1. main' = [main EXCEPT !.pc = "native", !.ok = ended] /\ ended \in BOOLEAN
    BY <1>7 DEF Join
  <2> HIDE DEF ended
  <2>2. main' \in MainType
    BY <1>0, <2>1 DEF MainType
  <2> QED BY <1>7, <2>2 DEF Join, MediaTypeOK
<1>8. CASE StopNative
  <2>1. main' \in MainType
    BY <1>0, <1>8 DEF StopNative, Goto, MainType, Requests
  <2>2. ipc' \in IpcType
    BY <1>0, <1>8 DEF StopNative, IpcType
  <2> QED BY <1>8, <2>1, <2>2 DEF StopNative, MediaTypeOK
<1>9. CASE CloseIPC
  <2>1. ipc' \in IpcType
    BY <1>0, <1>9 DEF CloseIPC, IpcType
  <2> QED BY <1>9, <2>1 DEF CloseIPC, MediaTypeOK
<1>10. CASE Exited
  <2> DEFINE gone == main.ok /\ ~engine.up
  <2>1. main' = (IF main.pc = "abort" THEN [main EXCEPT !.pc = "quit"]
                                      ELSE [main EXCEPT !.pc = "end", !.ok = gone]) /\ gone \in BOOLEAN
    BY <1>10 DEF Exited
  <2> HIDE DEF gone
  <2>2. main' \in MainType
    BY <1>0, <2>1 DEF MainType
  <2>3. engine' \in EngineType /\ ipc' \in IpcType
    BY <1>0, <1>10 DEF Exited, EngineType, IpcType
  <2> QED BY <1>10, <2>2, <2>3 DEF Exited, MediaTypeOK
<1>11. CASE End
  <2>1. main' \in MainType
    BY <1>0, <1>11 DEF End, MainType
  <2> QED BY <1>11, <2>1 DEF End, MediaTypeOK
<1>12. CASE Signal
  <2>1. main' \in MainType
    BY <1>0, <1>12 DEF Signal, Goto, MainType, Requests
  <2>2. count' \in [sends : 0..MaxSends, reports : 0..MaxReports]
    BY <1>n, <1>12 DEF Signal, Used, MediaTypeOK
  <2> QED BY <1>12, <2>1, <2>2 DEF Signal, MediaTypeOK
<1>13. CASE Hangup
  BY <1>0, <1>13 DEF Hangup, Goto, MediaTypeOK, MainType
<1>14. CASE ReadState
  <2>1. engine.stdout # <<>> /\ Head(engine.stdout) \in Output /\ Tail(engine.stdout) \in Seq(Output)
    BY <1>0, <1>14 DEF ReadState, Reads, EngineType
  <2>2. Head(engine.stdout).state \in States
    BY <1>14, <2>1 DEF ReadState, Reads, Output
  <2>3. /\ media' \in MediaType /\ voice' \in VoiceType /\ events' \in EventsType
    BY <1>14, <2>2, NativeStateTypes DEF ReadState
  <2> DEFINE rest == Tail(engine.stdout)
  <2>4. engine' = [engine EXCEPT !.stdout = rest] /\ rest \in Seq(Output)
    BY <1>14, <2>1 DEF ReadState, Reads
  <2> HIDE DEF rest
  <2>5. engine' \in EngineType
    BY <1>0, <2>4 DEF EngineType
  <2> QED BY <1>14, <2>3, <2>5 DEF ReadState, MediaTypeOK
<1>15. CASE ReadReply
  <2>1. engine.stdout # <<>> /\ Head(engine.stdout) \in Output /\ Tail(engine.stdout) \in Seq(Output)
    BY <1>0, <1>15 DEF ReadReply, Reads, EngineType
  <2>2. Head(engine.stdout).id \in Numbers /\ Head(engine.stdout).ok \in BOOLEAN
    BY <1>15, <2>1 DEF ReadReply, Reads, Output
  <2> DEFINE rest == Tail(engine.stdout)
             reply == [id |-> Head(engine.stdout).id, ok |-> Head(engine.stdout).ok]
  <2>3. engine' = [engine EXCEPT !.stdout = rest] /\ rest \in Seq(Output)
    BY <1>15, <2>1 DEF ReadReply, Reads
  <2>4. reply \in Replies
    BY <2>2 DEF Replies
  <2>5. CASE ipc' = [ipc EXCEPT !.replies = @ \cup {reply}] /\ UNCHANGED <<reader, media, voice, events>>
    <3> HIDE DEF rest, reply
    <3>1. engine' \in EngineType
      BY <1>0, <2>3 DEF EngineType
    <3>2. ipc' \in IpcType
      BY <1>0, <2>4, <2>5 DEF IpcType
    <3> QED BY <1>15, <2>5, <3>1, <3>2 DEF ReadReply, MediaTypeOK
  <2>6. CASE ReaderLeaves(TRUE) /\ UNCHANGED ipc
    <3>1. /\ media' \in MediaType /\ voice' \in VoiceType /\ events' \in EventsType /\ reader' = "done"
      BY <2>6, LeaveTypes
    <3> HIDE DEF rest, reply
    <3>2. engine' \in EngineType
      BY <1>0, <2>3 DEF EngineType
    <3> QED BY <1>15, <2>6, <3>1, <3>2 DEF ReadReply, MediaTypeOK
  <2> QED BY <1>15, <2>5, <2>6 DEF ReadReply
<1>16. CASE BadFrame \/ EndOfFile
  <2>1. ReaderLeaves(TRUE) \/ ReaderLeaves(FALSE)
    BY <1>16 DEF BadFrame, EndOfFile
  <2>2. /\ media' \in MediaType /\ voice' \in VoiceType /\ events' \in EventsType /\ reader' = "done"
    BY <2>1, LeaveTypes
  <2> QED BY <1>16, <2>2 DEF BadFrame, EndOfFile, MediaTypeOK
<1>17. CASE SessionStarts \/ SessionStops \/ SessionFails
  <2>1. voice' \in VoiceType
    BY <1>0, <1>17 DEF SessionStarts, SessionStops, SessionFails, Finally, VoiceType
  <2> QED BY <1>17, <2>1 DEF SessionStarts, SessionStops, SessionFails, MediaTypeOK
<1>18. CASE SessionTimeLimit \/ HangsUp
  <2>1. voice' \in VoiceType
    BY <1>0, <1>18 DEF SessionTimeLimit, HangsUp, Finally, VoiceType
  <2>2. events' \in EventsType
    BY <1>0, <1>18, EnqueueTypes DEF SessionTimeLimit, HangsUp, States
  <2> QED BY <1>18, <2>1, <2>2 DEF SessionTimeLimit, HangsUp, MediaTypeOK
<1>19. CASE SessionCloses
  <2>1. voice' \in VoiceType
    BY <1>0, <1>19 DEF SessionCloses, VoiceType
  <2>2. events' \in EventsType
    BY <1>0, <1>19, EnqueueTypes DEF SessionCloses, States
  <2> QED BY <1>19, <2>1, <2>2 DEF SessionCloses, MediaTypeOK
<1>20. CASE ThreadEnds
  <2>1. voice' \in VoiceType
    BY <1>0, <1>20 DEF ThreadEnds, VoiceType
  <2>2. events' \in EventsType
    BY <1>0, <1>20, EnqueueTypes DEF ThreadEnds, States
  <2> QED BY <1>20, <2>1, <2>2 DEF ThreadEnds, MediaTypeOK
<1>21. CASE Chunk
  <2>1. count' \in [sends : 0..MaxSends, reports : 0..MaxReports]
    BY <1>n, <1>21 DEF Chunk, Used, MediaTypeOK
  <2> QED BY <1>21, <2>1 DEF Chunk, MediaTypeOK
<1>22. CASE PlayerChecks
  BY <1>22 DEF PlayerChecks, MediaTypeOK
<1>23. CASE PlayerWrites
  <2>1. /\ waits' \in WaitsType /\ ipc' \in IpcType /\ engine' \in EngineType
    BY <1>23, WriteTypes DEF PlayerWrites, Requesters
  <2> QED BY <1>23, <2>1 DEF PlayerWrites, MediaTypeOK, WaitsType
<1>24. CASE PlayerAnswered
  <2>1. /\ waits' \in WaitsType /\ ipc' \in IpcType
    BY <1>24, AnswerTypes DEF PlayerAnswered, Requesters
  <2> QED BY <1>24, <2>1 DEF PlayerAnswered, MediaTypeOK, WaitsType
<1>25. CASE PlayerFails
  <2>1. /\ waits' \in WaitsType /\ ipc' \in IpcType
    BY <1>0, <1>25, FailTypes DEF PlayerFails, Requesters
  <2> QED BY <1>25, <2>1 DEF PlayerFails, MediaTypeOK, WaitsType
<1>26. CASE EngineServes
  <2>1. engine.stdin # <<>> /\ Head(engine.stdin) \in Pipe /\ Tail(engine.stdin) \in Seq(Pipe)
    BY <1>0, <1>26 DEF EngineServes, EngineType
  <2> DEFINE rest == Tail(engine.stdin)
             out(ok) == Append(engine.stdout, Reply(ok))
  <2>2. \A ok \in BOOLEAN : Reply(ok) \in Output
    BY <2>1 DEF Reply, Output, Pipe
  <2>3. out(TRUE) \in Seq(Output) /\ out(FALSE) \in Seq(Output) /\ rest \in Seq(Pipe)
    <3>1. engine.stdout \in Seq(Output) /\ Reply(TRUE) \in Output /\ Reply(FALSE) \in Output
      BY <1>0, <2>2 DEF EngineType
    <3>2. \A reply \in Output : Append(engine.stdout, reply) \in Seq(Output)
      BY <3>1
    <3> QED BY <2>1, <3>1, <3>2
  <2>4. \E ok \in BOOLEAN, call \in {"none", "prepared", "used", "on", "off"} :
           engine' = [engine EXCEPT !.stdin = rest, !.stdout = out(ok), !.call = call]
    <3>1. CASE Carried
      <4> DEFINE call == CallAfter(Head(engine.stdin).op)
      <4>1. call \in {"none", "prepared", "used", "on", "off"}
        BY <1>0 DEF CallAfter, EngineType
      <4>2. engine' = [engine EXCEPT !.stdin = rest, !.stdout = out(TRUE), !.call = call]
        BY <3>1 DEF Carried
      <4> QED BY <4>1, <4>2
    <3>2. CASE Refused
      <4> DEFINE call == IF Head(engine.stdin).op = "start" THEN "used" ELSE engine.call
      <4>1. call \in {"none", "prepared", "used", "on", "off"}
        BY <1>0 DEF EngineType
      <4>2. engine' = [engine EXCEPT !.stdin = rest, !.stdout = out(FALSE), !.call = call]
        BY <3>2 DEF Refused
      <4> QED BY <4>1, <4>2
    <3> QED BY <1>26, <3>1, <3>2 DEF EngineServes
  <2>5. PICK ok \in BOOLEAN, call \in {"none", "prepared", "used", "on", "off"} :
           engine' = [engine EXCEPT !.stdin = rest, !.stdout = out(ok), !.call = call]
    BY <2>4
  <2> DEFINE written == out(ok)
  <2>6. written \in Seq(Output) /\ engine' = [engine EXCEPT !.stdin = rest, !.stdout = written, !.call = call]
    BY <2>3, <2>5
  <2> HIDE DEF written, out, rest
  <2>7. engine' \in EngineType
    BY <1>0, <2>3, <2>6 DEF EngineType
  <2> QED BY <1>26, <2>7 DEF EngineServes, MediaTypeOK
<1>27. CASE EngineReports
  <2>1. PICK state \in States : engine' = [engine EXCEPT !.link = state,
              !.stdout = Append(engine.stdout, [kind |-> "state", state |-> state])]
    BY <1>27 DEF EngineReports
  <2> DEFINE written == Append(engine.stdout, [kind |-> "state", state |-> state])
  <2>2. written \in Seq(Output)
    BY <1>0 DEF EngineType, Output
  <2>3. engine' = [engine EXCEPT !.link = state, !.stdout = written]
    BY <2>1
  <2> HIDE DEF written
  <2>4. engine' \in EngineType
    BY <1>0, <2>2, <2>3 DEF EngineType
  <2>5. count' \in [sends : 0..MaxSends, reports : 0..MaxReports]
    BY <1>n, <1>27 DEF EngineReports, Used, MediaTypeOK
  <2> QED BY <1>27, <2>4, <2>5 DEF EngineReports, MediaTypeOK
<1>28. CASE EngineExits
  <2>1. engine' \in EngineType
    BY <1>0, <1>28 DEF EngineExits, EngineType
  <2> QED BY <1>28, <2>1 DEF EngineExits, MediaTypeOK
<1>29. CASE UNCHANGED mediaVars
  BY <1>29 DEF mediaVars, MediaTypeOK
<1> QED
  BY <1>1, <1>2, <1>3, <1>4, <1>5, <1>6, <1>7, <1>8, <1>9, <1>10, <1>11, <1>12, <1>13, <1>14,
     <1>15, <1>16, <1>17, <1>18, <1>19, <1>20, <1>21, <1>22, <1>23, <1>24, <1>25, <1>26, <1>27,
     <1>28, <1>29 DEF MediaNext, Main, Reader, Voice, PlayerNoticed, Player

\* The types of all variables.  (live_voice.py, runtime.py, media_runtime.cpp)
THEOREM MediaTypeCorrect == MediaSpec => []MediaTypeOK
<1>1. MediaInit => MediaTypeOK
  BY MediaAtFirst
<1>2. MediaTypeOK /\ [MediaNext]_mediaVars => MediaTypeOK'
  BY MediaTypesKept
<1> QED BY <1>1, <1>2, PTL DEF MediaSpec

-----------------------------------------------------------------------------
(* The clean-up.                                                               *)

VoiceEnded == voice.pc \in {"none", "done"} /\ (voice.started => voice.confirmed)

\* The flag that keeps a session from beginning is set before the session is looked at, the
\* process is gone when it is let go of, and the second stop finds no process.
CleanedUp ==
    /\ main.pc \in {"join", "native", "stop", "close", "end", "done"} => media.stopping
    /\ main.pc \in {"native", "stop", "close", "end", "done"} /\ main.ok => VoiceEnded
    /\ ~ipc.open /\ main.pc \notin {"stop", "close"} => ~engine.up
    /\ main.pc \in {"end", "done"} => ~ipc.open
    /\ main.again => main.pc = "abort" \/ (main.pc \in {"quit", "join", "native", "end"} /\ ~ipc.open)

\* What the other threads do to it.
LEMMA OthersCleanUp ==
  ASSUME CleanedUp, UNCHANGED <<main, ipc>> \/ (UNCHANGED main /\ ipc'.open = ipc.open),
         media'.stopping = media.stopping, media.stopping /\ VoiceEnded => VoiceEnded',
         engine'.up => engine.up
  PROVE  CleanedUp'
<1>1. main' = main /\ ipc'.open = ipc.open
  OBVIOUS
<1>2. main.pc \in {"native", "stop", "close", "end", "done"} => media.stopping
  BY DEF CleanedUp
<1> QED BY <1>1, <1>2 DEF CleanedUp

\* Who sends a request, or hears of one, opens and closes nothing.
LEMMA CleanedUpKept == ASSUME MediaTypeOK, CleanedUp, [MediaNext]_mediaVars PROVE CleanedUp'
<1>0. /\ main \in MainType /\ waits \in WaitsType /\ ipc \in IpcType /\ engine \in EngineType
      /\ media \in MediaType /\ voice \in VoiceType
  BY DEF MediaTypeOK, WaitsType
<1>w. ASSUME NEW who, NEW op, Write(who, op) PROVE ipc'.open = ipc.open /\ engine'.up = engine.up
  BY <1>0, <1>w DEF Write, IpcType, EngineType
<1>a. ASSUME NEW who, NEW ok, Answer(who, ok) PROVE ipc'.open = ipc.open
  BY <1>0, <1>a DEF Answer, IpcType
<1>f. ASSUME NEW who, RequestFails(who) PROVE ipc'.open = ipc.open
  BY <1>a, <1>f DEF RequestFails
<1>1. CASE Start
  <2>1. main'.pc = "prepare" /\ main'.again = main.again /\ ipc'.open
    BY <1>0, <1>1 DEF Start, Goto, Spawn, MainType, IpcType
  <2>2. ~main.again
    BY <1>1 DEF Start, CleanedUp
  <2> QED BY <2>1, <2>2 DEF CleanedUp
<1>2. CASE MainWrites \/ PlayerWrites
  <2>1. ipc'.open = ipc.open /\ engine'.up = engine.up
    BY <1>2, <1>w DEF MainWrites, PlayerWrites
  <2> QED BY <1>2, <2>1, OthersCleanUp DEF MainWrites, PlayerWrites, VoiceEnded
<1>3. CASE MainAnswered
  <2>1. ipc'.open = ipc.open
    BY <1>3, <1>a DEF MainAnswered
  <2>2. main'.ok = main.ok /\ main'.again = main.again /\ main.pc \in Requests
        /\ main'.pc = (IF main.pc = "prepare" THEN "start" ELSE IF main.pc = "stop" THEN "close" ELSE "running")
    BY <1>0, <1>3 DEF MainAnswered, Goto, MainType, Requests
  <2> QED BY <1>3, <2>1, <2>2 DEF MainAnswered, CleanedUp, VoiceEnded, Requests
<1>4. CASE MainFails
  <2>1. ipc'.open = ipc.open
    BY <1>4, <1>f DEF MainFails
  <2>2. /\ main.pc \in {"prepare", "start"} => main'.pc = "abort"
        /\ main.pc = "signal" => main'.pc = "quit" /\ main'.again = main.again
        /\ main.pc = "stop" => main'.pc = "close" /\ ~main'.ok /\ main'.again = main.again
        /\ main.pc \in {"prepare", "start", "signal", "stop"}
    BY <1>0, <1>4 DEF MainFails, MainType, Requests
  <2> QED BY <1>4, <2>1, <2>2 DEF MainFails, CleanedUp, VoiceEnded
<1>5. CASE Drain \/ Hangup \/ Signal
  <2>1. main'.ok = main.ok /\ main'.again = main.again
        /\ main.pc = "running" /\ main'.pc \in {"running", "signal", "quit"}
    BY <1>0, <1>5 DEF Drain, Hangup, Signal, Goto, MainType
  <2> QED BY <1>5, <2>1 DEF Drain, Hangup, Signal, CleanedUp, VoiceEnded
<1>6. CASE Quit
  <2>1. main'.ok = main.ok /\ main'.again = main.again /\ main'.pc = "join" /\ media'.stopping
    BY <1>0, <1>6 DEF Quit, Goto, MainType, MediaType
  <2> QED BY <1>6, <2>1 DEF Quit, CleanedUp
<1>7. CASE Join
  <2> DEFINE ended == main.ok /\ voice.pc \in {"none", "done"} /\ (voice.started => voice.confirmed)
  <2>1. main' = [main EXCEPT !.pc = "native", !.ok = ended]
    BY <1>7 DEF Join
  <2>2. ended => VoiceEnded
    BY DEF VoiceEnded
  <2> HIDE DEF ended
  <2>3. main'.ok = ended /\ main'.again = main.again /\ main'.pc = "native"
    BY <1>0, <2>1 DEF MainType
  <2> QED BY <1>7, <2>2, <2>3 DEF Join, CleanedUp, VoiceEnded
<1>8. CASE StopNative
  <2>1. main'.ok = main.ok /\ main'.again = main.again
        /\ main'.pc = (IF ipc.open THEN "stop" ELSE "end") /\ ~ipc'.open
    BY <1>0, <1>8 DEF StopNative, Goto, MainType, IpcType
  <2> QED BY <1>8, <2>1 DEF StopNative, CleanedUp, VoiceEnded
<1>9. CASE CloseIPC
  <2>1. ipc'.open = ipc.open
    BY <1>0, <1>9 DEF CloseIPC, IpcType
  <2> QED BY <1>9, <2>1, OthersCleanUp DEF CloseIPC, VoiceEnded
<1>10. CASE Exited
  <2>1. ~engine'.up /\ ~ipc'.open
    BY <1>0, <1>10 DEF Exited, EngineType, IpcType
  <2> DEFINE gone == main.ok /\ ~engine.up
  <2>2. main' = (IF main.pc = "abort" THEN [main EXCEPT !.pc = "quit"]
                                      ELSE [main EXCEPT !.pc = "end", !.ok = gone])
        /\ main.pc \in {"abort", "close"}
    BY <1>10 DEF Exited
  <2>3. gone => main.ok
    OBVIOUS
  <2> HIDE DEF gone
  <2>4. /\ main.pc = "abort" => main'.pc = "quit"
        /\ main.pc = "close" => main'.pc = "end" /\ main'.again = main.again /\ (main'.ok => main.ok)
    BY <1>0, <2>2, <2>3 DEF MainType
  <2> QED BY <1>10, <2>1, <2>2, <2>4 DEF Exited, CleanedUp, VoiceEnded
<1>11. CASE End
  <2>1. /\ main.again => main'.pc = "quit" /\ ~main'.again
        /\ ~main.again => main'.pc = "done" /\ ~main'.again /\ main'.ok = main.ok
        /\ main.pc = "end"
    BY <1>0, <1>11 DEF End, MainType
  <2> QED BY <1>11, <2>1 DEF End, CleanedUp, VoiceEnded
<1>12. CASE ReadState \/ ReadReply \/ BadFrame \/ EndOfFile
  <2>1. media'.stopping = media.stopping /\ (media.stopping => voice' = voice)
    <3>1. CASE ReadState
      <4>1. engine.stdout # <<>> /\ Head(engine.stdout) \in Output
        BY <1>0, <3>1 DEF ReadState, Reads, EngineType
      <4>2. Head(engine.stdout).state \in States
        BY <3>1, <4>1 DEF ReadState, Reads, Output
      <4> QED BY <3>1, <4>2, NativeStateTypes DEF ReadState
    <3>2. CASE ReaderLeaves(TRUE) \/ ReaderLeaves(FALSE)
      BY <3>2, LeaveTypes
    <3>3. CASE UNCHANGED <<media, voice>>
      BY <3>3
    <3> QED BY <1>12, <3>1, <3>2, <3>3 DEF ReadReply, BadFrame, EndOfFile
  <2>2. engine'.up = engine.up /\ ipc'.open = ipc.open
    <3>1. engine' = [engine EXCEPT !.stdout = Tail(@)] \/ engine' = engine
      BY <1>12 DEF ReadState, ReadReply, Reads, BadFrame, EndOfFile
    <3>2. ipc' = ipc \/ \E x : ipc' = [ipc EXCEPT !.replies = x]
      BY <1>12 DEF ReadState, ReadReply, BadFrame, EndOfFile
    <3> QED BY <1>0, <3>1, <3>2 DEF EngineType, IpcType
  <2>3. main' = main
    BY <1>12 DEF ReadState, ReadReply, BadFrame, EndOfFile
  <2> QED BY <2>1, <2>2, <2>3, OthersCleanUp DEF VoiceEnded
<1>13. CASE SessionStarts \/ SessionStops \/ SessionFails \/ SessionTimeLimit \/ HangsUp \/ SessionCloses \/ ThreadEnds
  <2>1. UNCHANGED <<main, ipc, engine, media>>
    BY <1>13 DEF SessionStarts, SessionStops, SessionFails, SessionTimeLimit, HangsUp,
       SessionCloses, ThreadEnds
  <2>2. voice.pc \notin {"none", "done"}
    BY <1>13 DEF SessionStarts, SessionStops, SessionFails, SessionTimeLimit, HangsUp,
       SessionCloses, ThreadEnds, Speaking
  <2> QED BY <2>1, <2>2, OthersCleanUp DEF VoiceEnded
<1>14. CASE Chunk \/ PlayerChecks
  BY <1>14, OthersCleanUp DEF Chunk, PlayerChecks, VoiceEnded
<1>15. CASE PlayerAnswered \/ PlayerFails
  <2>1. ipc'.open = ipc.open
    BY <1>15, <1>a, <1>f DEF PlayerAnswered, PlayerFails
  <2> QED BY <1>15, <2>1, OthersCleanUp DEF PlayerAnswered, PlayerFails, VoiceEnded
<1>16. CASE EngineServes \/ EngineReports \/ EngineExits
  <2>1. engine'.up => engine.up
    <3>1. CASE engine' = [engine EXCEPT !.up = FALSE]
      BY <1>0, <3>1 DEF EngineType
    <3>2. CASE EngineReports
      BY <1>0, <3>2 DEF EngineReports, EngineType
    <3>3. CASE \E x, y, z : engine' = [engine EXCEPT !.stdin = x, !.stdout = y, !.call = z]
      BY <1>0, <3>3 DEF EngineType
    <3>4. EngineServes => \E x, y, z : engine' = [engine EXCEPT !.stdin = x, !.stdout = y, !.call = z]
      <4>1. Carried => \E x, y, z : engine' = [engine EXCEPT !.stdin = x, !.stdout = y, !.call = z]
        BY DEF Carried
      <4>2. Refused => \E x, y, z : engine' = [engine EXCEPT !.stdin = x, !.stdout = y, !.call = z]
        BY DEF Refused
      <4> QED BY <4>1, <4>2 DEF EngineServes
    <3> QED BY <1>16, <3>1, <3>2, <3>3, <3>4 DEF EngineExits
  <2> QED BY <1>16, <2>1, OthersCleanUp DEF EngineServes, EngineReports, EngineExits, VoiceEnded
<1>17. CASE UNCHANGED mediaVars
  BY <1>17, OthersCleanUp DEF mediaVars, VoiceEnded
<1> QED
  BY <1>1, <1>2, <1>3, <1>4, <1>5, <1>6, <1>7, <1>8, <1>9, <1>10, <1>11, <1>12, <1>13, <1>14,
     <1>15, <1>16, <1>17 DEF MediaNext, Main, Reader, Voice, PlayerNoticed, Player

\* What a call reports as cleaned up is: no speech session runs or is about to, the service
\* confirmed the end of one that had started, and the engine is gone.
\* (live_voice.py:420-425 and 501-506, runtime.py:104-118)
THEOREM MediaCleanedUp == MediaSpec => []CleanupIsReal
<1>1. MediaInit => MediaTypeOK /\ CleanedUp
  BY MediaAtFirst DEF MediaInit, CleanedUp
<1>2. MediaTypeOK /\ CleanedUp /\ [MediaNext]_mediaVars => MediaTypeOK' /\ CleanedUp'
  BY MediaTypesKept, CleanedUpKept
<1>3. CleanedUp => CleanupIsReal
  BY DEF CleanedUp, VoiceEnded, CleanupIsReal
<1> QED BY <1>1, <1>2, <1>3, PTL DEF MediaSpec

-----------------------------------------------------------------------------
(* Requests and replies, in the pipes and in the table.                        *)

Early == {"idle", "prepare", "start", "running", "signal"}

IsReply(out) == out.kind = "reply"

\* Numbers grow from the table to the requests that the engine has not read.
InPipe(stdin, last) ==
    /\ \A i \in 1..Len(stdin) : stdin[i].id <= last
    /\ \A i, j \in 1..Len(stdin) : i < j => stdin[i].id < stdin[j].id

OutPipe(stdin, stdout, last) ==
    /\ \A i \in 1..Len(stdout) : IsReply(stdout[i]) => stdout[i].id <= last
    /\ \A i \in 1..Len(stdout), j \in 1..Len(stdin) :
          IsReply(stdout[i]) => stdout[i].id < stdin[j].id
    /\ \A i, j \in 1..Len(stdout) :
          i < j /\ IsReply(stdout[i]) /\ IsReply(stdout[j]) => stdout[i].id < stdout[j].id

InTable(stdin, stdout, replies, last) ==
    /\ \A r \in replies : r.id <= last
    /\ \A r \in replies, j \in 1..Len(stdin) : r.id < stdin[j].id
    /\ \A r \in replies, j \in 1..Len(stdout) : IsReply(stdout[j]) => r.id < stdout[j].id
    /\ \A r, s \in replies : r.id = s.id => r = s

Ordered(stdin, stdout, replies, last) ==
    InPipe(stdin, last) /\ OutPipe(stdin, stdout, last) /\ InTable(stdin, stdout, replies, last)

\* The reply to n, on its way or in the table, is that it was carried out.
Told(n, stdout, replies) ==
    \/ \E i \in 1..Len(stdout) : IsReply(stdout[i]) /\ stdout[i].id = n /\ stdout[i].ok
    \/ \E r \in replies : r.id = n /\ r.ok

\* No other numbers than ids are anywhere.
Only(ids, stdin, stdout, replies) ==
    /\ \A i \in 1..Len(stdin) : stdin[i].id \in ids
    /\ \A i \in 1..Len(stdout) : IsReply(stdout[i]) => stdout[i].id \in ids
    /\ \A r \in replies : r.id \in ids

LEMMA TailFacts ==
  ASSUME NEW X, NEW s \in Seq(X), s # <<>>
  PROVE  /\ Tail(s) \in Seq(X) /\ Len(s) \in Nat /\ Len(Tail(s)) = Len(s) - 1
         /\ 1 \in 1..Len(s) /\ Head(s) = s[1] /\ s[1] \in X
         /\ \A i \in 1..Len(Tail(s)) : Tail(s)[i] = s[i + 1] /\ i + 1 \in 1..Len(s) /\ i + 1 > 1
OBVIOUS

LEMMA AppendFacts ==
  ASSUME NEW X, NEW s \in Seq(X), NEW x \in X
  PROVE  /\ Append(s, x) \in Seq(X) /\ Len(s) \in Nat /\ Len(Append(s, x)) = Len(s) + 1
         /\ \A i \in 1..Len(s) : Append(s, x)[i] = s[i] /\ s[i] \in X
         /\ Append(s, x)[Len(s) + 1] = x
         /\ \A i \in 1..(Len(s) + 1) : i \in 1..Len(s) \/ i = Len(s) + 1
OBVIOUS

LEMMA PipeFacts == \A x \in Pipe : x.id \in Nat /\ x.id > 0
  BY DEF Pipe, Numbers

LEMMA OutputFacts ==
  ASSUME NEW x \in Output, IsReply(x)
  PROVE  x.id \in Nat /\ x.id > 0 /\ x.ok \in BOOLEAN
  BY DEF Output, Numbers, IsReply

LEMMA ReplyFacts == \A x \in Replies : x.id \in Nat /\ x.id > 0 /\ x.ok \in BOOLEAN
  BY DEF Replies, Numbers

\* A new request.
LEMMA WriteOrdered ==
  ASSUME NEW stdin \in Seq(Pipe), NEW stdout \in Seq(Output), NEW replies \in SUBSET Replies,
         NEW last \in Nat, Ordered(stdin, stdout, replies, last),
         NEW x \in Pipe, x.id = last + 1
  PROVE  Ordered(Append(stdin, x), stdout, replies, last + 1)
<1> DEFINE new == Append(stdin, x)
<1>1. /\ Len(stdin) \in Nat /\ Len(new) = Len(stdin) + 1
      /\ \A i \in 1..Len(stdin) : new[i] = stdin[i] /\ stdin[i] \in Pipe
      /\ new[Len(stdin) + 1] = x
      /\ \A i \in 1..(Len(stdin) + 1) : i \in 1..Len(stdin) \/ i = Len(stdin) + 1
  BY AppendFacts
<1>2. \A i \in 1..Len(stdout) : IsReply(stdout[i]) => stdout[i].id \in Nat
  BY OutputFacts
<1>3. \A i \in 1..Len(stdin) : stdin[i].id \in Nat
  BY <1>1, PipeFacts
<1> HIDE DEF new
<1>4. /\ \A i \in 1..Len(new) : new[i].id <= last + 1
      /\ \A i, j \in 1..Len(new) : i < j => new[i].id < new[j].id
  <2>1. \A i \in 1..Len(stdin) : stdin[i].id <= last
    BY DEF Ordered, InPipe, OutPipe, InTable
  <2>2. \A i, j \in 1..Len(stdin) : i < j => stdin[i].id < stdin[j].id
    BY DEF Ordered, InPipe, OutPipe, InTable
  <2>3. \A i \in 1..Len(new) : new[i].id <= last + 1
    BY <1>1, <1>3, <2>1
  <2>4. ASSUME NEW i \in 1..Len(new), NEW j \in 1..Len(new), i < j
        PROVE  new[i].id < new[j].id
    <3>1. i \in 1..Len(stdin)
      BY <1>1, <2>4
    <3>2. CASE j \in 1..Len(stdin)
      BY <1>1, <2>2, <2>4, <3>1, <3>2
    <3>3. CASE j = Len(stdin) + 1
      BY <1>1, <1>3, <2>1, <3>1, <3>3
    <3> QED BY <1>1, <3>2, <3>3
  <2> QED BY <2>3, <2>4
<1>5. /\ \A i \in 1..Len(stdout) : IsReply(stdout[i]) => stdout[i].id <= last + 1
      /\ \A i \in 1..Len(stdout), j \in 1..Len(new) :
            IsReply(stdout[i]) => stdout[i].id < new[j].id
      /\ \A i, j \in 1..Len(stdout) :
            i < j /\ IsReply(stdout[i]) /\ IsReply(stdout[j]) => stdout[i].id < stdout[j].id
  <2>1. \A i \in 1..Len(stdout) : IsReply(stdout[i]) => stdout[i].id <= last
    BY DEF Ordered, InPipe, OutPipe, InTable
  <2>2. \A i \in 1..Len(stdout), j \in 1..Len(stdin) : IsReply(stdout[i]) => stdout[i].id < stdin[j].id
    BY DEF Ordered, InPipe, OutPipe, InTable
  <2>3. \A i, j \in 1..Len(stdout) :
           i < j /\ IsReply(stdout[i]) /\ IsReply(stdout[j]) => stdout[i].id < stdout[j].id
    BY DEF Ordered, InPipe, OutPipe, InTable
  <2>4. \A i \in 1..Len(stdout) : IsReply(stdout[i]) => stdout[i].id < x.id
    BY <1>2, <2>1
  <2>5. \A i \in 1..Len(stdout) : IsReply(stdout[i]) => stdout[i].id <= last + 1
    BY <1>2, <2>1
  <2>6. \A i \in 1..Len(stdout), j \in 1..Len(new) : IsReply(stdout[i]) => stdout[i].id < new[j].id
    BY <1>1, <2>2, <2>4
  <2> QED BY <2>3, <2>5, <2>6
<1>6. /\ \A r \in replies : r.id <= last + 1
      /\ \A r \in replies, j \in 1..Len(new) : r.id < new[j].id
      /\ \A r \in replies, j \in 1..Len(stdout) : IsReply(stdout[j]) => r.id < stdout[j].id
      /\ \A r, s \in replies : r.id = s.id => r = s
  <2>1. \A r \in replies : r.id \in Nat /\ r.id <= last
    BY ReplyFacts DEF Ordered, InPipe, OutPipe, InTable
  <2>2. \A r \in replies, j \in 1..Len(stdin) : r.id < stdin[j].id
    BY DEF Ordered, InPipe, OutPipe, InTable
  <2>3. \A r \in replies : r.id <= last + 1 /\ r.id < x.id
    BY <2>1
  <2>4. \A r \in replies, j \in 1..Len(new) : r.id < new[j].id
    BY <1>1, <2>2, <2>3
  <2>5. /\ \A r \in replies, j \in 1..Len(stdout) : IsReply(stdout[j]) => r.id < stdout[j].id
        /\ \A r, s \in replies : r.id = s.id => r = s
    BY DEF Ordered, InPipe, OutPipe, InTable
  <2> QED BY <2>3, <2>4, <2>5
<1>7. InPipe(new, last + 1) /\ OutPipe(new, stdout, last + 1) /\ InTable(new, stdout, replies, last + 1)
  BY <1>4, <1>5, <1>6 DEF InPipe, OutPipe, InTable
<1> QED BY <1>7 DEF new, Ordered

LEMMA WriteOnly ==
  ASSUME NEW stdin \in Seq(Pipe), NEW stdout \in Seq(Output), NEW replies \in SUBSET Replies,
         NEW ids, NEW more, NEW x \in Pipe, Only(ids, stdin, stdout, replies),
         x.id \in more, ids \cap Numbers \subseteq more
  PROVE  Only(more, Append(stdin, x), stdout, replies)
<1> DEFINE new == Append(stdin, x)
<1>1. /\ Len(stdin) \in Nat /\ Len(new) = Len(stdin) + 1
      /\ \A i \in 1..Len(stdin) : new[i] = stdin[i] /\ stdin[i] \in Pipe
      /\ new[Len(stdin) + 1] = x
      /\ \A i \in 1..(Len(stdin) + 1) : i \in 1..Len(stdin) \/ i = Len(stdin) + 1
  BY AppendFacts
<1>2. \A i \in 1..Len(stdout) : IsReply(stdout[i]) => stdout[i].id \in Numbers
  BY OutputFacts DEF Numbers
<1>3. \A i \in 1..Len(stdin) : stdin[i].id \in Numbers
  BY <1>1, PipeFacts DEF Numbers
<1>4. \A r \in replies : r.id \in Numbers
  BY ReplyFacts DEF Numbers
<1> HIDE DEF new
<1> QED BY <1>1, <1>2, <1>3, <1>4 DEF Only

\* The engine's answer to the request it reads.
LEMMA ServeOrdered ==
  ASSUME NEW stdin \in Seq(Pipe), NEW stdout \in Seq(Output), NEW replies \in SUBSET Replies,
         NEW last \in Nat, Ordered(stdin, stdout, replies, last), stdin # <<>>,
         NEW x \in Output, IsReply(x), x.id = Head(stdin).id
  PROVE  Ordered(Tail(stdin), Append(stdout, x), replies, last)
<1> DEFINE rest == Tail(stdin)
           out == Append(stdout, x)
<1>1. /\ Len(stdin) \in Nat /\ Len(rest) = Len(stdin) - 1
      /\ 1 \in 1..Len(stdin) /\ Head(stdin) = stdin[1]
      /\ \A i \in 1..Len(rest) : rest[i] = stdin[i + 1] /\ i + 1 \in 1..Len(stdin) /\ i + 1 > 1
  BY TailFacts
<1>2. /\ Len(stdout) \in Nat /\ Len(out) = Len(stdout) + 1
      /\ \A i \in 1..Len(stdout) : out[i] = stdout[i]
      /\ out[Len(stdout) + 1] = x
      /\ \A i \in 1..(Len(stdout) + 1) : i \in 1..Len(stdout) \/ i = Len(stdout) + 1
  BY AppendFacts
<1>3. x.id = stdin[1].id
  BY <1>1
<1> HIDE DEF rest, out
<1>4. /\ \A i \in 1..Len(rest) : rest[i].id <= last
      /\ \A i, j \in 1..Len(rest) : i < j => rest[i].id < rest[j].id
  <2>1. \A i \in 1..Len(rest) : rest[i].id <= last
    BY <1>1 DEF Ordered, InPipe, OutPipe, InTable
  <2>2. ASSUME NEW i \in 1..Len(rest), NEW j \in 1..Len(rest), i < j
        PROVE  rest[i].id < rest[j].id
    <3>1. i + 1 \in 1..Len(stdin) /\ j + 1 \in 1..Len(stdin) /\ i + 1 < j + 1
      BY <1>1, <2>2
    <3>2. stdin[i + 1].id < stdin[j + 1].id
      BY <3>1 DEF Ordered, InPipe, OutPipe, InTable
    <3> QED BY <1>1, <3>2
  <2> QED BY <2>1, <2>2
<1>5. \A i \in 1..Len(out) : IsReply(out[i]) => out[i].id <= last
  <2>1. x.id <= last /\ \A i \in 1..Len(stdout) : IsReply(stdout[i]) => stdout[i].id <= last
    BY <1>1, <1>3 DEF Ordered, InPipe, OutPipe, InTable
  <2> QED BY <1>2, <2>1
<1>6. \A i \in 1..Len(out), j \in 1..Len(rest) : IsReply(out[i]) => out[i].id < rest[j].id
  <2>1. \A j \in 1..Len(rest) : x.id < rest[j].id
    BY <1>1, <1>3 DEF Ordered, InPipe, OutPipe, InTable
  <2>2. \A i \in 1..Len(stdout), j \in 1..Len(rest) : IsReply(stdout[i]) => stdout[i].id < rest[j].id
    BY <1>1 DEF Ordered, InPipe, OutPipe, InTable
  <2> QED BY <1>2, <2>1, <2>2
<1>7. \A i, j \in 1..Len(out) :
         i < j /\ IsReply(out[i]) /\ IsReply(out[j]) => out[i].id < out[j].id
  <2>1. \A i \in 1..Len(stdout) : IsReply(stdout[i]) => stdout[i].id < x.id
    BY <1>1, <1>3 DEF Ordered, InPipe, OutPipe, InTable
  <2>2. \A i, j \in 1..Len(stdout) :
           i < j /\ IsReply(stdout[i]) /\ IsReply(stdout[j]) => stdout[i].id < stdout[j].id
    BY DEF Ordered, InPipe, OutPipe, InTable
  <2>3. \A i, j \in 1..Len(out) : i < j => i \in 1..Len(stdout)
    BY <1>2
  <2> QED BY <1>2, <2>1, <2>2, <2>3
<1>8. /\ \A r \in replies : r.id <= last
      /\ \A r \in replies, j \in 1..Len(rest) : r.id < rest[j].id
      /\ \A r \in replies, j \in 1..Len(out) : IsReply(out[j]) => r.id < out[j].id
      /\ \A r, s \in replies : r.id = s.id => r = s
  <2>1. \A r \in replies : r.id <= last /\ r.id < x.id
    BY <1>1, <1>3 DEF Ordered, InPipe, OutPipe, InTable
  <2>2. \A r \in replies, j \in 1..Len(rest) : r.id < rest[j].id
    BY <1>1 DEF Ordered, InPipe, OutPipe, InTable
  <2>3. \A r \in replies, j \in 1..Len(stdout) : IsReply(stdout[j]) => r.id < stdout[j].id
    BY DEF Ordered, InPipe, OutPipe, InTable
  <2>4. \A r \in replies, j \in 1..Len(out) : IsReply(out[j]) => r.id < out[j].id
    BY <1>2, <2>1, <2>3
  <2>5. \A r, s \in replies : r.id = s.id => r = s
    BY DEF Ordered, InPipe, OutPipe, InTable
  <2> QED BY <2>1, <2>2, <2>4, <2>5
<1>9. InPipe(rest, last) /\ OutPipe(rest, out, last) /\ InTable(rest, out, replies, last)
  BY <1>4, <1>5, <1>6, <1>7, <1>8 DEF InPipe, OutPipe, InTable
<1> QED BY <1>9 DEF rest, out, Ordered

LEMMA ServeOnly ==
  ASSUME NEW stdin \in Seq(Pipe), NEW stdout \in Seq(Output), NEW replies,
         NEW ids, Only(ids, stdin, stdout, replies), stdin # <<>>,
         NEW x \in Output, x.id = Head(stdin).id
  PROVE  Only(ids, Tail(stdin), Append(stdout, x), replies)
<1> DEFINE rest == Tail(stdin)
           out == Append(stdout, x)
<1>1. /\ Len(stdin) \in Nat /\ Len(rest) = Len(stdin) - 1
      /\ 1 \in 1..Len(stdin) /\ Head(stdin) = stdin[1]
      /\ \A i \in 1..Len(rest) : rest[i] = stdin[i + 1] /\ i + 1 \in 1..Len(stdin) /\ i + 1 > 1
  BY TailFacts
<1>2. /\ Len(stdout) \in Nat /\ Len(out) = Len(stdout) + 1
      /\ \A i \in 1..Len(stdout) : out[i] = stdout[i]
      /\ out[Len(stdout) + 1] = x
      /\ \A i \in 1..(Len(stdout) + 1) : i \in 1..Len(stdout) \/ i = Len(stdout) + 1
  BY AppendFacts
<1>3. x.id = stdin[1].id
  BY <1>1
<1> HIDE DEF rest, out
<1> QED BY <1>1, <1>2, <1>3 DEF Only

\* What the reader takes: a reply goes to the table, a state does not.
LEMMA ReadOrdered ==
  ASSUME NEW stdin \in Seq(Pipe), NEW stdout \in Seq(Output), NEW replies \in SUBSET Replies,
         NEW last \in Nat, Ordered(stdin, stdout, replies, last), stdout # <<>>,
         NEW kept, kept = replies \/ (IsReply(Head(stdout)) /\
           kept = replies \cup {[id |-> Head(stdout).id, ok |-> Head(stdout).ok]})
  PROVE  Ordered(stdin, Tail(stdout), kept, last)
<1> DEFINE rest == Tail(stdout)
           x == [id |-> Head(stdout).id, ok |-> Head(stdout).ok]
<1>1. /\ Len(stdout) \in Nat /\ Len(rest) = Len(stdout) - 1
      /\ 1 \in 1..Len(stdout) /\ Head(stdout) = stdout[1] /\ stdout[1] \in Output
      /\ \A i \in 1..Len(rest) : rest[i] = stdout[i + 1] /\ i + 1 \in 1..Len(stdout) /\ i + 1 > 1
  BY TailFacts
<1>2. kept = replies \/ (IsReply(stdout[1]) /\ kept = replies \cup {x})
  BY <1>1
<1>3. x.id = stdout[1].id
  BY <1>1
<1>4. \A r \in replies : r.id \in Nat
  BY ReplyFacts
<1>5. IsReply(stdout[1]) => stdout[1].id \in Nat
  BY <1>1, OutputFacts
<1> HIDE DEF rest, x
<1>6. /\ \A i \in 1..Len(rest) : IsReply(rest[i]) => rest[i].id <= last
      /\ \A i \in 1..Len(rest), j \in 1..Len(stdin) : IsReply(rest[i]) => rest[i].id < stdin[j].id
      /\ \A i, j \in 1..Len(rest) :
            i < j /\ IsReply(rest[i]) /\ IsReply(rest[j]) => rest[i].id < rest[j].id
  <2>1. \A i \in 1..Len(rest) : IsReply(rest[i]) => rest[i].id <= last
    BY <1>1 DEF Ordered, InPipe, OutPipe, InTable
  <2>2. \A i \in 1..Len(rest), j \in 1..Len(stdin) : IsReply(rest[i]) => rest[i].id < stdin[j].id
    BY <1>1 DEF Ordered, InPipe, OutPipe, InTable
  <2>3. ASSUME NEW i \in 1..Len(rest), NEW j \in 1..Len(rest), i < j,
               IsReply(rest[i]), IsReply(rest[j])
        PROVE  rest[i].id < rest[j].id
    <3>1. i + 1 \in 1..Len(stdout) /\ j + 1 \in 1..Len(stdout) /\ i + 1 < j + 1
      BY <1>1, <2>3
    <3>2. stdout[i + 1].id < stdout[j + 1].id
      BY <1>1, <2>3, <3>1 DEF Ordered, InPipe, OutPipe, InTable
    <3> QED BY <1>1, <3>2
  <2> QED BY <2>1, <2>2, <2>3
<1>7. /\ \A r \in kept : r.id <= last
      /\ \A r \in kept, j \in 1..Len(stdin) : r.id < stdin[j].id
  BY <1>1, <1>2, <1>3 DEF Ordered, InPipe, OutPipe, InTable
<1>8. \A r \in kept, j \in 1..Len(rest) : IsReply(rest[j]) => r.id < rest[j].id
  <2>1. \A r \in replies, j \in 1..Len(rest) : IsReply(rest[j]) => r.id < rest[j].id
    BY <1>1 DEF Ordered, InPipe, OutPipe, InTable
  <2>2. ASSUME IsReply(stdout[1]), NEW j \in 1..Len(rest), IsReply(rest[j])
        PROVE  x.id < rest[j].id
    <3>1. rest[j] = stdout[j + 1] /\ j + 1 \in 1..Len(stdout) /\ 1 < j + 1
      BY <1>1
    <3>2. stdout[1].id < stdout[j + 1].id
      BY <1>1, <2>2, <3>1 DEF Ordered, InPipe, OutPipe, InTable
    <3> QED BY <1>3, <3>1, <3>2
  <2> QED BY <1>2, <2>1, <2>2
<1>9. \A r, s \in kept : r.id = s.id => r = s
  <2>1. IsReply(stdout[1]) => \A r \in replies : r.id < x.id
    BY <1>1, <1>3 DEF Ordered, InPipe, OutPipe, InTable
  <2> QED BY <1>2, <1>3, <1>4, <1>5, <2>1 DEF Ordered, InPipe, OutPipe, InTable
<1>10. InPipe(stdin, last) /\ OutPipe(stdin, rest, last) /\ InTable(stdin, rest, kept, last)
  <2>1. InPipe(stdin, last)
    BY DEF Ordered
  <2>2. OutPipe(stdin, rest, last)
    BY <1>6 DEF OutPipe
  <2>3. InTable(stdin, rest, kept, last)
    BY <1>7, <1>8, <1>9 DEF InTable
  <2> QED BY <2>1, <2>2, <2>3
<1> QED BY <1>10 DEF rest, Ordered

LEMMA ReadOnly ==
  ASSUME NEW stdin, NEW stdout \in Seq(Output), NEW replies, NEW ids,
         Only(ids, stdin, stdout, replies), stdout # <<>>,
         NEW kept, kept = replies \/ (IsReply(Head(stdout)) /\
           kept = replies \cup {[id |-> Head(stdout).id, ok |-> Head(stdout).ok]})
  PROVE  Only(ids, stdin, Tail(stdout), kept)
<1> DEFINE rest == Tail(stdout)
           x == [id |-> Head(stdout).id, ok |-> Head(stdout).ok]
<1>1. /\ Len(stdout) \in Nat /\ Len(rest) = Len(stdout) - 1
      /\ 1 \in 1..Len(stdout) /\ Head(stdout) = stdout[1]
      /\ \A i \in 1..Len(rest) : rest[i] = stdout[i + 1] /\ i + 1 \in 1..Len(stdout) /\ i + 1 > 1
  BY TailFacts
<1>2. kept = replies \/ (IsReply(stdout[1]) /\ kept = replies \cup {x})
  BY <1>1
<1>3. x.id = stdout[1].id
  BY <1>1
<1> HIDE DEF rest, x
<1> QED BY <1>1, <1>2, <1>3 DEF Only

\* The reader's step tells no requester more than the pipe did.
LEMMA ReadTold ==
  ASSUME NEW stdout \in Seq(Output), NEW replies, stdout # <<>>,
         NEW kept, kept = replies \/ (IsReply(Head(stdout)) /\
           kept = replies \cup {[id |-> Head(stdout).id, ok |-> Head(stdout).ok]}),
         NEW n, Told(n, Tail(stdout), kept)
  PROVE  Told(n, stdout, replies)
<1> DEFINE rest == Tail(stdout)
           x == [id |-> Head(stdout).id, ok |-> Head(stdout).ok]
<1>1. /\ Len(stdout) \in Nat /\ Len(rest) = Len(stdout) - 1
      /\ 1 \in 1..Len(stdout) /\ Head(stdout) = stdout[1]
      /\ \A i \in 1..Len(rest) : rest[i] = stdout[i + 1] /\ i + 1 \in 1..Len(stdout) /\ i + 1 > 1
  BY TailFacts
<1>2. kept = replies \/ (IsReply(stdout[1]) /\ kept = replies \cup {x})
  BY <1>1
<1>3. x.id = stdout[1].id /\ x.ok = stdout[1].ok
  BY <1>1
<1>4. Told(n, rest, kept)
  OBVIOUS
<1> HIDE DEF rest, x
<1> QED BY <1>1, <1>2, <1>3, <1>4 DEF Told

\* A state the engine writes is no reply.
LEMMA ReportKeeps ==
  ASSUME NEW stdin, NEW stdout \in Seq(Output), NEW replies, NEW last,
         NEW x \in Output, ~IsReply(x)
  PROVE  /\ Ordered(stdin, stdout, replies, last) => Ordered(stdin, Append(stdout, x), replies, last)
         /\ \A ids : Only(ids, stdin, stdout, replies) => Only(ids, stdin, Append(stdout, x), replies)
         /\ \A n : Told(n, Append(stdout, x), replies) => Told(n, stdout, replies)
<1> DEFINE out == Append(stdout, x)
<1>1. /\ Len(stdout) \in Nat /\ Len(out) = Len(stdout) + 1
      /\ \A i \in 1..Len(stdout) : out[i] = stdout[i]
      /\ out[Len(stdout) + 1] = x
      /\ \A i \in 1..(Len(stdout) + 1) : i \in 1..Len(stdout) \/ i = Len(stdout) + 1
  BY AppendFacts
<1>2. \A i \in 1..Len(out) : IsReply(out[i]) => i \in 1..Len(stdout) /\ out[i] = stdout[i]
  BY <1>1
<1> HIDE DEF out
<1>3. Ordered(stdin, stdout, replies, last) => Ordered(stdin, out, replies, last)
  BY <1>2 DEF Ordered, InPipe, OutPipe, InTable
<1>4. ASSUME NEW ids, Only(ids, stdin, stdout, replies) PROVE Only(ids, stdin, out, replies)
  BY <1>2, <1>4 DEF Only
<1>5. ASSUME NEW n, Told(n, out, replies) PROVE Told(n, stdout, replies)
  BY <1>2, <1>5 DEF Told
<1> QED BY <1>3, <1>4, <1>5 DEF out

\* A reply is fetched: its number is in no place any more.
LEMMA AnswerFacts ==
  ASSUME NEW stdin \in Seq(Pipe), NEW stdout \in Seq(Output), NEW replies \in SUBSET Replies,
         NEW last, Ordered(stdin, stdout, replies, last), NEW r \in replies
  PROVE  /\ Ordered(stdin, stdout, replies \ {r}, last)
         /\ \A i \in 1..Len(stdin) : r.id < stdin[i].id
         /\ \A ids : Only(ids, stdin, stdout, replies) => Only(ids \ {r.id}, stdin, stdout, replies \ {r})
         /\ \A n : Told(n, stdout, replies \ {r}) => Told(n, stdout, replies)
<1>1. \A i \in 1..Len(stdin) : r.id < stdin[i].id /\ stdin[i].id # r.id
  <2>1. \A i \in 1..Len(stdin) : stdin[i].id \in Nat
    BY PipeFacts
  <2> QED BY <2>1, ReplyFacts DEF Ordered, InPipe, OutPipe, InTable
<1>2. \A i \in 1..Len(stdout) : IsReply(stdout[i]) => stdout[i].id # r.id
  <2>1. \A i \in 1..Len(stdout) : IsReply(stdout[i]) => stdout[i].id \in Nat
    BY OutputFacts
  <2> QED BY <2>1, ReplyFacts DEF Ordered, InPipe, OutPipe, InTable
<1>3. \A s \in replies \ {r} : s.id # r.id
  BY DEF Ordered, InPipe, OutPipe, InTable
<1>4. Ordered(stdin, stdout, replies \ {r}, last)
  BY DEF Ordered, InPipe, OutPipe, InTable
<1>5. ASSUME NEW ids, Only(ids, stdin, stdout, replies)
      PROVE  Only(ids \ {r.id}, stdin, stdout, replies \ {r})
  BY <1>1, <1>2, <1>3, <1>5 DEF Only
<1>6. \A n : Told(n, stdout, replies \ {r}) => Told(n, stdout, replies)
  BY DEF Told
<1> QED BY <1>1, <1>4, <1>5, <1>6

-----------------------------------------------------------------------------
(* What main believes, and how many replies nobody fetches.                    *)

\* A request to stop is only made after the call; before it there is no request to start but
\* the one that main waits for.
Known(m, wait, stdin) ==
    \A i \in 1..Len(stdin) :
       /\ stdin[i].id = wait => stdin[i].op = m.pc
       /\ stdin[i].op = "stop" => m.pc \notin Early
       /\ stdin[i].op = "start" =>
            /\ m.pc \notin {"idle", "prepare", "running", "signal"}
            /\ m.pc = "start" => stdin[i].id = wait
            /\ m.pc = "stop" => wait = 0 \/ stdin[i].id < wait
            /\ ~(m.pc = "close" /\ m.ok)

\* A request that main is about to hear succeeded has been carried out.
CallKnown(m, wait, stdout, replies, call) ==
    /\ wait # 0 /\ Told(wait, stdout, replies) =>
          (m.pc = "start" => call = "on") /\ (m.pc = "stop" => call = "off")
    /\ m.pc \in {"running", "signal"} => call = "on"
    /\ m.pc = "close" /\ m.ok => call = "off"

\* One number left over from main before the end of the call, one from its stop, and one
\* from the player.
Counted(a, b, c, m, wait, p, playerWait) ==
    /\ m.pc \in Early => a = wait
    /\ m.pc \in Early \cup {"abort", "quit", "join", "native"} \/ m.again => b = 0
    /\ m.pc = "stop" => b = wait
    /\ p # "failed" => c = playerWait

InOrder == Ordered(engine.stdin, engine.stdout, ipc.replies, ipc.sequence)

\* One request at a time, and only of a requester that is at one.
Waiting ==
    /\ waits["main"] = 0 \/ waits["player"] = 0
    /\ waits["main"] # 0 => main.pc \in Requests
    /\ waits["player"] # 0 => player = "send"

Obeyed == /\ Known(main, waits["main"], engine.stdin)
          /\ CallKnown(main, waits["main"], engine.stdout, ipc.replies, engine.call)

Few == \E a, b, c \in Nat :
          /\ Only({a, b, c}, engine.stdin, engine.stdout, ipc.replies)
          /\ Counted(a, b, c, main, waits["main"], player, waits["player"])

\* The inductive invariant, together with the types and CleanedUp.
RequestsInv == InOrder /\ Waiting /\ Obeyed /\ Few

LEMMA TypeFacts ==
  ASSUME MediaTypeOK
  PROVE  /\ main \in MainType /\ waits \in WaitsType /\ ipc \in IpcType /\ engine \in EngineType
         /\ engine.stdin \in Seq(Pipe) /\ engine.stdout \in Seq(Output)
         /\ ipc.replies \in SUBSET Replies /\ ipc.sequence \in Nat
         /\ waits["main"] \in Nat /\ waits["player"] \in Nat
  BY DEF MediaTypeOK, WaitsType, IpcType, EngineType, Requesters

\* The replies in the table have three numbers at most.
LEMMA CountedFew ==
  ASSUME MediaTypeOK, RequestsInv
  PROVE  \E ids : IsFiniteSet(ids) /\ Cardinality(ids) <= 3
                  /\ ipc.replies \subseteq Replies /\ \A r \in ipc.replies : r.id \in ids
<1>1. PICK a, b, c \in Nat : Only({a, b, c}, engine.stdin, engine.stdout, ipc.replies)
  BY DEF RequestsInv, Few
<1>2. IsFiniteSet({a}) /\ Cardinality({a}) = 1
  BY FS_Singleton
<1>3. IsFiniteSet({a} \cup {b}) /\ Cardinality({a} \cup {b}) <= 2 /\ Cardinality({a} \cup {b}) \in Nat
  <2> DEFINE one == {a}
  <2>1. IsFiniteSet(one) /\ Cardinality(one) = 1
    BY <1>2
  <2> HIDE DEF one
  <2>2. /\ IsFiniteSet(one \cup {b})
        /\ Cardinality(one \cup {b}) = Cardinality(one) \/ Cardinality(one \cup {b}) = Cardinality(one) + 1
    BY <2>1, FS_AddElement
  <2>3. IsFiniteSet(one \cup {b}) /\ Cardinality(one \cup {b}) <= 2 /\ Cardinality(one \cup {b}) \in Nat
    BY <2>1, <2>2
  <2> QED BY <2>3 DEF one
<1>4. IsFiniteSet(({a} \cup {b}) \cup {c}) /\ Cardinality(({a} \cup {b}) \cup {c}) <= 3
  <2> DEFINE two == {a} \cup {b}
  <2>1. IsFiniteSet(two) /\ Cardinality(two) <= 2 /\ Cardinality(two) \in Nat
    BY <1>3
  <2> HIDE DEF two
  <2>2. /\ IsFiniteSet(two \cup {c})
        /\ Cardinality(two \cup {c}) = Cardinality(two) \/ Cardinality(two \cup {c}) = Cardinality(two) + 1
    BY <2>1, FS_AddElement
  <2>3. IsFiniteSet(two \cup {c}) /\ Cardinality(two \cup {c}) <= 3
    BY <2>1, <2>2
  <2> QED BY <2>3 DEF two
<1>5. ({a} \cup {b}) \cup {c} = {a, b, c}
  OBVIOUS
<1> QED BY <1>1, <1>4, <1>5, TypeFacts DEF Only

LEMMA AnsweredFollows == ASSUME MediaTypeOK, RequestsInv PROVE RequestsAnswered
<1>1. PICK ids : IsFiniteSet(ids) /\ Cardinality(ids) <= 3
                 /\ ipc.replies \subseteq Replies /\ \A r \in ipc.replies : r.id \in ids
  BY CountedFew
<1> DEFINE number == [r \in ipc.replies |-> r.id]
<1>2. number \in Injection(ipc.replies, ids)
  <2>1. number \in [ipc.replies -> ids]
    BY <1>1
  <2>2. \A r, s \in ipc.replies : number[r] = number[s] => r = s
    BY DEF RequestsInv, InOrder, Ordered, InPipe, OutPipe, InTable
  <2> QED BY <2>1, <2>2 DEF Injection, IsInjective
<1>3. Cardinality(ipc.replies) <= Cardinality(ids) /\ IsFiniteSet(ipc.replies)
  BY <1>1, <1>2, FS_Injection
<1>4. Cardinality(ipc.replies) \in Nat /\ Cardinality(ids) \in Nat
  BY <1>1, <1>3, FS_CardinalityType
<1>5. Cardinality(ipc.replies) <= 3
  BY <1>1, <1>3, <1>4
<1>6. Cardinality(ipc.replies) <= 3
  BY <1>5
<1> QED BY <1>6 DEF RequestsInv, Obeyed, CallKnown, RequestsAnswered

LEMMA RequestsAtFirst == ASSUME MediaInit PROVE RequestsInv
<1>1. /\ engine.stdin = <<>> /\ engine.stdout = <<>> /\ ipc.replies = {} /\ ipc.sequence = 0
      /\ waits["main"] = 0 /\ waits["player"] = 0
      /\ main.pc = "idle" /\ ~main.again /\ player = "idle"
  BY DEF MediaInit, Requesters
<1>2. Only({0, 0, 0}, engine.stdin, engine.stdout, ipc.replies)
  BY <1>1 DEF Only
<1>3. Counted(0, 0, 0, main, waits["main"], player, waits["player"])
  BY <1>1 DEF Counted
<1>4. Few
  BY <1>2, <1>3 DEF Few
<1> QED BY <1>1, <1>4 DEF RequestsInv, InOrder, Ordered, InPipe, OutPipe, InTable, Waiting,
   Obeyed, Known, CallKnown

\* Steps that neither ask nor answer, and leave main where it is.
LEMMA QuietStep ==
  ASSUME RequestsInv, UNCHANGED <<main, waits>>,
         ipc'.replies = ipc.replies, ipc'.sequence = ipc.sequence,
         engine'.stdin = engine.stdin, engine'.stdout = engine.stdout, engine'.call = engine.call,
         player' = player \/ (player \notin {"send", "failed"} /\ player' # "failed")
  PROVE  RequestsInv'
<1>1. PICK a, b, c \in Nat :
          /\ Only({a, b, c}, engine.stdin, engine.stdout, ipc.replies)
          /\ Counted(a, b, c, main, waits["main"], player, waits["player"])
  BY DEF RequestsInv, Few
<1>2. Counted(a, b, c, main, waits["main"], player', waits["player"])
  BY <1>1 DEF Counted
<1>3. Few'
  BY <1>1, <1>2 DEF Few
<1>4. Waiting'
  BY DEF RequestsInv, Waiting
<1> QED BY <1>3, <1>4 DEF RequestsInv, InOrder, Obeyed

\* Main goes on between its requests.
Onward(m, n) ==
    /\ \/ m.pc = "idle" /\ n.pc = "prepare"
       \/ m.pc = "running" /\ n.pc = "signal"
       \/ n.pc \notin Early \cup {"close"}
    /\ n.pc \in {"abort", "quit", "join", "native"} =>
          m.pc \in Early \cup {"abort", "quit", "join", "native"} \/ m.again
    /\ n.pc = "stop" => m.pc = "native"
    /\ n.again => m.again

LEMMA MainMoves ==
  ASSUME MediaTypeOK, RequestsInv, main.pc \notin Requests, Onward(main, main'), UNCHANGED <<waits, player>>,
         ipc'.replies = ipc.replies, ipc'.sequence = ipc.sequence,
         engine'.stdin = engine.stdin, engine'.stdout = engine.stdout, engine'.call = engine.call
  PROVE  RequestsInv'
<1>1. waits["main"] = 0
  BY DEF RequestsInv, Waiting
<1>2. PICK a, b, c \in Nat :
          /\ Only({a, b, c}, engine.stdin, engine.stdout, ipc.replies)
          /\ Counted(a, b, c, main, waits["main"], player, waits["player"])
  BY DEF RequestsInv, Few
<1>3. Counted(a, b, c, main', waits["main"], player, waits["player"])
  BY <1>1, <1>2 DEF Counted, Onward, Early
<1>4. Few'
  BY <1>2, <1>3 DEF Few
<1>5. Waiting'
  BY <1>1 DEF RequestsInv, Waiting
<1>6. \A i \in 1..Len(engine.stdin) : engine.stdin[i].id # 0
  BY TypeFacts, PipeFacts
<1>7. Known(main', waits["main"], engine.stdin)
  BY <1>1, <1>6 DEF RequestsInv, Obeyed, Known, Onward, Early
<1>8. CallKnown(main', waits["main"], engine.stdout, ipc.replies, engine.call)
  BY <1>1 DEF RequestsInv, Obeyed, CallKnown, Onward, Early
<1> QED BY <1>4, <1>5, <1>7, <1>8 DEF RequestsInv, InOrder, Obeyed

LEMMA WriteFacts ==
  ASSUME MediaTypeOK, NEW who \in Requesters, NEW op \in Requests \cup {"pcm"}, Write(who, op)
  PROVE  \E x \in Pipe :
           /\ x.id = ipc.sequence + 1 /\ x.op = op
           /\ engine'.stdin = Append(engine.stdin, x)
           /\ engine'.stdout = engine.stdout /\ engine'.call = engine.call
           /\ ipc'.replies = ipc.replies /\ ipc'.sequence = ipc.sequence + 1
           /\ waits'[who] = x.id /\ waits["main"] = 0 /\ waits["player"] = 0
           /\ \A other \in Requesters \ {who} : waits'[other] = 0
<1> DEFINE x == [id |-> ipc.sequence + 1, op |-> op]
<1>1. x \in Pipe /\ x.id = ipc.sequence + 1 /\ x.op = op
  BY TypeFacts DEF Pipe, Numbers
<1>2. engine' = [engine EXCEPT !.stdin = Append(@, x)]
  BY DEF Write
<1> HIDE DEF x
<1>3. /\ engine'.stdin = Append(engine.stdin, x)
      /\ engine'.stdout = engine.stdout /\ engine'.call = engine.call
  BY <1>2, TypeFacts DEF EngineType
<1>4. ipc'.replies = ipc.replies /\ ipc'.sequence = ipc.sequence + 1
  BY TypeFacts DEF Write, IpcType
<1>5. waits["main"] = 0 /\ waits["player"] = 0
  BY DEF Write, WriterFree, Requesters
<1>6. waits'[who] = ipc.sequence + 1 /\ \A other \in Requesters \ {who} : waits'[other] = 0
  BY <1>5, TypeFacts DEF Write, WaitsType, Requesters
<1> QED BY <1>1, <1>3, <1>4, <1>5, <1>6

LEMMA MainAsks == ASSUME MediaTypeOK, CleanedUp, RequestsInv, MainWrites PROVE RequestsInv'
<1>1. PICK x \in Pipe :
         /\ x.id = ipc.sequence + 1 /\ x.op = main.pc
         /\ engine'.stdin = Append(engine.stdin, x)
         /\ engine'.stdout = engine.stdout /\ engine'.call = engine.call
         /\ ipc'.replies = ipc.replies /\ ipc'.sequence = ipc.sequence + 1
         /\ waits'["main"] = x.id /\ waits["main"] = 0 /\ waits["player"] = 0
         /\ \A other \in Requesters \ {"main"} : waits'[other] = 0
  <2>1. Write("main", main.pc) /\ main.pc \in Requests
    BY DEF MainWrites
  <2>2. "main" \in Requesters
    BY DEF Requesters
  <2> QED BY <2>1, <2>2, WriteFacts
<1>2. main' = main /\ player' = player /\ main.pc \in Requests /\ waits'["player"] = 0
  BY <1>1 DEF MainWrites, Requesters
<1>3. x.id \in Nat /\ x.id > 0
  BY PipeFacts
<1>4. InOrder'
  BY <1>1, TypeFacts, WriteOrdered DEF RequestsInv, InOrder
<1>5. Waiting'
  BY <1>1, <1>2 DEF Waiting
<1> DEFINE old == engine.stdin
           new == Append(engine.stdin, x)
<1>6. /\ Len(old) \in Nat /\ Len(new) = Len(old) + 1
      /\ \A i \in 1..Len(old) : new[i] = old[i] /\ old[i] \in Pipe
      /\ new[Len(old) + 1] = x
      /\ \A i \in 1..(Len(old) + 1) : i \in 1..Len(old) \/ i = Len(old) + 1
  BY TypeFacts, AppendFacts
<1>7. Known(main, x.id, new)
  <2>1. \A i \in 1..Len(old) : old[i].id # 0 /\ old[i].id < x.id /\ old[i].id \in Nat
    BY <1>1, <1>6, PipeFacts, TypeFacts DEF RequestsInv, InOrder, Ordered, InPipe, OutPipe,
       InTable
  <2>2. Known(main, 0, old)
    BY <1>1 DEF RequestsInv, Obeyed
  <2> HIDE DEF old, new
  <2>3. ASSUME NEW i \in 1..Len(old)
        PROVE  /\ new[i].id = x.id => new[i].op = main.pc
               /\ new[i].op = "stop" => main.pc \notin Early
               /\ new[i].op = "start" =>
                    /\ main.pc \notin {"idle", "prepare", "running", "signal"}
                    /\ main.pc = "start" => new[i].id = x.id
                    /\ main.pc = "stop" => x.id = 0 \/ new[i].id < x.id
                    /\ ~(main.pc = "close" /\ main.ok)
    BY <1>6, <2>1, <2>2 DEF Known
  <2>4. /\ x.op = "stop" => main.pc \notin Early
        /\ x.op = "start" => main.pc = "start"
    BY <1>1 DEF Early
  <2> QED BY <1>1, <1>6, <2>3, <2>4 DEF Known
<1>8. ~Told(x.id, engine.stdout, ipc.replies)
  <2>1. \A i \in 1..Len(engine.stdout) : IsReply(engine.stdout[i]) => engine.stdout[i].id # x.id
    <3>1. \A i \in 1..Len(engine.stdout) : IsReply(engine.stdout[i]) => engine.stdout[i].id \in Nat
      BY TypeFacts, OutputFacts
    <3> QED BY <1>1, <3>1, TypeFacts DEF RequestsInv, InOrder, Ordered, InPipe, OutPipe, InTable
  <2>2. \A r \in ipc.replies : r.id # x.id
    BY <1>1, ReplyFacts, TypeFacts DEF RequestsInv, InOrder, Ordered, InPipe, OutPipe, InTable
  <2> QED BY <2>1, <2>2 DEF Told
<1>9. CallKnown(main, x.id, engine.stdout, ipc.replies, engine.call)
  BY <1>8 DEF RequestsInv, Obeyed, CallKnown
<1>10. Few'
  <2>1. PICK a, b, c \in Nat :
          /\ Only({a, b, c}, engine.stdin, engine.stdout, ipc.replies)
          /\ Counted(a, b, c, main, 0, player, 0)
    BY <1>1 DEF RequestsInv, Few
  <2>2. CASE main.pc \in Early
    <3>1. a = 0
      BY <2>1, <2>2 DEF Counted
    <3>2. Only({x.id, b, c}, new, engine.stdout, ipc.replies)
      BY <2>1, <3>1, WriteOnly, TypeFacts DEF Numbers
    <3>3. Counted(x.id, b, c, main, x.id, player, 0)
      BY <2>1, <2>2 DEF Counted, Early
    <3> QED BY <1>1, <1>2, <1>3, <3>2, <3>3 DEF Few
  <2>3. CASE main.pc = "stop"
    <3>1. b = 0
      BY <2>1, <2>3 DEF Counted
    <3>2. Only({a, x.id, c}, new, engine.stdout, ipc.replies)
      BY <2>1, <3>1, WriteOnly, TypeFacts DEF Numbers
    <3>3. ~main.again
      BY <2>3 DEF CleanedUp
    <3>4. Counted(a, x.id, c, main, x.id, player, 0)
      BY <2>1, <2>3, <3>3 DEF Counted, Early
    <3> QED BY <1>1, <1>2, <1>3, <3>2, <3>4 DEF Few
  <2> QED BY <1>2, <2>2, <2>3 DEF Requests, Early
<1>11. Obeyed'
  BY <1>1, <1>2, <1>7, <1>9 DEF Obeyed
<1> QED BY <1>4, <1>5, <1>10, <1>11 DEF RequestsInv

LEMMA PlayerAsks == ASSUME MediaTypeOK, RequestsInv, PlayerWrites PROVE RequestsInv'
<1>1. PICK x \in Pipe :
         /\ x.id = ipc.sequence + 1 /\ x.op = "pcm"
         /\ engine'.stdin = Append(engine.stdin, x)
         /\ engine'.stdout = engine.stdout /\ engine'.call = engine.call
         /\ ipc'.replies = ipc.replies /\ ipc'.sequence = ipc.sequence + 1
         /\ waits'["player"] = x.id /\ waits["main"] = 0 /\ waits["player"] = 0
         /\ \A other \in Requesters \ {"player"} : waits'[other] = 0
  <2>1. Write("player", "pcm") /\ "player" \in Requesters
    BY DEF PlayerWrites, Requesters
  <2> QED BY <2>1, WriteFacts
<1>2. main' = main /\ player' = player /\ player = "send" /\ waits'["main"] = 0
  BY <1>1 DEF PlayerWrites, Requesters
<1>3. x.id \in Nat /\ x.id > 0
  BY PipeFacts
<1>4. InOrder'
  BY <1>1, TypeFacts, WriteOrdered DEF RequestsInv, InOrder
<1>5. Waiting'
  BY <1>1, <1>2 DEF Waiting
<1> DEFINE old == engine.stdin
           new == Append(engine.stdin, x)
<1>6. /\ Len(old) \in Nat /\ Len(new) = Len(old) + 1
      /\ \A i \in 1..Len(old) : new[i] = old[i] /\ old[i] \in Pipe
      /\ new[Len(old) + 1] = x
      /\ \A i \in 1..(Len(old) + 1) : i \in 1..Len(old) \/ i = Len(old) + 1
  BY TypeFacts, AppendFacts
<1>7. Known(main, 0, new)
  <2>1. Known(main, 0, old)
    BY <1>1 DEF RequestsInv, Obeyed
  <2> HIDE DEF old, new
  <2> QED BY <1>1, <1>3, <1>6, <2>1 DEF Known
<1>8. CallKnown(main, 0, engine.stdout, ipc.replies, engine.call)
  BY <1>1 DEF RequestsInv, Obeyed
<1>9. Few'
  <2>1. PICK a, b, c \in Nat :
          /\ Only({a, b, c}, engine.stdin, engine.stdout, ipc.replies)
          /\ Counted(a, b, c, main, 0, player, 0)
    BY <1>1 DEF RequestsInv, Few
  <2>2. c = 0
    BY <1>2, <2>1 DEF Counted
  <2>3. Only({a, b, x.id}, new, engine.stdout, ipc.replies)
    BY <2>1, <2>2, WriteOnly, TypeFacts DEF Numbers
  <2>4. Counted(a, b, x.id, main, 0, player, x.id)
    BY <2>1 DEF Counted
  <2> QED BY <1>1, <1>2, <1>3, <2>3, <2>4 DEF Few
<1>10. Obeyed'
  BY <1>1, <1>2, <1>7, <1>8 DEF Obeyed
<1> QED BY <1>4, <1>5, <1>9, <1>10 DEF RequestsInv

\* Replies that are fetched, or not: what is left of them.
LEMMA FetchedFacts ==
  ASSUME MediaTypeOK, NEW who \in Requesters, NEW ok \in BOOLEAN, Answer(who, ok)
  PROVE  /\ waits[who] # 0 /\ waits'[who] = 0 /\ \A other \in Requesters \ {who} : waits'[other] = waits[other]
         /\ \E r \in ipc.replies : r.id = waits[who] /\ r.ok = ok /\ ipc'.replies = ipc.replies \ {r}
         /\ ipc'.sequence = ipc.sequence
<1>1. /\ waits[who] # 0 /\ waits'[who] = 0 /\ \A other \in Requesters \ {who} : waits'[other] = waits[other]
  BY TypeFacts DEF Answer, WaitsType
<1>2. PICK r \in ipc.replies : r.id = waits[who] /\ r.ok = ok /\ ipc' = [ipc EXCEPT !.replies = @ \ {r}]
  BY DEF Answer
<1>3. ipc'.replies = ipc.replies \ {r} /\ ipc'.sequence = ipc.sequence
  BY <1>2, TypeFacts DEF IpcType
<1> QED BY <1>1, <1>2, <1>3

LEMMA FailFacts ==
  ASSUME MediaTypeOK, NEW who \in Requesters, RequestFails(who)
  PROVE  /\ waits'[who] = 0 /\ \A other \in Requesters \ {who} : waits'[other] = waits[other]
         /\ ipc'.replies \subseteq ipc.replies /\ ipc'.sequence = ipc.sequence
<1>1. CASE Answer(who, FALSE)
  BY <1>1, FetchedFacts
<1>2. CASE GivesUp(who) /\ UNCHANGED ipc
  BY <1>2, TypeFacts DEF GivesUp, WaitsType
<1>3. CASE WriteFails /\ UNCHANGED <<waits, ipc>>
  BY <1>3 DEF WriteFails, WriterFree
<1> QED BY <1>1, <1>2, <1>3 DEF RequestFails

LEMMA FewerReplies ==
  ASSUME NEW stdin, NEW stdout, NEW replies, NEW last, NEW kept \in SUBSET replies
  PROVE  /\ Ordered(stdin, stdout, replies, last) => Ordered(stdin, stdout, kept, last)
         /\ \A ids : Only(ids, stdin, stdout, replies) => Only(ids, stdin, stdout, kept)
         /\ \A n : Told(n, stdout, kept) => Told(n, stdout, replies)
<1>1. Ordered(stdin, stdout, replies, last) => Ordered(stdin, stdout, kept, last)
  BY DEF Ordered, InPipe, OutPipe, InTable
<1>2. \A ids : Only(ids, stdin, stdout, replies) => Only(ids, stdin, stdout, kept)
  BY DEF Only
<1>3. \A n : Told(n, stdout, kept) => Told(n, stdout, replies)
  BY DEF Told
<1> QED BY <1>1, <1>2, <1>3

\* A number that was waited for and did succeed.
LEMMA MainHears == ASSUME MediaTypeOK, CleanedUp, RequestsInv, MainAnswered PROVE RequestsInv'
<1>1. Answer("main", TRUE) /\ "main" \in Requesters /\ TRUE \in BOOLEAN
  BY DEF MainAnswered, Requesters
<1>2. PICK r \in ipc.replies : r.id = waits["main"] /\ r.ok = TRUE /\ ipc'.replies = ipc.replies \ {r}
  BY <1>1, FetchedFacts
<1>3. /\ waits["main"] # 0 /\ waits'["main"] = 0 /\ waits'["player"] = waits["player"]
      /\ ipc'.sequence = ipc.sequence
  BY <1>1, FetchedFacts DEF Requesters
<1>4. engine' = engine /\ player' = player
  BY DEF MainAnswered
<1>5. main'.ok = main.ok /\ main'.again = main.again /\ main.pc \in Requests
      /\ main'.pc = (IF main.pc = "prepare" THEN "start" ELSE IF main.pc = "stop" THEN "close" ELSE "running")
  BY TypeFacts DEF MainAnswered, Goto, MainType, Requests
<1>6. /\ InOrder'
      /\ \A i \in 1..Len(engine.stdin) : r.id < engine.stdin[i].id
      /\ \A ids : Only(ids, engine.stdin, engine.stdout, ipc.replies) =>
                  Only(ids \ {r.id}, engine.stdin, engine.stdout, ipc'.replies)
  <2>1. Ordered(engine.stdin, engine.stdout, ipc.replies, ipc.sequence)
    BY DEF RequestsInv, InOrder
  <2>2. /\ Ordered(engine.stdin, engine.stdout, ipc.replies \ {r}, ipc.sequence)
        /\ \A i \in 1..Len(engine.stdin) : r.id < engine.stdin[i].id
        /\ \A ids : Only(ids, engine.stdin, engine.stdout, ipc.replies) =>
                    Only(ids \ {r.id}, engine.stdin, engine.stdout, ipc.replies \ {r})
    BY <2>1, TypeFacts, AnswerFacts
  <2> QED BY <1>2, <1>3, <1>4, <2>2 DEF InOrder
<1>7. Told(waits["main"], engine.stdout, ipc.replies)
  BY <1>2 DEF Told
<1>8. \A i \in 1..Len(engine.stdin) : engine.stdin[i].id \in Nat /\ engine.stdin[i].id > 0
  BY TypeFacts, PipeFacts
<1>9. \A i \in 1..Len(engine.stdin) : engine.stdin[i].op = "start" => main.pc \notin {"prepare", "start", "signal", "stop"}
  BY <1>2, <1>3, <1>6, <1>8, TypeFacts DEF RequestsInv, Obeyed, Known
<1>10. Known(main', 0, engine.stdin)
  BY <1>5, <1>8, <1>9 DEF RequestsInv, Obeyed, Known, Requests, Early
<1>11. CallKnown(main', 0, engine.stdout, ipc'.replies, engine.call)
  BY <1>3, <1>5, <1>7 DEF RequestsInv, Obeyed, CallKnown, Requests
<1>12. Obeyed'
  BY <1>3, <1>4, <1>10, <1>11 DEF Obeyed
<1>13. Few'
  <2>1. PICK a, b, c \in Nat :
          /\ Only({a, b, c}, engine.stdin, engine.stdout, ipc.replies)
          /\ Counted(a, b, c, main, waits["main"], player, waits["player"])
    BY DEF RequestsInv, Few
  <2>2. Only({a, b, c} \ {r.id}, engine.stdin, engine.stdout, ipc'.replies)
    BY <1>6, <2>1
  <2>3. CASE main.pc \in Early
    <3>1. Counted(0, b, c, main', 0, player, waits["player"])
      BY <1>5, <2>1, <2>3 DEF Counted, Early
    <3>2. a = r.id
      BY <1>2, <2>1, <2>3 DEF Counted
    <3>3. Only({0, b, c}, engine.stdin, engine.stdout, ipc'.replies)
      BY <2>2, <3>2 DEF Only
    <3>4. PICK none \in Nat : none = 0
      OBVIOUS
    <3> QED BY <1>3, <1>4, <3>1, <3>3, <3>4 DEF Few
  <2>4. CASE main.pc = "stop"
    <3>1. ~main.again
      BY <2>4 DEF CleanedUp
    <3>2. Counted(a, b, c, main', 0, player, waits["player"])
      BY <1>5, <2>1, <2>4, <3>1 DEF Counted, Early
    <3>3. Only({a, b, c}, engine.stdin, engine.stdout, ipc'.replies)
      BY <2>2 DEF Only
    <3> QED BY <1>3, <1>4, <3>2, <3>3 DEF Few
  <2> QED BY <1>5, <2>3, <2>4 DEF Requests, Early
<1>14. Waiting'
  BY <1>3, <1>4 DEF RequestsInv, Waiting
<1> QED BY <1>6, <1>12, <1>13, <1>14 DEF RequestsInv

LEMMA MainGivesUp == ASSUME MediaTypeOK, CleanedUp, RequestsInv, MainFails PROVE RequestsInv'
<1>1. /\ waits'["main"] = 0 /\ waits'["player"] = waits["player"]
      /\ ipc'.replies \subseteq ipc.replies /\ ipc'.sequence = ipc.sequence
  <2>1. RequestFails("main") /\ "main" \in Requesters
    BY DEF MainFails, Requesters
  <2> QED BY <2>1, FailFacts DEF Requesters
<1>2. engine' = engine /\ player' = player /\ main.pc \in Requests
  BY DEF MainFails
<1>3. /\ main.pc \in {"prepare", "start"} => main'.pc = "abort"
      /\ main.pc = "signal" => main'.pc = "quit" /\ main'.again = main.again
      /\ main.pc = "stop" => main'.pc = "close" /\ ~main'.ok /\ main'.again = main.again
  BY <1>2, TypeFacts DEF MainFails, MainType, Requests
<1>4. InOrder'
  BY <1>1, <1>2, FewerReplies DEF RequestsInv, InOrder
<1>5. \A i \in 1..Len(engine.stdin) : engine.stdin[i].id # 0
  BY TypeFacts, PipeFacts
<1>6. Known(main', 0, engine.stdin)
  BY <1>2, <1>3, <1>5 DEF RequestsInv, Obeyed, Known, Requests, Early
<1>7. CallKnown(main', 0, engine.stdout, ipc'.replies, engine.call)
  BY <1>2, <1>3 DEF CallKnown, Requests
<1>8. Few'
  <2>1. PICK a, b, c \in Nat :
          /\ Only({a, b, c}, engine.stdin, engine.stdout, ipc.replies)
          /\ Counted(a, b, c, main, waits["main"], player, waits["player"])
    BY DEF RequestsInv, Few
  <2>2. Only({a, b, c}, engine.stdin, engine.stdout, ipc'.replies)
    BY <1>1, <2>1, FewerReplies
  <2>3. main.pc = "stop" => ~main.again
    BY DEF CleanedUp
  <2>4. Counted(a, b, c, main', 0, player, waits["player"])
    BY <1>2, <1>3, <2>1, <2>3 DEF Counted, Early, Requests
  <2> QED BY <1>1, <1>2, <2>2, <2>4 DEF Few
<1>9. Obeyed' /\ Waiting'
  BY <1>1, <1>2, <1>6, <1>7 DEF RequestsInv, Obeyed, Waiting
<1> QED BY <1>4, <1>8, <1>9 DEF RequestsInv

LEMMA PlayerHears == ASSUME MediaTypeOK, RequestsInv, PlayerAnswered PROVE RequestsInv'
<1>1. Answer("player", TRUE) /\ "player" \in Requesters /\ TRUE \in BOOLEAN
  BY DEF PlayerAnswered, Requesters
<1>2. PICK r \in ipc.replies : r.id = waits["player"] /\ ipc'.replies = ipc.replies \ {r}
  BY <1>1, FetchedFacts
<1>3. /\ waits'["player"] = 0 /\ waits'["main"] = waits["main"] /\ ipc'.sequence = ipc.sequence
  BY <1>1, FetchedFacts DEF Requesters
<1>4. engine' = engine /\ main' = main /\ player = "send" /\ player' = "idle"
  BY DEF PlayerAnswered
<1>5. /\ Ordered(engine.stdin, engine.stdout, ipc.replies \ {r}, ipc.sequence)
      /\ \A ids : Only(ids, engine.stdin, engine.stdout, ipc.replies) =>
                  Only(ids \ {r.id}, engine.stdin, engine.stdout, ipc.replies \ {r})
      /\ \A n : Told(n, engine.stdout, ipc.replies \ {r}) => Told(n, engine.stdout, ipc.replies)
  <2>1. Ordered(engine.stdin, engine.stdout, ipc.replies, ipc.sequence)
    BY DEF RequestsInv, InOrder
  <2> QED BY <2>1, TypeFacts, AnswerFacts
<1>6. InOrder'
  BY <1>2, <1>3, <1>4, <1>5 DEF InOrder
<1>7. CallKnown(main, waits["main"], engine.stdout, ipc'.replies, engine.call)
  BY <1>2, <1>5 DEF RequestsInv, Obeyed, CallKnown
<1>8. Obeyed' /\ Waiting'
  BY <1>3, <1>4, <1>7 DEF RequestsInv, Obeyed, Waiting
<1>9. Few'
  <2>1. PICK a, b, c \in Nat :
          /\ Only({a, b, c}, engine.stdin, engine.stdout, ipc.replies)
          /\ Counted(a, b, c, main, waits["main"], player, waits["player"])
    BY DEF RequestsInv, Few
  <2>2. c = r.id
    BY <1>2, <1>4, <2>1 DEF Counted
  <2>3. Only({a, b, c} \ {r.id}, engine.stdin, engine.stdout, ipc'.replies)
    BY <1>2, <1>5, <2>1
  <2>4. PICK none \in Nat : none = 0
    OBVIOUS
  <2>5. Only({a, b, none}, engine.stdin, engine.stdout, ipc'.replies)
    BY <2>2, <2>3 DEF Only
  <2>6. Counted(a, b, none, main, waits["main"], player', 0)
    BY <2>1, <2>4 DEF Counted
  <2> QED BY <1>3, <1>4, <2>5, <2>6 DEF Few
<1> QED BY <1>6, <1>8, <1>9 DEF RequestsInv

LEMMA PlayerGivesUp == ASSUME MediaTypeOK, RequestsInv, PlayerFails PROVE RequestsInv'
<1>1. /\ waits'["player"] = 0 /\ waits'["main"] = waits["main"]
      /\ ipc'.replies \subseteq ipc.replies /\ ipc'.sequence = ipc.sequence
  <2>1. CASE RequestFails("player")
    <3>1. "player" \in Requesters
      BY DEF Requesters
    <3> QED BY <2>1, <3>1, FailFacts DEF Requesters
  <2>2. CASE waits["player"] = 0 /\ UNCHANGED <<waits, ipc>>
    BY <2>2
  <2> QED BY <2>1, <2>2 DEF PlayerFails
<1>2. engine' = engine /\ main' = main /\ player' = "failed"
  BY DEF PlayerFails
<1>3. InOrder'
  BY <1>1, <1>2, FewerReplies DEF RequestsInv, InOrder
<1>4. CallKnown(main, waits["main"], engine.stdout, ipc'.replies, engine.call)
  <2>1. \A n : Told(n, engine.stdout, ipc'.replies) => Told(n, engine.stdout, ipc.replies)
    BY <1>1, FewerReplies
  <2> QED BY <2>1 DEF RequestsInv, Obeyed, CallKnown
<1>5. Obeyed' /\ Waiting'
  BY <1>1, <1>2, <1>4 DEF RequestsInv, Obeyed, Waiting
<1>6. Few'
  <2>1. PICK a, b, c \in Nat :
          /\ Only({a, b, c}, engine.stdin, engine.stdout, ipc.replies)
          /\ Counted(a, b, c, main, waits["main"], player, waits["player"])
    BY DEF RequestsInv, Few
  <2>2. Only({a, b, c}, engine.stdin, engine.stdout, ipc'.replies)
    BY <1>1, <2>1, FewerReplies
  <2>3. Counted(a, b, c, main, waits["main"], player', 0)
    BY <1>2, <2>1 DEF Counted
  <2> QED BY <1>1, <1>2, <2>2, <2>3 DEF Few
<1> QED BY <1>3, <1>5, <1>6 DEF RequestsInv

\* The reader moves a reply to the table, or takes out what is none.
LEMMA ReaderTakes ==
  ASSUME MediaTypeOK, RequestsInv, UNCHANGED <<main, waits, player>>, engine.stdout # <<>>,
         engine' = [engine EXCEPT !.stdout = Tail(@)], ipc'.sequence = ipc.sequence,
         ipc'.replies = ipc.replies \/ (IsReply(Head(engine.stdout)) /\
           ipc'.replies = ipc.replies \cup
             {[id |-> Head(engine.stdout).id, ok |-> Head(engine.stdout).ok]})
  PROVE  RequestsInv'
<1>1. /\ engine'.stdin = engine.stdin /\ engine'.call = engine.call
      /\ engine'.stdout = Tail(engine.stdout)
  BY TypeFacts DEF EngineType
<1>2. InOrder'
  BY <1>1, TypeFacts, ReadOrdered DEF RequestsInv, InOrder
<1>3. \A n : Told(n, Tail(engine.stdout), ipc'.replies) => Told(n, engine.stdout, ipc.replies)
  BY TypeFacts, ReadTold
<1>4. CallKnown(main, waits["main"], Tail(engine.stdout), ipc'.replies, engine.call)
  BY <1>3 DEF RequestsInv, Obeyed, CallKnown
<1>5. Obeyed' /\ Waiting'
  BY <1>1, <1>4 DEF RequestsInv, Obeyed, Waiting
<1>6. Few'
  <2>1. PICK a, b, c \in Nat :
          /\ Only({a, b, c}, engine.stdin, engine.stdout, ipc.replies)
          /\ Counted(a, b, c, main, waits["main"], player, waits["player"])
    BY DEF RequestsInv, Few
  <2>2. Only({a, b, c}, engine.stdin, Tail(engine.stdout), ipc'.replies)
    BY <2>1, TypeFacts, ReadOnly
  <2> QED BY <1>1, <2>1, <2>2 DEF Few
<1> QED BY <1>2, <1>5, <1>6 DEF RequestsInv

LEMMA EngineTells == ASSUME MediaTypeOK, RequestsInv, EngineReports PROVE RequestsInv'
<1>1. PICK x \in Output : ~IsReply(x) /\ \E state : engine' =
          [engine EXCEPT !.link = state, !.stdout = Append(@, x)]
  <2>1. PICK state \in States : engine' = [engine EXCEPT !.link = state,
              !.stdout = Append(engine.stdout, [kind |-> "state", state |-> state])]
    BY DEF EngineReports
  <2> DEFINE x == [kind |-> "state", state |-> state]
  <2>2. x \in Output /\ ~IsReply(x) /\ engine' = [engine EXCEPT !.link = state, !.stdout = Append(@, x)]
    BY <2>1 DEF Output, IsReply
  <2> HIDE DEF x
  <2> QED BY <2>2
<1>2. /\ engine'.stdin = engine.stdin /\ engine'.call = engine.call
      /\ engine'.stdout = Append(engine.stdout, x)
  BY <1>1, TypeFacts DEF EngineType
<1>3. UNCHANGED <<main, waits, ipc, player>>
  BY DEF EngineReports
<1>4. /\ Ordered(engine.stdin, engine.stdout, ipc.replies, ipc.sequence) =>
           Ordered(engine.stdin, Append(engine.stdout, x), ipc.replies, ipc.sequence)
      /\ \A ids : Only(ids, engine.stdin, engine.stdout, ipc.replies) =>
                  Only(ids, engine.stdin, Append(engine.stdout, x), ipc.replies)
      /\ \A n : Told(n, Append(engine.stdout, x), ipc.replies) => Told(n, engine.stdout, ipc.replies)
  BY <1>1, TypeFacts, ReportKeeps
<1>5. InOrder'
  BY <1>2, <1>3, <1>4 DEF RequestsInv, InOrder
<1>6. CallKnown(main, waits["main"], Append(engine.stdout, x), ipc.replies, engine.call)
  BY <1>4 DEF RequestsInv, Obeyed, CallKnown
<1>7. Obeyed' /\ Waiting'
  BY <1>2, <1>3, <1>6 DEF RequestsInv, Obeyed, Waiting
<1>8. Few'
  <2>1. PICK a, b, c \in Nat :
          /\ Only({a, b, c}, engine.stdin, engine.stdout, ipc.replies)
          /\ Counted(a, b, c, main, waits["main"], player, waits["player"])
    BY DEF RequestsInv, Few
  <2>2. Only({a, b, c}, engine.stdin, Append(engine.stdout, x), ipc.replies)
    BY <1>4, <2>1
  <2> QED BY <1>2, <1>3, <2>1, <2>2 DEF Few
<1> QED BY <1>5, <1>7, <1>8 DEF RequestsInv

\* A request that was carried out, or refused, and what it made of the call.
LEMMA ServeFacts ==
  ASSUME MediaTypeOK, EngineServes
  PROVE  /\ engine.stdin # <<>> /\ Head(engine.stdin) \in Pipe
         /\ \E x \in Output :
              /\ IsReply(x) /\ x.id = Head(engine.stdin).id
              /\ engine'.stdin = Tail(engine.stdin) /\ engine'.stdout = Append(engine.stdout, x)
              /\ \/ x.ok /\ Accepted(Head(engine.stdin).op)
                    /\ engine'.call = CallAfter(Head(engine.stdin).op)
                 \/ ~x.ok /\ Head(engine.stdin).op # "stop"
                    /\ engine'.call = (IF Head(engine.stdin).op = "start" THEN "used" ELSE engine.call)
<1>1. engine.stdin # <<>> /\ Head(engine.stdin) \in Pipe
  BY TypeFacts DEF EngineServes
<1>2. \A ok \in BOOLEAN : Reply(ok) \in Output /\ IsReply(Reply(ok))
                          /\ Reply(ok).id = Head(engine.stdin).id /\ Reply(ok).ok = ok
  BY <1>1 DEF Reply, Output, Pipe, IsReply
<1>3. CASE Carried
  <2> DEFINE x == Reply(TRUE)
             call == CallAfter(Head(engine.stdin).op)
  <2>1. /\ x \in Output /\ IsReply(x) /\ x.id = Head(engine.stdin).id /\ x.ok
        /\ Accepted(Head(engine.stdin).op) /\ call = CallAfter(Head(engine.stdin).op)
        /\ engine' = [engine EXCEPT !.stdin = Tail(@), !.stdout = Append(@, x), !.call = call]
    BY <1>2, <1>3 DEF Carried
  <2> HIDE DEF x, call
  <2>2. engine'.stdin = Tail(engine.stdin) /\ engine'.stdout = Append(engine.stdout, x) /\ engine'.call = call
    BY <2>1, TypeFacts DEF EngineType
  <2> QED BY <1>1, <2>1, <2>2
<1>4. CASE Refused
  <2> DEFINE x == Reply(FALSE)
             call == IF Head(engine.stdin).op = "start" THEN "used" ELSE engine.call
  <2>1. /\ x \in Output /\ IsReply(x) /\ x.id = Head(engine.stdin).id /\ ~x.ok
        /\ Head(engine.stdin).op # "stop"
        /\ call = (IF Head(engine.stdin).op = "start" THEN "used" ELSE engine.call)
        /\ engine' = [engine EXCEPT !.stdin = Tail(@), !.stdout = Append(@, x), !.call = call]
    BY <1>2, <1>4 DEF Refused
  <2> HIDE DEF x, call
  <2>2. engine'.stdin = Tail(engine.stdin) /\ engine'.stdout = Append(engine.stdout, x) /\ engine'.call = call
    BY <2>1, TypeFacts DEF EngineType
  <2> QED BY <1>1, <2>1, <2>2
<1> QED BY <1>3, <1>4 DEF EngineServes

LEMMA EngineObeys == ASSUME MediaTypeOK, RequestsInv, EngineServes PROVE RequestsInv'
<1> DEFINE op == Head(engine.stdin).op
           id == Head(engine.stdin).id
<1>1. engine.stdin # <<>>
  BY ServeFacts
<1>2. PICK x \in Output :
        /\ IsReply(x) /\ x.id = id
        /\ engine'.stdin = Tail(engine.stdin) /\ engine'.stdout = Append(engine.stdout, x)
        /\ \/ x.ok /\ Accepted(op) /\ engine'.call = CallAfter(op)
           \/ ~x.ok /\ op # "stop" /\ engine'.call = (IF op = "start" THEN "used" ELSE engine.call)
  BY ServeFacts
<1>3. UNCHANGED <<main, waits, ipc, player>>
  BY DEF EngineServes
<1>4. InOrder'
  BY <1>1, <1>2, <1>3, TypeFacts, ServeOrdered DEF RequestsInv, InOrder
<1>5. Few'
  <2>1. PICK a, b, c \in Nat :
          /\ Only({a, b, c}, engine.stdin, engine.stdout, ipc.replies)
          /\ Counted(a, b, c, main, waits["main"], player, waits["player"])
    BY DEF RequestsInv, Few
  <2>2. Only({a, b, c}, Tail(engine.stdin), Append(engine.stdout, x), ipc.replies)
    BY <1>1, <1>2, <2>1, TypeFacts, ServeOnly
  <2> QED BY <1>2, <1>3, <2>1, <2>2 DEF Few
<1> DEFINE stdin == engine.stdin
           rest == Tail(engine.stdin)
           wait == waits["main"]
<1>6. /\ Len(stdin) \in Nat /\ Len(rest) = Len(stdin) - 1
      /\ 1 \in 1..Len(stdin) /\ stdin[1].op = op /\ stdin[1].id = id
      /\ \A i \in 1..Len(rest) : rest[i] = stdin[i + 1] /\ i + 1 \in 1..Len(stdin) /\ i + 1 > 1
  BY <1>1, TypeFacts, TailFacts
<1>7. Known(main, wait, stdin)
  BY DEF RequestsInv, Obeyed
<1>8. Known(main, wait, rest)
  <2> HIDE DEF rest, stdin, wait
  <2> QED BY <1>6, <1>7 DEF Known
\* The request that was served is known: it is not before those main has heard of.
<1>9. /\ id = wait => op = main.pc
      /\ op = "stop" => main.pc \notin Early
      /\ op = "start" =>
           /\ main.pc \notin {"idle", "prepare", "running", "signal"}
           /\ main.pc = "start" => id = wait
           /\ main.pc = "stop" => wait = 0 \/ id < wait
           /\ ~(main.pc = "close" /\ main.ok)
  <2> HIDE DEF stdin, wait, op, id
  <2> QED BY <1>6, <1>7 DEF Known
<1>10. Told(wait, engine.stdout, ipc.replies) => wait < id
  <2>1. \A i \in 1..Len(engine.stdout) : IsReply(engine.stdout[i]) => engine.stdout[i].id < stdin[1].id
    BY <1>6 DEF RequestsInv, InOrder, Ordered, InPipe, OutPipe, InTable
  <2>2. \A r \in ipc.replies : r.id < stdin[1].id
    BY <1>6 DEF RequestsInv, InOrder, Ordered, InPipe, OutPipe, InTable
  <2> HIDE DEF stdin, wait, op, id
  <2> QED BY <1>6, <2>1, <2>2 DEF Told
<1>11. id \in Nat /\ wait \in Nat
  BY ServeFacts, TypeFacts, PipeFacts
<1>12. Told(wait, Append(engine.stdout, x), ipc.replies) =>
         Told(wait, engine.stdout, ipc.replies) \/ (x.ok /\ id = wait)
  <2> DEFINE out == Append(engine.stdout, x)
  <2>1. /\ Len(engine.stdout) \in Nat /\ Len(out) = Len(engine.stdout) + 1
        /\ \A i \in 1..Len(engine.stdout) : out[i] = engine.stdout[i]
        /\ out[Len(engine.stdout) + 1] = x
        /\ \A i \in 1..(Len(engine.stdout) + 1) :
              i \in 1..Len(engine.stdout) \/ i = Len(engine.stdout) + 1
    BY TypeFacts, AppendFacts
  <2> HIDE DEF out, wait, id, op
  <2> SUFFICES ASSUME Told(wait, out, ipc.replies)
               PROVE  Told(wait, engine.stdout, ipc.replies) \/ (x.ok /\ id = wait)
    BY DEF out
  <2> QED BY <1>2, <2>1 DEF Told
<1>13. CallKnown(main, wait, engine.stdout, ipc.replies, engine.call)
  BY DEF RequestsInv, Obeyed
<1>14. /\ op # "stop" /\ op # "start" /\ engine.call \in {"on", "off"} => engine'.call = engine.call
       /\ op = "stop" => engine'.call = "off"
       /\ x.ok /\ op = "start" => engine'.call = "on"
  <2> HIDE DEF op, id
  <2>1. \/ Accepted(op) /\ engine'.call = CallAfter(op)
        \/ op # "stop" /\ engine'.call = (IF op = "start" THEN "used" ELSE engine.call)
    BY <1>2
  <2> QED BY <1>2, <2>1 DEF Accepted, CallAfter
<1>15. CallKnown(main, wait, Append(engine.stdout, x), ipc.replies, engine'.call)
  <2> DEFINE told == Told(wait, Append(engine.stdout, x), ipc.replies)
             before == Told(wait, engine.stdout, ipc.replies)
  <2> HIDE DEF op, id, stdin, rest, wait, told, before
  <2>1. told => before \/ (x.ok /\ id = wait)
    BY <1>12 DEF told, before
  <2>2. before => wait < id
    BY <1>10 DEF before
  <2>3. /\ wait # 0 /\ before => (main.pc = "start" => engine.call = "on") /\ (main.pc = "stop" => engine.call = "off")
        /\ main.pc \in {"running", "signal"} => engine.call = "on"
        /\ main.pc = "close" /\ main.ok => engine.call = "off"
    BY <1>13 DEF CallKnown, before
  <2>4. ASSUME wait # 0, told, main.pc = "start" PROVE engine'.call = "on"
    BY <1>9, <1>11, <1>14, <2>1, <2>2, <2>3, <2>4 DEF Early
  <2>5. ASSUME wait # 0, told, main.pc = "stop" PROVE engine'.call = "off"
    BY <1>9, <1>11, <1>14, <2>1, <2>2, <2>3, <2>5 DEF Early
  <2>6. ASSUME main.pc \in {"running", "signal"} PROVE engine'.call = "on"
    BY <1>9, <1>14, <2>3, <2>6 DEF Early
  <2>7. ASSUME main.pc = "close", main.ok PROVE engine'.call = "off"
    BY <1>9, <1>14, <2>3, <2>7 DEF Early
  <2> QED BY <2>4, <2>5, <2>6, <2>7 DEF CallKnown, told
<1>16. Obeyed' /\ Waiting'
  BY <1>2, <1>3, <1>8, <1>15 DEF RequestsInv, Obeyed, Waiting
<1> QED BY <1>4, <1>5, <1>16 DEF RequestsInv

LEMMA RequestsKept == ASSUME MediaTypeOK, CleanedUp, RequestsInv, [MediaNext]_mediaVars PROVE RequestsInv'
<1>0. /\ main \in MainType /\ ipc \in IpcType /\ engine \in EngineType
  BY TypeFacts
<1>1. CASE Start
  <2>1. /\ engine'.stdin = engine.stdin /\ engine'.stdout = engine.stdout /\ engine'.call = engine.call
        /\ ipc'.replies = ipc.replies /\ ipc'.sequence = ipc.sequence
    BY <1>0, <1>1 DEF Start, Spawn, EngineType, IpcType
  <2>2. main.pc = "idle" /\ main'.pc = "prepare" /\ main'.again = main.again
    BY <1>0, <1>1 DEF Start, Goto, MainType
  <2>3. Onward(main, main')
    BY <2>2 DEF Onward
  <2> QED BY <1>1, <2>1, <2>2, <2>3, MainMoves DEF Start, Requests
<1>2. CASE Signal \/ Hangup \/ (Drain /\ Goto("quit"))
  <2>1. /\ main.pc = "running" /\ main'.again = main.again
        /\ main'.pc = "signal" \/ main'.pc = "quit"
    BY <1>0, <1>2 DEF Signal, Hangup, Drain, Goto, MainType
  <2>2. Onward(main, main')
    BY <2>1 DEF Onward, Early
  <2> QED BY <1>2, <2>1, <2>2, MainMoves DEF Signal, Hangup, Drain, Requests
<1>3. CASE Drain /\ UNCHANGED main
  BY <1>3, QuietStep DEF Drain
<1>4. CASE Quit \/ Join \/ StopNative \/ End
  <2>1. \/ main.pc = "quit" /\ main'.pc = "join" /\ main'.again = main.again
        \/ main.pc = "join" /\ main'.pc = "native" /\ main'.again = main.again
        \/ main.pc = "native" /\ main'.pc \in {"stop", "end"} /\ main'.again = main.again
        \/ main.pc = "end" /\ main.again /\ main'.pc = "quit" /\ ~main'.again
        \/ main.pc = "end" /\ main'.pc = "done" /\ main'.again = main.again
    <3>1. Quit => main.pc = "quit" /\ main'.pc = "join" /\ main'.again = main.again
      BY <1>0 DEF Quit, Goto, MainType
    <3>2. Join => main.pc = "join" /\ main'.pc = "native" /\ main'.again = main.again
      <4>1. Join => main.pc = "join" /\ \E ok : main' = [main EXCEPT !.pc = "native", !.ok = ok]
        BY DEF Join
      <4> QED BY <1>0, <4>1 DEF MainType
    <3>3. StopNative => main.pc = "native" /\ main'.pc \in {"stop", "end"} /\ main'.again = main.again
      BY <1>0 DEF StopNative, Goto, MainType
    <3>4. End => \/ main.pc = "end" /\ main.again /\ main'.pc = "quit" /\ ~main'.again
                 \/ main.pc = "end" /\ main'.pc = "done" /\ main'.again = main.again
      BY <1>0 DEF End, MainType
    <3> QED BY <1>4, <3>1, <3>2, <3>3, <3>4
  <2>2. Onward(main, main') /\ main.pc \notin Requests
    BY <2>1 DEF Onward, Early, Requests
  <2>3. UNCHANGED <<waits, engine, player>> /\ ipc'.replies = ipc.replies /\ ipc'.sequence = ipc.sequence
    BY <1>0, <1>4 DEF Quit, Join, StopNative, End, IpcType
  <2> QED BY <2>2, <2>3, MainMoves
<1>5. CASE Exited
  <2> DEFINE gone == main.ok /\ ~engine.up
  <2>1. main' = (IF main.pc = "abort" THEN [main EXCEPT !.pc = "quit"]
                                      ELSE [main EXCEPT !.pc = "end", !.ok = gone])
        /\ main.pc \in {"abort", "close"}
    BY <1>5 DEF Exited
  <2> HIDE DEF gone
  <2>2. main'.again = main.again /\ main'.pc = (IF main.pc = "abort" THEN "quit" ELSE "end")
    BY <1>0, <2>1 DEF MainType
  <2>3. Onward(main, main') /\ main.pc \notin Requests
    BY <2>1, <2>2 DEF Onward, Early, Requests
  <2>4. /\ engine'.stdin = engine.stdin /\ engine'.stdout = engine.stdout /\ engine'.call = engine.call
        /\ ipc'.replies = ipc.replies /\ ipc'.sequence = ipc.sequence
    BY <1>0, <1>5 DEF Exited, EngineType, IpcType
  <2> QED BY <1>5, <2>3, <2>4, MainMoves DEF Exited
<1>6. CASE CloseIPC
  <2>1. ipc'.replies = ipc.replies /\ ipc'.sequence = ipc.sequence
    BY <1>0, <1>6 DEF CloseIPC, IpcType
  <2> QED BY <1>6, <2>1, QuietStep DEF CloseIPC
<1>7. CASE MainWrites \/ MainAnswered \/ MainFails
  BY <1>7, MainAsks, MainHears, MainGivesUp
<1>8. CASE PlayerWrites \/ PlayerAnswered \/ PlayerFails
  BY <1>8, PlayerAsks, PlayerHears, PlayerGivesUp
<1>9. CASE ReadState
  BY <1>9, ReaderTakes DEF ReadState, Reads
<1>10. CASE ReadReply
  <2>1. UNCHANGED <<main, waits, player>> /\ engine.stdout # <<>> /\ IsReply(Head(engine.stdout))
        /\ engine' = [engine EXCEPT !.stdout = Tail(@)]
    BY <1>10 DEF ReadReply, Reads, IsReply
  <2> DEFINE x == [id |-> Head(engine.stdout).id, ok |-> Head(engine.stdout).ok]
  <2>2. ipc' = ipc \/ ipc' = [ipc EXCEPT !.replies = @ \cup {x}]
    BY <1>10 DEF ReadReply
  <2>3. ipc'.sequence = ipc.sequence /\ (ipc'.replies = ipc.replies \/ ipc'.replies = ipc.replies \cup {x})
    <3> HIDE DEF x
    <3> QED BY <1>0, <2>2 DEF IpcType
  <2> QED BY <2>1, <2>3, ReaderTakes
<1>11. CASE BadFrame \/ EndOfFile
  BY <1>11, QuietStep DEF BadFrame, EndOfFile
<1>12. CASE SessionStarts \/ SessionStops \/ SessionFails \/ SessionTimeLimit \/ HangsUp \/ SessionCloses \/ ThreadEnds
  <2>1. UNCHANGED <<main, waits, ipc, engine, player>>
    BY <1>12 DEF SessionStarts, SessionStops, SessionFails, SessionTimeLimit, HangsUp,
       SessionCloses, ThreadEnds
  <2> QED BY <2>1, QuietStep
<1>13. CASE Chunk
  BY <1>13, QuietStep DEF Chunk
<1>14. CASE PlayerChecks
  <2>1. player' # "failed" /\ player \notin {"send", "failed"} /\ UNCHANGED <<main, waits, ipc, engine>>
    BY <1>14 DEF PlayerChecks
  <2> QED BY <2>1, QuietStep
<1>15. CASE EngineServes \/ EngineReports
  BY <1>15, EngineObeys, EngineTells
<1>16. CASE EngineExits
  <2>1. engine'.stdin = engine.stdin /\ engine'.stdout = engine.stdout /\ engine'.call = engine.call
    BY <1>0, <1>16 DEF EngineExits, EngineType
  <2> QED BY <1>16, <2>1, QuietStep DEF EngineExits
<1>17. CASE UNCHANGED mediaVars
  BY <1>17, QuietStep DEF mediaVars
<1>18. Drain => Goto("quit") \/ UNCHANGED main
  BY DEF Drain
<1> QED
  BY <1>1, <1>2, <1>3, <1>4, <1>5, <1>6, <1>7, <1>8, <1>9, <1>10, <1>11, <1>12, <1>13, <1>14,
     <1>15, <1>16, <1>17, <1>18 DEF MediaNext, Main, Reader, Voice, PlayerNoticed, Player

\* Main believes in a start, or in a stop, only if the engine carried it out, and the table
\* of replies never holds more than three of them.  (runtime.py:59-102)
THEOREM MediaAnswered == MediaSpec => []RequestsAnswered
<1>1. MediaInit => MediaTypeOK /\ CleanedUp /\ RequestsInv
  BY MediaAtFirst, RequestsAtFirst DEF MediaInit, CleanedUp
<1>2. MediaTypeOK /\ CleanedUp /\ RequestsInv /\ [MediaNext]_mediaVars => MediaTypeOK' /\ CleanedUp' /\ RequestsInv'
  BY MediaTypesKept, CleanedUpKept, RequestsKept
<1>3. MediaTypeOK /\ RequestsInv => RequestsAnswered
  BY AnsweredFollows
<1> QED BY <1>1, <1>2, <1>3, PTL DEF MediaSpec
=============================================================================
