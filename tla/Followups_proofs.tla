---------------------------- MODULE Followups_proofs ----------------------------
(***************************************************************************)
(* Proofs about Followups, for any threads, texts, utterances, number of   *)
(* calls, pieces of speech and failures: its types, that no two messages   *)
(* of the same words to the same thread are undecided, that every message  *)
(* was said in the call that sends it, and that it implements CommandOnce. *)
(***************************************************************************)
EXTENDS Followups, FiniteSetTheorems, SequenceTheorems, WellFoundedInduction, TLAPS

-----------------------------------------------------------------------------
(* The parts of the inductive invariant.                                   *)

\* What was said in a call from user turn i on: SaidSince, of any transcript.
Said(T, i) == UNION {{T[j][v] : v \in DOMAIN T[j]} : j \in {k \in 1..Len(T) : k >= i}}
Named(S, T, i) == \A t \in S : \E u \in Said(T, i) : t \in u.names
Worded(x, T, i) == x = NoText \/ \E u \in Said(T, i) : u.text = x

TalkType == [call : 0..MaxCalls, on : BOOLEAN, revision : 0..MaxSpeech, refused : 0..MaxSpeech]
SlotType == [binding : BindingType, floor : 0..MaxSpeech, attached : BOOLEAN]

\* A user turn has words, and each piece of speech raises the revision.  Nothing is left
\* of a call that is over.
Calling ==
    /\ talk \in TalkType /\ transcript \in Seq(Seq(Utterances))
    /\ \A i \in 1..Current : Len(transcript[i]) > 0
    /\ Current <= talk.revision /\ talk.refused <= Current
    /\ talk.on => talk.call # 0
    /\ ~talk.on => transcript = <<>> /\ slot = NoSlot /\ talk.refused = 0

\* What the voice waits for.
Awaiting(b) ==
    /\ b.awaits = "text" => Cardinality(b.targets) = 1 /\ b.text = NoText
    /\ b.awaits = "target" => Cardinality(b.targets) # 1
\* A target and a text that were said, since the last refusal.
Fair(b, T, i) ==
    /\ b \in BindingType
    /\ b.turn = 0 => b = NoBinding
    /\ Named(b.targets, T, i) /\ Worded(b.text, T, i)

\* The slot is of the call, and of what was said after a refusal, until a refusal is
\* worked on.
Refusing == turn.pc = "route" /\ turn.words.form = "cancel"
Slot ==
    /\ slot \in SlotType /\ Awaiting(slot.binding)
    /\ ~Refusing => /\ Fair(slot.binding, transcript, talk.refused)
                    /\ slot.floor >= talk.refused

\* A delegation is about a reading of a user turn of its call, not before the last
\* refusal, and about the latest one unless the revision has gone on.
Routed ==
    turn.pc = "route" =>
        /\ turn.at \in 1..MaxSpeech /\ turn.words \in Utterances
        /\ turn.version \in Nat /\ turn.revision \in Nat /\ turn.revision <= talk.revision
        /\ talk.on => /\ turn.at \in 1..Current /\ talk.refused <= turn.at
                      /\ turn.version \in 1..Len(transcript[turn.at])
                      /\ turn.words = transcript[turn.at][turn.version]
                      /\ talk.revision = turn.revision =>
                           turn.at = Current /\ turn.version = Len(transcript[Current])
Reserving ==
    turn.pc = "reserve" =>
        /\ turn.names \in SUBSET Threads /\ turn.text \in Texts \cup {NoText}
        /\ turn.input \in Nat /\ turn.revision \in Nat /\ turn.key \in Keys
        /\ turn.key.form # "text" => turn.revision <= talk.revision
        /\ turn.key.form # "text" /\ talk.on =>
             /\ turn.key.call = talk.call
             /\ Named(turn.names, transcript, talk.refused)
             /\ Worded(turn.text, transcript, talk.refused)
             /\ talk.revision = turn.revision =>
                  turn.key.turn = Current /\ turn.input = Len(transcript[Current])

VoiceInv == Calling /\ Slot /\ Routed /\ Reserving

\* The entries of memory and of the file; what was saved is in memory.
Unique(E) ==
    \A j, k \in DOMAIN E :
        /\ E[j].thread = E[k].thread /\ E[j].text = E[k].text
        /\ E[j].state = "reserved" /\ E[k].state = "reserved"
        => j = k
EntriesOK(E) ==
    /\ DOMAIN E \subseteq Keys /\ \A k \in DOMAIN E : E[k] \in EntryType
    /\ Unique(E)
    /\ \A k \in DOMAIN E : E[k].state = "received" => k \in t3.messages

\* A command that was sent is in the file, and what T3 has was sent.
StoreInv ==
    /\ EntriesOK(entries) /\ EntriesOK(saved) /\ DOMAIN saved \subseteq DOMAIN entries
    /\ t3 \in [alive : SUBSET Threads, asks : SUBSET Threads, messages : SUBSET Keys]
    /\ sends \in [Keys -> {0, 1}]
    /\ \A k \in Keys : sends[k] = 1 => k \in DOMAIN saved
    /\ inbox \cup t3.messages \subseteq {k \in Keys : sends[k] = 1}
    /\ reported \subseteq t3.messages
    /\ events \in 0..MaxEvents
    /\ turn.pc \in {"idle", "route", "reserve", "dispatch", "receipt"}
    /\ turn.pc \in {"dispatch", "receipt"} => turn.key \in DOMAIN entries
    /\ turn.pc = "dispatch" => sends[turn.key] = 0 /\ turn.key \in DOMAIN saved

IInv == VoiceInv /\ StoreInv

LEMMA Bounds ==
    /\ MaxCalls \in Nat /\ MaxSpeech \in Nat /\ MaxEvents \in Nat /\ BindingTurns \in Nat
    /\ IsFiniteSet(Threads) /\ NoText \notin Texts
BY ConstantsAssumption

LEMMA UtteranceFacts ==
    ASSUME NEW u \in Utterances
    PROVE  /\ u.form \in Forms /\ u.names \in SUBSET Threads /\ u.text \in Texts \cup {NoText}
           /\ u.form \in {"plain", "declare"} => u.text # NoText
BY ConstantsAssumption DEF UtteranceType

-----------------------------------------------------------------------------
(* What was said.                                                          *)

LEMMA SaidMember ==
    ASSUME NEW T, NEW i, NEW j \in 1..Len(T), j >= i, NEW v \in DOMAIN T[j]
    PROVE  T[j][v] \in Said(T, i)
BY DEF Said

\* A transcript only grows: user turns and readings are added.
Longer(T, L) ==
    /\ Len(T) <= Len(L)
    /\ \A j \in 1..Len(T) :
         Len(T[j]) <= Len(L[j]) /\ \A v \in 1..Len(T[j]) : L[j][v] = T[j][v]

LEMMA SaidGrows ==
    ASSUME NEW T \in Seq(Seq(Utterances)), NEW L \in Seq(Seq(Utterances)), Longer(T, L), NEW i
    PROVE  Said(T, i) \subseteq Said(L, i)
<1> SUFFICES ASSUME NEW u \in Said(T, i) PROVE u \in Said(L, i)
    OBVIOUS
<1>0. PICK j \in 1..Len(T) : j >= i /\ \E v \in DOMAIN T[j] : u = T[j][v]
    BY DEF Said
<1>1. PICK v \in DOMAIN T[j] : j >= i /\ u = T[j][v]
    BY <1>0
<1>2. /\ j \in 1..Len(L) /\ T[j] \in Seq(Utterances) /\ L[j] \in Seq(Utterances)
    <2>1. Len(T) \in Nat /\ Len(L) \in Nat
        BY LenProperties
    <2>2. j \in 1..Len(L)
        BY <1>1, <2>1 DEF Longer
    <2> QED
        BY <1>1, <2>2, ElementOfSeq
<1>3. v \in 1..Len(T[j]) /\ v \in DOMAIN L[j] /\ L[j][v] = T[j][v]
  <2>1. DOMAIN T[j] = 1..Len(T[j]) /\ DOMAIN L[j] = 1..Len(L[j])
        /\ Len(T[j]) \in Nat /\ Len(L[j]) \in Nat
      BY <1>2, LenProperties
  <2>2. Len(T[j]) <= Len(L[j])
      BY <1>1 DEF Longer
  <2>3. v \in 1..Len(T[j]) /\ v \in 1..Len(L[j])
      BY <1>1, <2>1, <2>2
  <2> QED
      BY <1>1, <2>1, <2>3 DEF Longer
<1> QED
    BY <1>1, <1>2, <1>3, SaidMember

LEMMA AuthorityGrows ==
    ASSUME NEW T \in Seq(Seq(Utterances)), NEW L \in Seq(Seq(Utterances)), Longer(T, L), NEW i
    PROVE  /\ \A S : Named(S, T, i) => Named(S, L, i)
           /\ \A x : Worded(x, T, i) => Worded(x, L, i)
           /\ \A b : Fair(b, T, i) => Fair(b, L, i)
<1>1. Said(T, i) \subseteq Said(L, i)
    BY SaidGrows
<1>2. \A S : Named(S, T, i) => Named(S, L, i)
    BY <1>1 DEF Named
<1>3. \A x : Worded(x, T, i) => Worded(x, L, i)
    BY <1>1 DEF Worded
<1> QED
    BY <1>2, <1>3 DEF Fair

LEMMA Nothing ==
    ASSUME NEW T, NEW i
    PROVE  Fair(NoBinding, T, i) /\ Awaiting(NoBinding)
BY DEF Fair, Awaiting, NoBinding, BindingType, Named, Worded

LEMMA TranscriptFacts ==
    ASSUME Calling
    PROVE  /\ Current \in Nat /\ Current <= MaxSpeech
           /\ \A i \in 1..Current :
                /\ transcript[i] \in Seq(Utterances)
                /\ Len(transcript[i]) \in Nat /\ Len(transcript[i]) > 0
                /\ DOMAIN transcript[i] = 1..Len(transcript[i])
                /\ \A v \in 1..Len(transcript[i]) : transcript[i][v] \in Utterances
<1>1. transcript \in Seq(Seq(Utterances)) /\ Current <= talk.revision /\ talk.revision \in 0..MaxSpeech
    BY DEF Calling, TalkType
<1>2. Current \in Nat
    BY <1>1, LenProperties DEF Current
<1>3. Current <= MaxSpeech
    BY <1>1, <1>2, Bounds
<1>4. ASSUME NEW i \in 1..Current PROVE transcript[i] \in Seq(Utterances)
    BY <1>1, ElementOfSeq DEF Current
<1>5. ASSUME NEW i \in 1..Current
      PROVE  /\ Len(transcript[i]) \in Nat /\ DOMAIN transcript[i] = 1..Len(transcript[i])
             /\ \A v \in 1..Len(transcript[i]) : transcript[i][v] \in Utterances
    BY <1>4, LenProperties, ElementOfSeq
<1> QED
    BY <1>2, <1>3, <1>4, <1>5 DEF Calling

-----------------------------------------------------------------------------
(* The call, and its end.                                                  *)

LEMMA VoiceInit == Init => VoiceInv
<1> SUFFICES ASSUME Init PROVE VoiceInv
    OBVIOUS
<1>1. transcript = <<>> /\ Len(transcript) = 0
    BY DEF Init
<1>2. Calling
    BY <1>1, Bounds DEF Init, Calling, TalkType, Current
<1>3. Slot
  <2>1. slot = [binding |-> NoBinding, floor |-> 0, attached |-> FALSE] /\ talk.refused = 0
      BY DEF Init, NoSlot
  <2>2. NoBinding \in BindingType
      BY Nothing DEF Fair
  <2>3. slot \in SlotType
      BY <2>1, <2>2, Bounds DEF SlotType
  <2> QED
      BY <2>1, <2>3, Nothing DEF Slot
<1>4. Routed /\ Reserving
    BY DEF Init, Routed, Reserving, NoTurn
<1> QED
    BY <1>2, <1>3, <1>4 DEF VoiceInv

LEMMA SlotOver ==
    /\ NoSlot \in SlotType /\ NoSlot.binding = NoBinding /\ NoSlot.floor = 0
    /\ \A x : [NoSlot EXCEPT !.attached = x].binding = NoBinding
    /\ \A x : [NoSlot EXCEPT !.attached = x].floor = 0
    /\ \A x \in BOOLEAN : [NoSlot EXCEPT !.attached = x] \in SlotType
<1>1. NoBinding \in BindingType
    BY Nothing DEF Fair
<1> QED
    BY <1>1, Bounds DEF NoSlot, SlotType

\* The changes of a call.
LEMMA TalkFacts ==
    ASSUME NEW t \in TalkType
    PROVE  /\ LET over == [t EXCEPT !.on = FALSE, !.refused = 0]
              IN  /\ over \in TalkType /\ over.on = FALSE /\ over.refused = 0
                  /\ over.revision = t.revision /\ over.call = t.call
           /\ t.call < MaxCalls =>
                LET begun == [t EXCEPT !.call = @ + 1, !.on = TRUE]
                IN  /\ begun \in TalkType /\ begun.on = TRUE /\ begun.call # 0
                    /\ begun.refused = t.refused /\ begun.revision = t.revision
           /\ t.revision < MaxSpeech =>
                LET spoken == [t EXCEPT !.revision = @ + 1]
                IN  /\ spoken \in TalkType /\ spoken.on = t.on /\ spoken.call = t.call
                    /\ spoken.refused = t.refused /\ spoken.revision = t.revision + 1
           /\ \A i \in 0..MaxSpeech :
                LET told == [t EXCEPT !.refused = i]
                IN  /\ told \in TalkType /\ told.on = t.on /\ told.call = t.call
                    /\ told.refused = i /\ told.revision = t.revision
<1>0. t.call \in Nat /\ t.revision \in Nat /\ 0 \in 0..MaxSpeech
    BY Bounds DEF TalkType
<1>1. LET over == [t EXCEPT !.on = FALSE, !.refused = 0]
      IN  /\ over \in TalkType /\ over.on = FALSE /\ over.refused = 0
          /\ over.revision = t.revision /\ over.call = t.call
    BY <1>0 DEF TalkType
<1>2. ASSUME t.call < MaxCalls
      PROVE  LET begun == [t EXCEPT !.call = @ + 1, !.on = TRUE]
             IN  /\ begun \in TalkType /\ begun.on = TRUE /\ begun.call # 0
                 /\ begun.refused = t.refused /\ begun.revision = t.revision
  <2>1. t.call + 1 \in 0..MaxCalls /\ t.call + 1 # 0
      BY <1>0, <1>2, Bounds
  <2> DEFINE next == t.call + 1
  <2> HIDE DEF next
  <2>2. LET begun == [t EXCEPT !.call = next, !.on = TRUE]
        IN  /\ begun \in TalkType /\ begun.on = TRUE /\ begun.call = next
            /\ begun.refused = t.refused /\ begun.revision = t.revision
      BY <2>1 DEF TalkType, next
  <2> QED
      BY <2>1, <2>2 DEF next
<1>3. ASSUME t.revision < MaxSpeech
      PROVE  LET spoken == [t EXCEPT !.revision = @ + 1]
             IN  /\ spoken \in TalkType /\ spoken.on = t.on /\ spoken.call = t.call
                 /\ spoken.refused = t.refused /\ spoken.revision = t.revision + 1
  <2>1. t.revision + 1 \in 0..MaxSpeech
      BY <1>0, <1>3, Bounds
  <2> QED
      BY <2>1 DEF TalkType
<1>4. ASSUME NEW i \in 0..MaxSpeech
      PROVE  LET told == [t EXCEPT !.refused = i]
             IN  /\ told \in TalkType /\ told.on = t.on /\ told.call = t.call
                 /\ told.refused = i /\ told.revision = t.revision
    BY DEF TalkType
<1> QED
    BY <1>1, <1>2, <1>3, <1>4

\* Nothing of a call that ends stays, and a turn that is under way sees that it is over.
LEMMA HangUpVoice ==
    ASSUME VoiceInv, HangUp
    PROVE  /\ Calling' /\ Slot'
           /\ turn' = turn => Routed' /\ Reserving'
           /\ talk'.revision = talk.revision /\ ~talk'.on
<1>1. /\ talk' = [talk EXCEPT !.on = FALSE, !.refused = 0]
      /\ transcript' = <<>> /\ slot' = NoSlot
    BY DEF HangUp
<1>2. /\ talk' \in TalkType /\ talk'.on = FALSE /\ talk'.refused = 0
      /\ talk'.revision = talk.revision /\ talk'.call = talk.call
    BY <1>1, TalkFacts DEF VoiceInv, Calling
<1>3. Len(transcript') = 0 /\ transcript' \in Seq(Seq(Utterances))
    BY <1>1
<1>4. talk.revision \in Nat
    BY DEF VoiceInv, Calling, TalkType
<1>5. Calling'
    BY <1>1, <1>2, <1>3, <1>4 DEF Calling, Current
<1>6. Fair(NoBinding, transcript', talk'.refused)
    BY Nothing
<1>7. Slot'
    BY <1>1, <1>2, <1>6, SlotOver, Nothing DEF Slot
<1>8. ASSUME turn' = turn PROVE Routed' /\ Reserving'
    BY <1>2, <1>8 DEF VoiceInv, Routed, Reserving
<1> QED
    BY <1>2, <1>5, <1>7, <1>8

LEMMA CallBeginsVoice == ASSUME VoiceInv, CallBegins PROVE VoiceInv'
<1>1. /\ talk' = [talk EXCEPT !.call = @ + 1, !.on = TRUE]
      /\ ~talk.on /\ turn = NoTurn /\ talk.call < MaxCalls
      /\ transcript' = transcript /\ turn' = turn
    BY DEF CallBegins
<1>2. PICK x \in BOOLEAN : slot' = [slot EXCEPT !.attached = x]
    BY DEF CallBegins
<1>3. slot = NoSlot /\ transcript = <<>> /\ talk.refused = 0 /\ talk \in TalkType
    BY <1>1 DEF VoiceInv, Calling
<1>4. /\ talk' \in TalkType /\ talk'.on /\ talk'.refused = 0
      /\ talk'.revision = talk.revision /\ talk'.call # 0
    BY <1>1, <1>3, TalkFacts
<1>5. Calling'
    BY <1>1, <1>4 DEF VoiceInv, Calling, Current
<1>6. turn'.pc = "idle"
    BY <1>1 DEF NoTurn
<1>7. Fair(NoBinding, transcript', talk'.refused)
    BY Nothing
<1>8. Slot'
    BY <1>2, <1>3, <1>4, <1>7, SlotOver, Nothing DEF Slot
<1>9. Routed' /\ Reserving'
    BY <1>6 DEF Routed, Reserving
<1> QED
    BY <1>5, <1>8, <1>9 DEF VoiceInv

\* New words: a user turn more, or a reading more of the latest one.
LEMMA SpeakGrows ==
    ASSUME Calling, Speak
    PROVE  /\ transcript' \in Seq(Seq(Utterances)) /\ Longer(transcript, transcript')
           /\ \A i \in 1..Len(transcript') : Len(transcript'[i]) > 0
           /\ Len(transcript') <= Current + 1
<1>0. transcript \in Seq(Seq(Utterances)) /\ Current \in Nat
    BY TranscriptFacts DEF Calling
<1>1. PICK u \in Utterances :
        \/ transcript' = Append(transcript, <<u>>)
        \/ /\ transcript # <<>>
           /\ transcript' = [transcript EXCEPT ![Current] = Append(@, u)]
    BY DEF Speak
<1>2. CASE transcript' = Append(transcript, <<u>>)
  <2>1. <<u>> \in Seq(Utterances) /\ Len(<<u>>) = 1
      OBVIOUS
  <2>2. /\ transcript' \in Seq(Seq(Utterances)) /\ Len(transcript') = Current + 1
        /\ transcript'[Current + 1] = <<u>>
        /\ \A i \in 1..Current : transcript'[i] = transcript[i]
      BY <1>0, <1>2, <2>1, AppendProperties DEF Current
  <2>3. Longer(transcript, transcript')
    <3>1. \A i \in 1..Current : Len(transcript[i]) \in Nat
        BY TranscriptFacts
    <3>2. /\ Len(transcript) = Current /\ Current <= Len(transcript')
          /\ \A i \in 1..Current : Len(transcript[i]) <= Len(transcript'[i])
        BY <1>0, <2>2, <3>1 DEF Current
    <3> QED
        BY <2>2, <3>2 DEF Longer
  <2>4. \A i \in 1..Len(transcript') : Len(transcript'[i]) > 0
    <3>1. \A i \in 1..Current : Len(transcript'[i]) > 0
        BY <2>2, TranscriptFacts
    <3>2. Len(transcript'[Current + 1]) > 0
        BY <2>1, <2>2
    <3>3. ASSUME NEW i \in 1..Len(transcript') PROVE i \in 1..Current \/ i = Current + 1
        BY <1>0, <2>2
    <3> QED
        BY <3>1, <3>2, <3>3
  <2> QED
      BY <1>0, <2>2, <2>3, <2>4
<1>3. CASE /\ transcript # <<>>
           /\ transcript' = [transcript EXCEPT ![Current] = Append(@, u)]
  <2>1. Current \in 1..Current
      BY <1>0, <1>3, EmptySeq DEF Current
  <2> DEFINE last == transcript[Current]
             longer == Append(last, u)
  <2>2. last \in Seq(Utterances) /\ Len(last) \in Nat
      BY <2>1, TranscriptFacts
  <2>3. /\ longer \in Seq(Utterances) /\ Len(longer) = Len(last) + 1
        /\ \A v \in 1..Len(last) : longer[v] = last[v]
      BY <2>2, AppendProperties
  <2>4. /\ transcript' \in Seq(Seq(Utterances)) /\ Len(transcript') = Current
        /\ transcript'[Current] = longer
        /\ \A i \in 1..Current : i # Current => transcript'[i] = transcript[i]
    <3> HIDE DEF longer
    <3>1. transcript' = [transcript EXCEPT ![Current] = longer]
        BY <1>3 DEF longer
    <3> QED
        BY <1>0, <2>1, <2>3, <3>1, ExceptSeq DEF Current
  <2> HIDE DEF longer
  <2>5. \A i \in 1..Current :
          /\ Len(transcript[i]) <= Len(transcript'[i]) /\ Len(transcript'[i]) > 0
          /\ \A v \in 1..Len(transcript[i]) : transcript'[i][v] = transcript[i][v]
    <3>1. ASSUME NEW i \in 1..Current, i # Current
          PROVE  /\ transcript'[i] = transcript[i] /\ Len(transcript[i]) \in Nat
                 /\ Len(transcript[i]) > 0
        BY <2>4, <3>1, TranscriptFacts
    <3>2. /\ Len(last) <= Len(transcript'[Current]) /\ Len(transcript'[Current]) > 0
          /\ \A v \in 1..Len(last) : transcript'[Current][v] = last[v]
        BY <2>2, <2>3, <2>4
    <3> QED
        BY <3>1, <3>2
  <2> QED
      BY <1>0, <2>4, <2>5 DEF Longer, Current
<1> QED
    BY <1>1, <1>2, <1>3

LEMMA SpeakVoice == ASSUME VoiceInv, Speak PROVE VoiceInv'
<1>0. Calling /\ Slot /\ Routed /\ Reserving
    BY DEF VoiceInv
<1>1. /\ talk.on /\ talk' = [talk EXCEPT !.revision = @ + 1] /\ talk.revision < MaxSpeech
      /\ slot' = slot /\ turn' = turn
    BY DEF Speak
<1>2. /\ transcript' \in Seq(Seq(Utterances)) /\ Longer(transcript, transcript')
      /\ \A i \in 1..Len(transcript') : Len(transcript'[i]) > 0
      /\ Len(transcript') <= Current + 1
    BY <1>0, SpeakGrows
<1>3. transcript \in Seq(Seq(Utterances)) /\ talk \in TalkType
    BY <1>0 DEF Calling
<1>4. /\ talk' \in TalkType /\ talk'.on = talk.on /\ talk'.call = talk.call
      /\ talk'.refused = talk.refused /\ talk'.revision = talk.revision + 1
    BY <1>1, <1>3, TalkFacts
<1>5. /\ Current \in Nat /\ Len(transcript') \in Nat /\ talk.revision \in Nat
      /\ talk.refused \in Nat /\ Current <= Len(transcript')
  <2>1. Current \in Nat /\ Len(transcript') \in Nat
      BY <1>2, <1>3, LenProperties DEF Current
  <2> QED
      BY <1>2, <1>3, <2>1 DEF TalkType, Longer, Current
<1>6. Calling'
    BY <1>0, <1>1, <1>2, <1>4, <1>5 DEF Calling, Current
<1>7. Slot'
  <2>1. Fair(slot.binding, transcript, talk.refused) =>
            Fair(slot.binding, transcript', talk.refused)
      BY <1>2, <1>3, AuthorityGrows
  <2> QED
      BY <1>0, <1>1, <1>4, <2>1 DEF Slot, Refusing
<1>8. Routed'
  <2> SUFFICES ASSUME turn.pc = "route" PROVE Routed'
      BY <1>1 DEF Routed
  <2>1. /\ turn.at \in 1..MaxSpeech /\ turn.words \in Utterances
        /\ turn.version \in Nat /\ turn.revision \in Nat /\ turn.revision <= talk.revision
        /\ turn.at \in 1..Current /\ talk.refused <= turn.at
        /\ turn.version \in 1..Len(transcript[turn.at])
        /\ turn.words = transcript[turn.at][turn.version]
      BY <1>0, <1>1 DEF Routed
  <2>2. /\ Len(transcript[turn.at]) <= Len(transcript'[turn.at])
        /\ transcript'[turn.at][turn.version] = turn.words
      BY <1>2, <2>1 DEF Longer, Current
  <2>3. Len(transcript[turn.at]) \in Nat /\ Len(transcript'[turn.at]) \in Nat
    <3>1. turn.at \in 1..Len(transcript')
        BY <1>5, <2>1
    <3>2. transcript[turn.at] \in Seq(Utterances) /\ transcript'[turn.at] \in Seq(Utterances)
        BY <1>2, <1>3, <2>1, <3>1, ElementOfSeq DEF Current
    <3> QED
        BY <3>2, LenProperties
  <2>4. /\ turn.version \in 1..Len(transcript'[turn.at])
        /\ turn.at \in 1..Len(transcript')
        /\ talk'.revision # turn.revision /\ turn.revision <= talk'.revision
      BY <1>4, <1>5, <2>1, <2>2, <2>3
  <2> QED
      BY <1>1, <1>4, <2>1, <2>2, <2>4 DEF Routed, Current
<1>9. Reserving'
  <2> SUFFICES ASSUME turn.pc = "reserve" PROVE Reserving'
      BY <1>1 DEF Reserving
  <2>1. /\ turn.names \in SUBSET Threads /\ turn.text \in Texts \cup {NoText}
        /\ turn.input \in Nat /\ turn.revision \in Nat /\ turn.key \in Keys
      BY <1>0 DEF Reserving
  <2> SUFFICES ASSUME turn.key.form # "text" PROVE Reserving'
      BY <1>1, <2>1 DEF Reserving
  <2>2. /\ turn.revision <= talk.revision /\ turn.key.call = talk.call
        /\ Named(turn.names, transcript, talk.refused)
        /\ Worded(turn.text, transcript, talk.refused)
      BY <1>0, <1>1 DEF Reserving
  <2>3. /\ Named(turn.names, transcript', talk'.refused)
        /\ Worded(turn.text, transcript', talk'.refused)
      BY <1>2, <1>3, <1>4, <2>2, AuthorityGrows
  <2>4. talk'.revision # turn.revision /\ turn.revision <= talk'.revision
      BY <1>4, <1>5, <2>1, <2>2
  <2> QED
      BY <1>1, <1>4, <2>1, <2>2, <2>3, <2>4 DEF Reserving
<1> QED
    BY <1>6, <1>7, <1>8, <1>9 DEF VoiceInv

LEMMA TakeDelegationVoice == ASSUME VoiceInv, TakeDelegation PROVE VoiceInv'
<1>0. Calling /\ Slot
    BY DEF VoiceInv
<1> DEFINE last == Len(transcript[Current])
           mark == IF Reading(Current).form = "cancel" THEN Current ELSE talk.refused
<1>1. /\ talk.on /\ transcript # <<>> /\ turn = NoTurn
      /\ turn' = [pc |-> "route", at |-> Current, words |-> Reading(Current),
                  version |-> last, revision |-> talk.revision]
      /\ talk' = [talk EXCEPT !.refused = mark]
      /\ transcript' = transcript /\ slot' = slot
    BY DEF TakeDelegation
<1>2. /\ transcript \in Seq(Seq(Utterances)) /\ talk \in TalkType
      /\ Current <= talk.revision /\ talk.refused <= Current
    BY <1>0 DEF Calling
<1>3. Current \in Nat /\ Current <= MaxSpeech /\ Current \in 1..Current
  <2>1. Len(transcript) # 0
      BY <1>1, <1>2, EmptySeq
  <2> QED
      BY <1>0, <2>1, TranscriptFacts DEF Current
<1>4. /\ last \in Nat /\ last \in 1..last /\ Reading(Current) = transcript[Current][last]
      /\ Reading(Current) \in Utterances
    BY <1>0, <1>3, TranscriptFacts DEF Reading
<1>5. /\ talk.revision \in Nat /\ talk.refused \in Nat
      /\ mark \in 0..MaxSpeech /\ mark <= Current
    BY <1>2, <1>3, Bounds DEF TalkType
<1>6. /\ talk' \in TalkType /\ talk'.on = talk.on /\ talk'.call = talk.call
      /\ talk'.refused = mark /\ talk'.revision = talk.revision
  <2> HIDE DEF mark
  <2> QED
      BY <1>1, <1>2, <1>5 DEF TalkType
<1>7. Calling'
  <2> HIDE DEF mark
  <2> QED
      BY <1>0, <1>1, <1>5, <1>6 DEF Calling, Current
<1>8. /\ turn'.pc = "route" /\ turn'.at = Current /\ turn'.words = Reading(Current)
      /\ turn'.version = last /\ turn'.revision = talk.revision
    BY <1>1
<1>9. Slot'
  <2>1. Fair(slot.binding, transcript, talk.refused) /\ slot.floor >= talk.refused
        /\ slot \in SlotType /\ Awaiting(slot.binding)
      BY <1>0, <1>1 DEF Slot, Refusing, NoTurn
  <2>2. CASE Reading(Current).form = "cancel"
      BY <1>1, <1>8, <2>1, <2>2 DEF Slot, Refusing
  <2>3. CASE Reading(Current).form # "cancel"
      BY <1>1, <1>6, <1>8, <2>1, <2>3 DEF Slot, Refusing
  <2> QED
      BY <2>2, <2>3
<1>10. Routed'
  <2> HIDE DEF mark
  <2>1. Current \in 1..MaxSpeech
      BY <1>3, Bounds
  <2> QED
      BY <1>1, <1>3, <1>4, <1>5, <1>6, <1>8, <2>1 DEF Routed, Current
<1>11. Reserving'
    BY <1>8 DEF Reserving
<1> QED
    BY <1>7, <1>9, <1>10, <1>11 DEF VoiceInv

LEMMA EndsVoice ==
    ASSUME VoiceInv, events \in 0..MaxEvents, CallEnds \/ TakeText \/ Crash
    PROVE  VoiceInv'
<1>1. HangUp
    BY DEF CallEnds, TakeText, Crash
<1>2. /\ Calling' /\ Slot' /\ talk'.revision = talk.revision /\ ~talk'.on
      /\ turn' = turn => Routed' /\ Reserving'
    BY <1>1, HangUpVoice
<1>3. CASE CallEnds
  <2>1. turn' = turn
      BY <1>3 DEF CallEnds
  <2> QED
      BY <1>2, <2>1 DEF VoiceInv
<1>4. CASE TakeText
  <2>1. events' = events + 1 /\ events < MaxEvents
      BY <1>4 DEF TakeText, Happens
  <2>2. PICK u \in Utterances :
          turn' = [pc |-> "reserve", names |-> u.names, text |-> u.text, input |-> 1,
                   revision |-> 0,
                   key |-> [call |-> 0, form |-> "text", turn |-> events']]
      BY <1>4 DEF TakeText
  <2> DEFINE key == [call |-> 0, form |-> "text", turn |-> events']
  <2>3. events' \in 1..MaxEvents
      BY <2>1, Bounds
  <2>4. key \in Keys /\ key.form = "text"
      BY <2>3 DEF Keys
  <2>5. u.names \in SUBSET Threads /\ u.text \in Texts \cup {NoText}
      BY UtteranceFacts
  <2> HIDE DEF key
  <2>6. turn' = [pc |-> "reserve", names |-> u.names, text |-> u.text, input |-> 1,
                 revision |-> 0, key |-> key]
      BY <2>2 DEF key
  <2>7. Routed' /\ Reserving'
      BY <2>4, <2>5, <2>6 DEF Routed, Reserving
  <2> QED
      BY <1>2, <2>7 DEF VoiceInv
<1>5. CASE Crash
  <2>1. turn'.pc = "idle"
      BY <1>5 DEF Crash, NoTurn
  <2> QED
      BY <1>2, <2>1 DEF VoiceInv, Routed, Reserving
<1> QED
    BY <1>3, <1>4, <1>5

\* A step that leaves the call alone, and goes on with a message or ends the turn.
LEMMA VoiceQuiet ==
    ASSUME VoiceInv, UNCHANGED <<talk, transcript, slot>>,
           turn' = turn \/ (turn.pc # "route" /\ turn'.pc \notin {"route", "reserve"})
    PROVE  VoiceInv'
<1>1. CASE turn' = turn
    BY <1>1 DEF VoiceInv, Calling, Slot, Refusing, Routed, Reserving, Current
<1>2. CASE turn.pc # "route" /\ turn'.pc \notin {"route", "reserve"}
    BY <1>2 DEF VoiceInv, Calling, Slot, Refusing, Routed, Reserving, Current
<1> QED
    BY <1>1, <1>2

-----------------------------------------------------------------------------
(* What an utterance asks for.                                             *)

LEMMA LatestIn ==
    ASSUME NEW n \in Nat, NEW I \in SUBSET (0..n), I # {}
    PROVE  Latest(I) \in I
<1> DEFINE P(m) == \E i \in I : n - i = m
           away == {m \in Nat : P(m)}
<1>1. away \subseteq Nat /\ away # {}
  <2>1. PICK i \in I : TRUE
      OBVIOUS
  <2>2. n - i \in Nat
      OBVIOUS
  <2> QED
      BY <2>2
<1>2. PICK m \in away : \A k \in away : k >= m
  <2> DEFINE Less == OpToRel(<, Nat)
  <2>1. \A j \in Nat, k \in Nat : <<j, k>> \in Less <=> j < k
      BY Zenon DEF OpToRel
  <2> HIDE DEF Less, away
  <2>2. PICK m \in away : \A k \in away : <<k, m>> \notin Less
      BY <1>1, NatLessThanWellFounded, WFMin, Zenon DEF Less
  <2>3. ASSUME NEW k \in away PROVE k >= m
    <3>1. k \in Nat /\ m \in Nat /\ ~(k < m)
        BY <1>1, <2>1, <2>2
    <3> QED
        BY <3>1
  <2> QED
      BY <2>3
<1>3. PICK i \in I : n - i = m
    OBVIOUS
<1>4. ASSUME NEW k \in I PROVE k <= i
  <2>1. n - k \in away
      OBVIOUS
  <2>2. n - k >= m
      BY <1>2, <2>1
  <2> QED
      BY <1>3, <2>2
<1> QED
    BY <1>4 DEF Latest

\* An utterance of the transcript speaks for itself.
LEMMA Spoken ==
    ASSUME NEW T \in Seq(Seq(Utterances)), NEW r, NEW j \in 1..Len(T), j >= r,
           NEW v \in 1..Len(T[j])
    PROVE  /\ \A S : S \subseteq T[j][v].names => Named(S, T, r)
           /\ Worded(T[j][v].text, T, r)
<1>1. DOMAIN T[j] = 1..Len(T[j])
    BY ElementOfSeq, LenProperties
<1>2. T[j][v] \in Said(T, r)
    BY <1>1, SaidMember
<1> QED
    BY <1>2 DEF Named, Worded

LEMMA Counting ==
    /\ Cardinality({}) = 0
    /\ \A S \in SUBSET Threads : Cardinality(S) \in Nat
<1> SUFFICES ASSUME NEW S \in SUBSET Threads PROVE Cardinality(S) \in Nat
    BY FS_EmptySet
<1>1. IsFiniteSet(S)
    BY Bounds, FS_Subset
<1> QED
    BY <1>1, FS_CardinalityType

\* What a delegation works with: its utterance was said in the call after the last
\* refusal, and so was what is bound already.
Works ==
    /\ talk.refused \in Nat /\ turn.at \in 1..MaxSpeech
    /\ talk.refused <= turn.at /\ turn.at <= Current
    /\ U \in Utterances /\ slot.floor \in 0..MaxSpeech
    /\ slot.attached \in BOOLEAN
    /\ \A S : S \subseteq U.names => Named(S, transcript, talk.refused)
    /\ Worded(U.text, transcript, talk.refused)
    /\ U.form # "cancel" => /\ Fair(slot.binding, transcript, talk.refused)
                            /\ Awaiting(slot.binding) /\ slot.floor >= talk.refused

LEMMA WorksOn == ASSUME VoiceInv, Routing PROVE Works
<1>0. Calling /\ Slot /\ Routed
    BY DEF VoiceInv
<1>1. turn.pc = "route" /\ talk.on
    BY DEF Routing
<1>2. /\ talk.refused \in Nat /\ transcript \in Seq(Seq(Utterances))
      /\ slot.floor \in 0..MaxSpeech /\ slot.attached \in BOOLEAN
    BY <1>0 DEF Calling, TalkType, Slot, SlotType
<1>3. /\ turn.at \in 1..MaxSpeech /\ U \in Utterances /\ turn.at \in 1..Len(transcript)
      /\ talk.refused <= turn.at
      /\ turn.version \in 1..Len(transcript[turn.at]) /\ U = transcript[turn.at][turn.version]
    BY <1>0, <1>1 DEF Routed, U, Current
<1>4. turn.at >= talk.refused /\ turn.at <= Current
    BY <1>0, <1>2, <1>3, TranscriptFacts DEF Current
<1>5. /\ \A S : S \subseteq U.names => Named(S, transcript, talk.refused)
      /\ Worded(U.text, transcript, talk.refused)
    BY <1>2, <1>3, <1>4, Spoken
<1>6. U.form # "cancel" => /\ Fair(slot.binding, transcript, talk.refused)
                           /\ Awaiting(slot.binding) /\ slot.floor >= talk.refused
    BY <1>0, <1>1 DEF Slot, Refusing, U
<1> QED
    BY <1>2, <1>3, <1>4, <1>5, <1>6 DEF Works

\* A binding that is too old counts no more.
LEMMA LiveFacts ==
    ASSUME VoiceInv, Routing, U.form # "cancel"
    PROVE  /\ Fair(Live, transcript, talk.refused) /\ Awaiting(Live)
           /\ Floor \in 0..MaxSpeech /\ Floor >= talk.refused
<1>1. Works
    BY WorksOn
<1>2. turn.at \in 0..MaxSpeech /\ turn.at >= talk.refused
    BY <1>1, Bounds DEF Works
<1>3. CASE Expired
    BY <1>2, <1>3, Nothing DEF Live, Floor
<1>4. CASE ~Expired
    BY <1>1, <1>4 DEF Live, Floor, Works
<1> QED
    BY <1>3, <1>4

\* The targets come from this utterance, from an earlier one that nothing has refused
\* since, or stay.  A message is waited for with the target that was settled before.
LEMMA BindingFacts ==
    ASSUME VoiceInv, Routing, U.form # "cancel", t3.alive \subseteq Threads
    PROVE  /\ Fair(Binding, transcript, talk.refused)
           /\ Binding.awaits = "text" => Binding = Live
           /\ Binding.awaits = "target" => Binding = Live \/ Mentioned # {}
           /\ Mentioned = {} /\ Bound(Live) => Binding = Live
<1>0. Works /\ Calling
    BY WorksOn DEF VoiceInv
<1>1. /\ Fair(Live, transcript, talk.refused) /\ Awaiting(Live)
      /\ Floor \in 0..MaxSpeech /\ Floor >= talk.refused
    BY LiveFacts
<1>2. Live \in BindingType /\ (~Bound(Live) => Live = NoBinding)
    BY <1>1 DEF Fair, Bound
<1>3. ASSUME NEW S \in SUBSET Threads, NEW i \in 1..MaxSpeech, S # {},
             Named(S, transcript, talk.refused), Live.awaits # "text"
      PROVE  /\ Fair(Rebound(S, i), transcript, talk.refused)
             /\ Rebound(S, i).awaits = Live.awaits \/ Rebound(S, i).awaits = "none"
  <2>0. i \in Nat /\ NoText \in Texts \cup {NoText}
      BY <1>3, Bounds
  <2>1. CASE Live.awaits = "target"
    <3>1. /\ Rebound(S, i) \in BindingType /\ Rebound(S, i).targets = S
          /\ Rebound(S, i).turn = i /\ Rebound(S, i).text = Live.text
          /\ Rebound(S, i).awaits = Live.awaits
      <4>1. Rebound(S, i) = [Live EXCEPT !.targets = S, !.turn = i]
          BY <2>1 DEF Rebound
      <4>2. Live \in BindingType /\ S \in SUBSET Threads /\ i \in Nat
          BY <1>2, <2>0
      <4> QED
          BY <4>1, <4>2 DEF BindingType
    <3> QED
        BY <1>1, <1>3, <3>1 DEF Fair
  <2>2. CASE Live.awaits # "target"
    <3>1. /\ Rebound(S, i) \in BindingType /\ Rebound(S, i).targets = S
          /\ Rebound(S, i).turn = i /\ Rebound(S, i).text = NoText
          /\ Rebound(S, i).awaits = "none"
      <4>1. NoBinding \in BindingType /\ NoBinding.text = NoText /\ NoBinding.awaits = "none"
          BY DEF NoBinding, BindingType
      <4>2. Rebound(S, i) = [NoBinding EXCEPT !.targets = S, !.turn = i]
          BY <2>2 DEF Rebound
      <4> QED
          BY <1>3, <2>0, <4>1, <4>2 DEF BindingType
    <3> QED
        BY <1>3, <3>1 DEF Fair, Worded
  <2> QED
      BY <2>1, <2>2
<1>4. CASE Mentioned # {}
  <2>1. Mentioned \in SUBSET Threads /\ Mentioned \subseteq U.names /\ Live.awaits # "text"
      BY <1>4 DEF Mentioned, Addressed
  <2>2. Named(Mentioned, transcript, talk.refused)
      BY <1>0, <2>1 DEF Works
  <2>3. Binding = Rebound(Mentioned, turn.at) /\ turn.at \in 1..MaxSpeech
      BY <1>0, <1>4 DEF Binding, Works
  <2> QED
      BY <1>3, <1>4, <2>1, <2>2, <2>3
<1>5. CASE Mentioned = {} /\ ~Bound(Live) /\ Earlier # {}
  <2> DEFINE i == Latest(Earlier)
  <2>1. Binding = Rebound(Addressed(Reading(i)), i)
      BY <1>5 DEF Binding
  <2>2. i \in Earlier
    <3>1. turn.at \in Nat /\ turn.at <= Current /\ Current \in Nat
        BY <1>0, TranscriptFacts DEF Works
    <3>2. Earlier \in SUBSET (0..Current)
        BY <1>1, <3>1 DEF Earlier
    <3> QED
        BY <1>5, <3>1, <3>2, LatestIn
  <2>3. /\ i \in 1..Current /\ i \in 1..MaxSpeech /\ i >= talk.refused
        /\ Addressed(Reading(i)) # {}
    <3>1. /\ talk.refused \in Nat /\ turn.at \in 1..MaxSpeech /\ turn.at <= Current
          /\ Current \in Nat
        BY <1>0, TranscriptFacts DEF Works
    <3> HIDE DEF i
    <3> QED
        BY <1>1, <2>2, <3>1, Bounds DEF Earlier
  <2> HIDE DEF i
  <2>4. Addressed(Reading(i)) \in SUBSET Threads
      BY DEF Addressed
  <2>5. Named(Addressed(Reading(i)), transcript, talk.refused)
    <3>1. /\ transcript \in Seq(Seq(Utterances)) /\ i \in 1..Len(transcript)
          /\ Len(transcript[i]) \in 1..Len(transcript[i])
        BY <1>0, <2>3, TranscriptFacts DEF Calling, Current
    <3>2. Reading(i) = transcript[i][Len(transcript[i])]
        BY DEF Reading
    <3> QED
        BY <2>3, <3>1, <3>2, Spoken DEF Addressed
  <2>6. Live.awaits = "none"
      BY <1>2, <1>5 DEF NoBinding
  <2> QED
      BY <1>3, <1>5, <2>1, <2>3, <2>4, <2>5, <2>6
<1>6. CASE Mentioned = {} /\ ~(~Bound(Live) /\ Earlier # {})
  <2>1. Binding = Live
      BY <1>6 DEF Binding
  <2> QED
      BY <1>1, <2>1
<1> QED
    BY <1>4, <1>5, <1>6

-----------------------------------------------------------------------------
(* Every answer to an utterance keeps to what was said.                    *)

\* What the slot is set to.
LEMMA SlotSet ==
    ASSUME VoiceInv, talk.on, UNCHANGED <<talk, transcript>>,
           NEW b, NEW f \in 0..MaxSpeech, NEW a \in BOOLEAN, SetSlot(b, f, a),
           Fair(b, transcript, talk.refused), Awaiting(b), f >= talk.refused
    PROVE  Calling' /\ Slot'
<1>1. slot' = [binding |-> b, floor |-> f, attached |-> a]
    BY DEF SetSlot
<1>2. slot' \in SlotType /\ slot'.binding = b /\ slot'.floor = f
    BY <1>1 DEF SlotType, Fair
<1>3. Calling'
    BY DEF VoiceInv, Calling, Current
<1>4. Slot'
    BY <1>2 DEF Slot
<1> QED
    BY <1>3, <1>4

\* A turn that ends leaves nothing to be sent.
LEMMA RepliedVoice ==
    ASSUME Calling' /\ Slot', turn' = NoTurn
    PROVE  VoiceInv'
BY DEF VoiceInv, Routed, Reserving, NoTurn

LEMMA ElsewhereVoice ==
    ASSUME VoiceInv, Routing, UNCHANGED <<talk, transcript>>,
           NEW b, NEW f \in 0..MaxSpeech, Elsewhere(b, f),
           Fair(b, transcript, talk.refused), Awaiting(b), f >= talk.refused
    PROVE  VoiceInv'
<1>1. Works /\ talk.on /\ turn' = NoTurn
    BY WorksOn DEF Routing, Elsewhere
<1>2. slot.attached \in BOOLEAN /\ turn.at \in 0..MaxSpeech /\ turn.at >= talk.refused
    BY <1>1, Bounds DEF Works
<1>3. CASE \E a \in BOOLEAN : SetSlot(b, f, a)
    BY <1>1, <1>3, SlotSet, RepliedVoice
<1>4. CASE \E a \in BOOLEAN : Discard(a)
  <2>1. PICK a \in BOOLEAN : SetSlot(NoBinding, turn.at, a)
      BY <1>4 DEF Discard
  <2>2. Calling' /\ Slot'
      BY <1>1, <1>2, <2>1, SlotSet, Nothing
  <2> QED
      BY <1>1, <2>2, RepliedVoice
<1> QED
    BY <1>2, <1>3, <1>4 DEF Elsewhere

\* A message to be sent.
LEMMA PostVoice ==
    ASSUME VoiceInv, Routing, UNCHANGED <<talk, transcript>>, Calling' /\ Slot',
           NEW S \in SUBSET Threads, NEW x \in Texts \cup {NoText},
           NEW form \in {"explicit", "context"}, Post(S, x, form),
           Named(S, transcript, talk.refused), Worded(x, transcript, talk.refused)
    PROVE  VoiceInv'
<1> DEFINE key == [call |-> talk.call, form |-> form, turn |-> turn.at]
<1>1. turn' = [pc |-> "reserve", names |-> S, text |-> x, input |-> turn.version,
               revision |-> turn.revision, key |-> key]
    BY DEF Post
<1>2. key \in Keys /\ key.call = talk.call /\ key.turn = turn.at
  <2>1. talk.call \in 1..MaxCalls /\ turn.at \in 1..MaxSpeech
      BY Bounds DEF VoiceInv, Calling, TalkType, Routed, Routing
  <2> QED
      BY <2>1 DEF Keys
<1> HIDE DEF key
<1>3. /\ turn'.pc = "reserve" /\ turn'.names = S /\ turn'.text = x
      /\ turn'.input = turn.version /\ turn'.revision = turn.revision /\ turn'.key = key
    BY <1>1
<1>4. /\ turn.version \in Nat /\ turn.revision \in Nat /\ turn.revision <= talk.revision
      /\ talk.revision = turn.revision =>
            turn.at = Current /\ turn.version = Len(transcript[Current])
    BY DEF VoiceInv, Routed, Routing
<1>5. Reserving'
    BY <1>2, <1>3, <1>4 DEF Reserving, Current
<1>6. Routed'
    BY <1>3 DEF Routed
<1> QED
    BY <1>5, <1>6 DEF VoiceInv

LEMMA HangsVoice ==
    ASSUME VoiceInv, UNCHANGED <<talk, transcript>>, Hangs
    PROVE  VoiceInv'
<1>1. ~talk.on /\ turn' = NoTurn /\ slot' = slot
    BY DEF Hangs
<1>2. slot = NoSlot /\ talk.refused = 0
    BY <1>1 DEF VoiceInv, Calling
<1>3. Calling'
    BY <1>1 DEF VoiceInv, Calling, Current
<1>4. Slot'
    BY <1>1, <1>2, SlotOver, Nothing DEF Slot
<1> QED
    BY <1>1, <1>3, <1>4, RepliedVoice

LEMMA ExplicitVoice ==
    ASSUME VoiceInv, t3.alive \subseteq Threads, UNCHANGED <<talk, transcript>>,
           RouteIncomplete \/ RouteExplicit
    PROVE  VoiceInv'
<1>1. Routing /\ Works /\ U.form # "cancel" /\ talk.on
    BY WorksOn DEF RouteIncomplete, RouteExplicit, Routing
<1>2. /\ slot.floor >= talk.refused /\ slot.floor \in 0..MaxSpeech /\ turn.at \in 1..MaxSpeech
      /\ turn.at \in 0..MaxSpeech /\ turn.at >= talk.refused
    BY <1>1, Bounds DEF Works
<1>3. /\ Addressed(U) \in SUBSET Threads /\ Named(Addressed(U), transcript, talk.refused)
      /\ Named(U.names, transcript, talk.refused) /\ Worded(U.text, transcript, talk.refused)
    BY <1>1 DEF Works, Addressed
<1>4. Cardinality(Addressed(U)) \in Nat
    BY <1>3, Counting
<1>5. U.text \in Texts \cup {NoText} /\ U.names \in SUBSET Threads
    BY <1>1, UtteranceFacts DEF Works
<1>6. ASSUME NEW x \in Texts \cup {NoText}, Worded(x, transcript, talk.refused),
             NEW w \in {"text", "target"},
             SetSlot([targets |-> Addressed(U), text |-> x, turn |-> turn.at, awaits |-> w],
                     slot.floor, FALSE),
             Awaiting([targets |-> Addressed(U), text |-> x, turn |-> turn.at, awaits |-> w])
      PROVE  Calling' /\ Slot'
  <2> DEFINE b == [targets |-> Addressed(U), text |-> x, turn |-> turn.at, awaits |-> w]
  <2>1. b \in BindingType /\ b.targets = Addressed(U) /\ b.text = x /\ b.turn # 0
      BY <1>2, <1>3 DEF BindingType
  <2> HIDE DEF b
  <2>2. Fair(b, transcript, talk.refused)
      BY <1>3, <1>6, <2>1 DEF Fair
  <2>3. SetSlot(b, slot.floor, FALSE) /\ Awaiting(b)
      BY <1>6 DEF b
  <2> QED
      BY <1>1, <1>2, <2>2, <2>3, SlotSet
<1>7. CASE RouteIncomplete
  <2> DEFINE w == IF Cardinality(Addressed(U)) = 1 THEN "text" ELSE "target"
             b == [targets |-> Addressed(U), text |-> NoText, turn |-> turn.at, awaits |-> w]
  <2>1. SetSlot(b, slot.floor, FALSE) /\ turn' = NoTurn
      BY <1>7 DEF RouteIncomplete
  <2>2. Awaiting(b)
      BY DEF Awaiting
  <2>3. w \in {"text", "target"} /\ Worded(NoText, transcript, talk.refused)
      BY DEF Worded
  <2> HIDE DEF w
  <2>4. Calling' /\ Slot'
      BY <1>6, <2>1, <2>2, <2>3
  <2> QED
      BY <2>1, <2>4, RepliedVoice
<1>8. CASE RouteExplicit /\ Cardinality(Addressed(U)) > 1
  <2> DEFINE b == [targets |-> Addressed(U), text |-> U.text, turn |-> turn.at,
                   awaits |-> "target"]
  <2>1. SetSlot(b, slot.floor, FALSE) /\ turn' = NoTurn
      BY <1>8 DEF RouteExplicit
  <2>2. Cardinality(Addressed(U)) # 1
      BY <1>4, <1>8
  <2>3. Awaiting(b)
      BY <2>2 DEF Awaiting
  <2>4. Calling' /\ Slot'
      BY <1>3, <1>5, <1>6, <2>1, <2>3
  <2> QED
      BY <2>1, <2>4, RepliedVoice
<1>9. CASE RouteExplicit /\ ~(Cardinality(Addressed(U)) > 1)
  <2>1. SetSlot(NoBinding, turn.at, FALSE) /\ Post(U.names, U.text, "explicit")
      BY <1>9 DEF RouteExplicit, Discard
  <2>2. Calling' /\ Slot'
      BY <1>1, <1>2, <2>1, SlotSet, Nothing
  <2> QED
      BY <1>1, <1>3, <1>5, <2>1, <2>2, PostVoice
<1> QED
    BY <1>7, <1>8, <1>9

LEMMA LeavingVoice ==
    ASSUME VoiceInv, t3.alive \subseteq Threads, UNCHANGED <<talk, transcript>>,
           Drop \/ AnswerQuestion \/ LeaveTopic
    PROVE  VoiceInv'
<1>1. Routing /\ Works
    BY WorksOn DEF Drop, AnswerQuestion, LeaveTopic, Contextual
<1>2. turn.at \in 0..MaxSpeech /\ turn.at >= talk.refused
    BY <1>1, Bounds DEF Works
<1>3. ASSUME Elsewhere(NoBinding, turn.at) PROVE VoiceInv'
    BY <1>1, <1>2, <1>3, ElsewhereVoice, Nothing
<1>4. CASE Drop
    BY <1>3, <1>4 DEF Drop
<1>5. CASE AnswerQuestion
  <2>1. U.form # "cancel" /\ Elsewhere(Live, Floor)
      BY <1>5 DEF AnswerQuestion
  <2> QED
      BY <1>1, <2>1, LiveFacts, ElsewhereVoice
<1>6. CASE LeaveTopic
  <2>1. U.form # "cancel" /\ ~Intends
      BY <1>6 DEF LeaveTopic, Dropped
  <2>2. CASE Elsewhere(Binding, Floor)
    <3>1. Binding = Live \/ Binding.awaits = "none"
      <4>1. Binding.awaits \in {"none", "text", "target"}
          BY <1>1, <2>1, BindingFacts DEF Fair, BindingType
      <4> QED
          BY <1>1, <2>1, <4>1, BindingFacts DEF Intends, AnswersTarget
    <3>2. Awaiting(Binding)
        BY <1>1, <2>1, <3>1, LiveFacts DEF Awaiting
    <3> QED
        BY <1>1, <2>1, <2>2, <3>2, BindingFacts, LiveFacts, ElsewhereVoice
  <2> QED
      BY <1>3, <1>6, <2>2 DEF LeaveTopic
<1> QED
    BY <1>4, <1>5, <1>6

\* The text that is sent, or read back, was said.
LEMMA TextFacts ==
    ASSUME VoiceInv, Routing, U.form # "cancel", t3.alive \subseteq Threads
    PROVE  /\ Text \in Texts \cup {NoText} /\ Worded(Text, transcript, talk.refused)
           /\ Text = NoText => Binding.text = NoText
<1>1. Works /\ U.text \in Texts \cup {NoText}
      /\ (U.form \in {"plain", "declare"} => U.text # NoText)
    BY WorksOn, UtteranceFacts DEF Works
<1>2. Binding.text \in Texts \cup {NoText} /\ Worded(Binding.text, transcript, talk.refused)
    BY BindingFacts DEF Fair, BindingType
<1>3. CASE (U.form = "send" /\ U.text # NoText) \/ AnswersText \/ Declares
    BY <1>1, <1>3 DEF Text, Works, AnswersText, Declares
<1>4. CASE ~((U.form = "send" /\ U.text # NoText) \/ AnswersText \/ Declares)
  <2>1. Text = Binding.text
      BY <1>4 DEF Text
  <2> QED
      BY <1>2, <2>1
<1> QED
    BY <1>3, <1>4

\* A question back keeps what is bound; the message that is complete ends the binding.
LEMMA AskingVoice ==
    ASSUME VoiceInv, t3.alive \subseteq Threads, UNCHANGED <<talk, transcript>>,
           AskThread \/ AskMessage \/ PostBound
    PROVE  VoiceInv'
<1>1. Routing /\ Works /\ U.form # "cancel" /\ talk.on
    BY WorksOn DEF AskThread, AskMessage, PostBound, Asking, Contextual, Dropped, Routing
<1>2. /\ Fair(Binding, transcript, talk.refused) /\ Floor \in 0..MaxSpeech
      /\ Floor >= talk.refused
    BY <1>1, BindingFacts, LiveFacts
<1>3. /\ Text \in Texts \cup {NoText} /\ Worded(Text, transcript, talk.refused)
      /\ Text = NoText => Binding.text = NoText
    BY <1>1, TextFacts
<1>4. /\ Binding \in BindingType /\ Binding.targets \in SUBSET Threads
      /\ Named(Binding.targets, transcript, talk.refused)
    BY <1>2 DEF Fair, BindingType
<1>5. /\ turn.at \in 1..MaxSpeech /\ turn.at \in Nat /\ turn.at # 0
      /\ turn.at \in 0..MaxSpeech /\ turn.at >= talk.refused /\ slot.attached \in BOOLEAN
    BY <1>1, Bounds DEF Works
<1>6. CASE AskThread
  <2> DEFINE b == [targets |-> Binding.targets, text |-> Text, turn |-> turn.at,
                   awaits |-> "target"]
  <2>1. Cardinality(Binding.targets) # 1 /\ SetSlot(b, Floor, FALSE) /\ turn' = NoTurn
      BY <1>6 DEF AskThread, Reply, Single
  <2>2. Awaiting(b)
      BY <2>1 DEF Awaiting
  <2>3. /\ b \in BindingType /\ b.targets = Binding.targets /\ b.text = Text /\ b.turn # 0
      BY <1>3, <1>4, <1>5 DEF BindingType
  <2> HIDE DEF b
  <2>4. Fair(b, transcript, talk.refused)
      BY <1>3, <1>4, <2>3 DEF Fair
  <2>5. Calling' /\ Slot'
      BY <1>1, <1>2, <2>1, <2>2, <2>4, SlotSet
  <2> QED
      BY <2>1, <2>5, RepliedVoice
<1>7. CASE AskMessage
  <2> DEFINE b == [Binding EXCEPT !.awaits = "text", !.turn = turn.at]
  <2>1. /\ Cardinality(Binding.targets) = 1 /\ Text = NoText
        /\ SetSlot(b, Floor, FALSE) /\ turn' = NoTurn
      BY <1>7 DEF AskMessage, Reply, Single
  <2>2. /\ b \in BindingType /\ b.targets = Binding.targets /\ b.text = Binding.text
        /\ b.turn = turn.at /\ b.awaits = "text"
      BY <1>4, <1>5 DEF BindingType
  <2> HIDE DEF b
  <2>3. Awaiting(b)
      BY <1>3, <2>1, <2>2 DEF Awaiting
  <2>4. Fair(b, transcript, talk.refused)
      BY <1>2, <1>5, <2>2 DEF Fair
  <2>5. Calling' /\ Slot'
      BY <1>1, <1>2, <2>1, <2>3, <2>4, SlotSet
  <2> QED
      BY <2>1, <2>5, RepliedVoice
<1>8. CASE PostBound
  <2>1. PICK a \in {slot.attached, FALSE} : Discard(a)
      BY <1>8 DEF PostBound
  <2>2. a \in BOOLEAN /\ SetSlot(NoBinding, turn.at, a)
      BY <1>5, <2>1 DEF Discard
  <2>3. Calling' /\ Slot'
      BY <1>1, <1>5, <2>2, SlotSet, Nothing
  <2>4. Post(Binding.targets, Text, "context")
      BY <1>8 DEF PostBound
  <2> QED
      BY <1>1, <1>3, <1>4, <2>3, <2>4, PostVoice
<1> QED
    BY <1>6, <1>7, <1>8

\* A text that is declared for a target is read back.
LEMMA ReadBackVoice ==
    ASSUME VoiceInv, t3.alive \subseteq Threads, UNCHANGED <<talk, transcript>>, ReadBack
    PROVE  VoiceInv'
<1> DEFINE b == [Binding EXCEPT !.text = U.text, !.turn = turn.at]
<1>1. /\ Routing /\ Works /\ U.form = "declare" /\ U.form # "cancel" /\ talk.on /\ ~Intends
      /\ Declares /\ turn' = NoTurn /\ SetSlot(b, Floor, FALSE)
    BY WorksOn DEF ReadBack, Reply, Declares, Contextual, Routing
<1>2. /\ Fair(Binding, transcript, talk.refused) /\ Floor \in 0..MaxSpeech
      /\ Floor >= talk.refused /\ Awaiting(Live)
    BY <1>1, BindingFacts, LiveFacts
<1>3. /\ Binding \in BindingType /\ U.text \in Texts \cup {NoText}
      /\ turn.at \in Nat /\ turn.at # 0 /\ Worded(U.text, transcript, talk.refused)
    BY <1>1, <1>2, UtteranceFacts DEF Works, Fair
<1>4. /\ b \in BindingType /\ b.targets = Binding.targets /\ b.text = U.text
      /\ b.turn = turn.at /\ b.awaits = Binding.awaits
    BY <1>3 DEF BindingType
<1> HIDE DEF b
<1>5. Fair(b, transcript, talk.refused)
    BY <1>2, <1>3, <1>4 DEF Fair
<1>6. Binding.awaits # "text" /\ (Binding.awaits = "target" => Binding = Live)
    BY <1>1, BindingFacts DEF Intends, AnswersTarget
<1>7. Awaiting(b)
    BY <1>2, <1>4, <1>6 DEF Awaiting
<1>8. Calling' /\ Slot'
    BY <1>1, <1>2, <1>5, <1>7, SlotSet
<1> QED
    BY <1>1, <1>8, RepliedVoice

LEMMA VoiceStep ==
    ASSUME IInv, Next
    PROVE  VoiceInv'
<1>0. VoiceInv /\ t3.alive \subseteq Threads /\ events \in 0..MaxEvents
    BY DEF IInv, StoreInv
<1>1. CASE CallBegins \/ Speak \/ TakeDelegation
    BY <1>0, <1>1, CallBeginsVoice, SpeakVoice, TakeDelegationVoice
<1>2. CASE CallEnds \/ TakeText \/ Crash
    BY <1>0, <1>2, EndsVoice
<1>3. CASE Route
  <2>1. UNCHANGED <<talk, transcript>>
      BY <1>3 DEF Route
  <2> QED
      BY <1>0, <1>3, <2>1, HangsVoice, ExplicitVoice, LeavingVoice, ReadBackVoice, AskingVoice
         DEF Route
<1>4. CASE HandleSpec
  <2>1. turn.pc = "reserve" /\ turn'.pc \notin {"route", "reserve"}
    <3>1. Invalid \/ Known \/ Refused \/ Reserve
        BY <1>4 DEF HandleSpec
    <3>2. Invalid \/ Refused => turn.pc = "reserve" /\ turn'.pc = "idle"
        BY DEF Invalid, Refused, EndTurn, NoTurn
    <3>3. Known => turn.pc = "reserve" /\ turn'.pc \in {"idle", "receipt"}
        BY DEF Known, LookFor, EndTurn, NoTurn
    <3>4. Reserve => turn.pc = "reserve" /\ turn'.pc \in {"idle", "receipt", "dispatch"}
      <4> SUFFICES ASSUME Reserve
                   PROVE  turn.pc = "reserve" /\ turn'.pc \in {"idle", "receipt", "dispatch"}
          OBVIOUS
      <4>1. \/ \E k : LookFor(k)
            \/ turn' = [pc |-> "dispatch", key |-> turn.key]
            \/ EndTurn
          BY DEF Reserve
      <4> QED
          BY <4>1 DEF Reserve, LookFor, EndTurn, NoTurn
    <3> QED
        BY <3>1, <3>2, <3>3, <3>4
  <2> QED
      BY <1>0, <1>4, <2>1, VoiceQuiet DEF HandleSpec
<1>5. CASE Dispatch
  <2>1. turn.pc = "dispatch" /\ turn'.pc = "receipt"
      BY <1>5 DEF Dispatch, LookFor
  <2> QED
      BY <1>0, <1>5, <2>1, VoiceQuiet DEF Dispatch
<1>6. CASE Receipt
  <2>1. turn.pc = "receipt" /\ (turn' = turn \/ turn'.pc = "idle")
      BY <1>6 DEF Receipt, EndTurn, NoTurn
  <2> QED
      BY <1>0, <1>6, <2>1, VoiceQuiet DEF Receipt
<1>7. CASE T3Changes \/ T3Executes
    BY <1>0, <1>7, VoiceQuiet DEF T3Changes, T3Executes
<1> QED
    BY <1>1, <1>2, <1>3, <1>4, <1>5, <1>6, <1>7 DEF Next

-----------------------------------------------------------------------------
(* The store, and T3.                                                      *)

LEMMA StoreInit == Init => StoreInv
<1> SUFFICES ASSUME Init PROVE StoreInv
    OBVIOUS
<1>1. /\ entries = <<>> /\ saved = <<>> /\ turn = NoTurn /\ inbox = {} /\ reported = {}
      /\ t3 = [alive |-> Threads, asks |-> {}, messages |-> {}]
      /\ sends = [k \in Keys |-> 0] /\ events = 0
    BY DEF Init
<1>2. EntriesOK(<<>>)
    BY DEF EntriesOK, Unique
<1> QED
    BY <1>1, <1>2, Bounds DEF StoreInv, NoTurn

\* A step that leaves the store and T3 alone.
LEMMA StoreQuiet ==
    ASSUME StoreInv, UNCHANGED <<entries, saved, t3, inbox, sends, reported>>,
           events' \in 0..MaxEvents,
           \/ turn' = turn
           \/ turn'.pc \in {"idle", "route", "reserve"}
           \/ turn'.pc = "receipt" /\ turn'.key \in DOMAIN entries
    PROVE  StoreInv'
BY DEF StoreInv, EntriesOK, Unique

\* An entry more, of words that are not on their way to the thread yet.
LEMMA EntryAdded ==
    ASSUME EntriesOK(entries), NEW key \in Keys \ DOMAIN entries, NEW entry \in EntryType,
           entry.state = "reserved", Undecided(entry.thread, entry.text) = {}
    PROVE  /\ EntriesOK(With(key, entry))
           /\ DOMAIN With(key, entry) = DOMAIN entries \cup {key}
           /\ With(key, entry)[key] = entry
<1> DEFINE E == With(key, entry)
<1>1. DOMAIN E = DOMAIN entries \cup {key} /\ E[key] = entry
      /\ \A k \in DOMAIN entries : E[k] = entries[k]
    BY DEF With
<1> HIDE DEF E
<1>2. \A k \in DOMAIN E : E[k] \in EntryType
    BY <1>1 DEF EntriesOK
<1>3. ASSUME NEW k \in DOMAIN entries, entries[k].thread = entry.thread,
             entries[k].text = entry.text, entries[k].state = "reserved"
      PROVE  FALSE
    BY <1>3 DEF Undecided
<1>4. Unique(E)
    BY <1>1, <1>3 DEF Unique, EntriesOK
<1>5. \A k \in DOMAIN E : E[k].state = "received" => k \in t3.messages
    BY <1>1 DEF EntriesOK
<1> QED
    BY <1>1, <1>2, <1>4, <1>5 DEF EntriesOK, E

\* An entry that is found out to have arrived.
LEMMA EntryReceived ==
    ASSUME EntriesOK(entries), NEW key \in DOMAIN entries, key \in t3.messages
    PROVE  /\ EntriesOK([entries EXCEPT ![key].state = "received"])
           /\ DOMAIN [entries EXCEPT ![key].state = "received"] = DOMAIN entries
<1> DEFINE E == [entries EXCEPT ![key].state = "received"]
<1>1. /\ DOMAIN E = DOMAIN entries
      /\ \A k \in DOMAIN entries : k # key => E[k] = entries[k]
    OBVIOUS
<1>2. entries[key] \in EntryType
    BY DEF EntriesOK
<1>3. E[key] \in EntryType /\ E[key].state = "received"
      /\ E[key].thread = entries[key].thread /\ E[key].text = entries[key].text
    BY <1>2 DEF EntryType
<1> HIDE DEF E
<1>4. \A k \in DOMAIN E : E[k] \in EntryType
    BY <1>1, <1>3 DEF EntriesOK
<1>5. Unique(E)
    BY <1>1, <1>3 DEF Unique, EntriesOK
<1>6. \A k \in DOMAIN E : E[k].state = "received" => k \in t3.messages
    BY <1>1 DEF EntriesOK
<1> QED
    BY <1>1, <1>4, <1>5, <1>6 DEF EntriesOK, E

\* What a save leaves in memory and in the file.
LEMMA Stored ==
    ASSUME StoreInv, UNCHANGED <<t3, inbox, sends, reported>>, NEW E, Store(E),
           EntriesOK(E), DOMAIN entries \subseteq DOMAIN E,
           \/ turn'.pc = "idle"
           \/ turn'.pc = "receipt" /\ turn'.key \in DOMAIN E
           \/ /\ turn'.pc = "dispatch" /\ sends[turn'.key] = 0
              /\ turn'.key \in DOMAIN E /\ saved' = E
    PROVE  StoreInv'
<1>1. entries' = E /\ (saved' = E \/ saved' = saved) /\ events' \in 0..MaxEvents
    BY Bounds DEF Store, Happens, StoreInv
<1>2. EntriesOK(entries)' /\ EntriesOK(saved)'
    BY <1>1 DEF EntriesOK, Unique, StoreInv
<1>3. /\ DOMAIN saved \subseteq DOMAIN saved' /\ DOMAIN saved' \subseteq DOMAIN entries'
    BY <1>1 DEF StoreInv
<1> QED
    BY <1>1, <1>2, <1>3 DEF StoreInv

LEMMA ReserveStore == ASSUME IInv, HandleSpec PROVE StoreInv'
<1>0. StoreInv /\ Reserving /\ EntriesOK(entries)
    BY DEF IInv, VoiceInv, StoreInv
<1>1. UNCHANGED <<talk, transcript, slot, t3, inbox, sends, reported>>
    BY DEF HandleSpec
<1>2. CASE Invalid \/ Refused
  <2>1. turn'.pc = "idle" /\ UNCHANGED <<entries, saved, events>>
      BY <1>2 DEF Invalid, Refused, EndTurn, NoTurn
  <2> QED
      BY <1>0, <1>1, <2>1, StoreQuiet DEF StoreInv
<1>3. CASE Known
  <2>1. /\ UNCHANGED <<entries, saved, events>>
        /\ \/ turn'.pc = "idle"
           \/ turn'.pc = "receipt" /\ turn'.key \in DOMAIN entries
      BY <1>3 DEF Known, LookFor, EndTurn, NoTurn
  <2> QED
      BY <1>0, <1>1, <2>1, StoreQuiet DEF StoreInv
<1>4. CASE Reserve
  <2>0. /\ turn.pc = "reserve" /\ turn.text # NoText /\ turn.key \notin DOMAIN entries
      BY <1>4 DEF Reserve
  <2>1. turn.key \in Keys /\ turn.text \in Texts /\ turn.input \in Nat
      BY <1>0, <2>0 DEF Reserving
  <2>2. PICK thread \in Candidates \ t3.asks :
          LET same == Undecided(thread, turn.text)
              entry == [thread |-> thread, text |-> turn.text,
                        input |-> turn.input, state |-> "reserved"]
          IN \/ /\ \E k \in same : LookFor(k)
                /\ UNCHANGED <<entries, saved, events>>
             \/ /\ same = {}
                /\ Store(With(turn.key, entry))
                /\ IF Durable THEN turn' = [pc |-> "dispatch", key |-> turn.key]
                   ELSE EndTurn
      BY <1>4 DEF Reserve
  <2> DEFINE same == Undecided(thread, turn.text)
             entry == [thread |-> thread, text |-> turn.text,
                       input |-> turn.input, state |-> "reserved"]
  <2>3. CASE (\E k \in same : LookFor(k)) /\ UNCHANGED <<entries, saved, events>>
    <3>1. PICK k \in same : LookFor(k)
        BY <2>3
    <3>2. k \in DOMAIN entries
        BY DEF Undecided
    <3>3. turn'.pc = "receipt" /\ turn'.key \in DOMAIN entries
        BY <3>1, <3>2 DEF LookFor
    <3> QED
        BY <1>0, <1>1, <2>3, <3>3, StoreQuiet DEF StoreInv
  <2>4. CASE /\ same = {}
             /\ Store(With(turn.key, entry))
             /\ IF Durable THEN turn' = [pc |-> "dispatch", key |-> turn.key]
                ELSE EndTurn
    <3>1. thread \in Threads
        BY <1>0, <2>0 DEF Candidates, Reserving
    <3>2. entry \in EntryType /\ entry.state = "reserved" /\ entry.thread = thread
          /\ entry.text = turn.text
        BY <2>1, <3>1 DEF EntryType
    <3> DEFINE E == With(turn.key, entry)
    <3> HIDE DEF entry
    <3>3. turn.key \in Keys \ DOMAIN entries
        BY <2>0, <2>1
    <3>4. EntriesOK(E) /\ DOMAIN E = DOMAIN entries \cup {turn.key}
        BY <1>0, <2>4, <3>2, <3>3, EntryAdded
    <3>5. Store(E) /\ entries' = E
        BY <2>4 DEF Store
    <3> HIDE DEF E
    <3>6. sends[turn.key] = 0
        BY <1>0, <3>3 DEF StoreInv
    <3>7. \/ turn'.pc = "idle"
          \/ /\ turn'.pc = "dispatch" /\ sends[turn'.key] = 0
             /\ turn'.key \in DOMAIN E /\ saved' = E
      <4>1. CASE Durable
          BY <2>4, <3>4, <3>5, <3>6, <4>1 DEF Durable
      <4>2. CASE ~Durable
          BY <2>4, <4>2 DEF EndTurn, NoTurn
      <4> QED
          BY <4>1, <4>2
    <3> QED
        BY <1>0, <1>1, <3>4, <3>5, <3>7, Stored
  <2> QED
      BY <2>2, <2>3, <2>4
<1> QED
    BY <1>2, <1>3, <1>4 DEF HandleSpec

LEMMA ReceiptStore == ASSUME StoreInv, Receipt PROVE StoreInv'
<1>1. turn.pc = "receipt" /\ turn.key \in DOMAIN entries /\ UNCHANGED <<t3, inbox, sends>>
    BY DEF Receipt, StoreInv
<1>2. CASE /\ EndTurn /\ UNCHANGED <<entries, saved, reported, events>>
  <2>1. turn'.pc = "idle"
      BY <1>2 DEF EndTurn, NoTurn
  <2> QED
      BY <1>1, <1>2, <2>1, StoreQuiet DEF StoreInv
<1>3. CASE /\ turn.key \in t3.messages
           /\ Store([entries EXCEPT ![turn.key].state = "received"])
           /\ UNCHANGED <<turn, reported>>
  <2> DEFINE E == [entries EXCEPT ![turn.key].state = "received"]
  <2>1. EntriesOK(E) /\ DOMAIN E = DOMAIN entries
      BY <1>1, <1>3, EntryReceived DEF StoreInv
  <2>2. Store(E)
      BY <1>3
  <2> HIDE DEF E
  <2> QED
      BY <1>1, <1>3, <2>1, <2>2, Stored
<1>4. CASE /\ entries[turn.key].state = "received" /\ EndTurn
           /\ reported' = reported \cup {turn.key}
           /\ UNCHANGED <<entries, saved, events>>
  <2>1. turn'.pc = "idle"
      BY <1>4 DEF EndTurn, NoTurn
  <2>2. turn.key \in t3.messages
      BY <1>1, <1>4 DEF StoreInv, EntriesOK
  <2> QED
      BY <1>1, <1>4, <2>1, <2>2 DEF StoreInv, EntriesOK, Unique
<1> QED
    BY <1>2, <1>3, <1>4 DEF Receipt

LEMMA DispatchFacts ==
    ASSUME StoreInv, Dispatch
    PROVE  /\ turn.key \in Keys /\ turn.key \in DOMAIN saved /\ sends[turn.key] = 0
           /\ \/ UNCHANGED <<inbox, sends>>
              \/ /\ inbox' = inbox \cup {turn.key}
                 /\ sends' = [sends EXCEPT ![turn.key] = 1]
<1>1. turn.pc = "dispatch"
    BY DEF Dispatch
<1>2. turn.key \in Keys /\ turn.key \in DOMAIN saved /\ sends[turn.key] = 0
    BY <1>1 DEF StoreInv, EntriesOK
<1> QED
    BY <1>2 DEF Dispatch

LEMMA DispatchStore == ASSUME StoreInv, Dispatch PROVE StoreInv'
<1>1. turn.pc = "dispatch" /\ turn' = [pc |-> "receipt", key |-> turn.key]
      /\ UNCHANGED <<entries, saved, t3, reported, events>>
    BY DEF Dispatch, LookFor
<1>2. turn'.pc = "receipt" /\ turn'.key = turn.key /\ turn.key \in DOMAIN entries
    BY <1>1 DEF StoreInv
<1>3. CASE UNCHANGED <<inbox, sends>>
    BY <1>1, <1>2, <1>3, StoreQuiet DEF StoreInv
<1>4. CASE /\ inbox' = inbox \cup {turn.key}
           /\ sends' = [sends EXCEPT ![turn.key] = 1]
  <2>1. turn.key \in Keys /\ turn.key \in DOMAIN saved
      BY DispatchFacts
  <2>2. /\ sends' \in [Keys -> {0, 1}] /\ sends'[turn.key] = 1
        /\ \A k \in Keys : k # turn.key => sends'[k] = sends[k]
      BY <1>4, <2>1 DEF StoreInv
  <2>3. /\ \A k \in Keys : sends'[k] = 1 => k \in DOMAIN saved'
        /\ inbox' \cup t3'.messages \subseteq {k \in Keys : sends'[k] = 1}
      BY <1>1, <1>4, <2>1, <2>2 DEF StoreInv
  <2> QED
      BY <1>1, <1>2, <2>2, <2>3 DEF StoreInv, EntriesOK, Unique
<1> QED
    BY <1>3, <1>4, DispatchFacts

\* A text brings the file up to date; a crash brings memory back to the file.
LEMMA RestoredStore == ASSUME StoreInv, TakeText \/ Crash PROVE StoreInv'
<1>1. events' \in 0..MaxEvents /\ UNCHANGED <<t3, inbox, sends, reported>>
    BY Bounds DEF TakeText, Crash, Happens, StoreInv
<1>2. turn'.pc \in {"reserve", "idle"}
  <2>1. TakeText => \E x, y, z :
          turn' = [pc |-> "reserve", names |-> x, text |-> y, input |-> 1,
                   revision |-> 0, key |-> z]
      BY DEF TakeText
  <2>2. TakeText => turn'.pc = "reserve"
      BY <2>1
  <2> QED
      BY <2>2 DEF Crash, NoTurn
<1>3. (entries' = entries \/ entries' = saved) /\ saved' \in {entries, saved}
      /\ entries' = saved' /\ DOMAIN saved \subseteq DOMAIN saved'
    BY DEF TakeText, Crash, StoreInv
<1>4. EntriesOK(entries)' /\ EntriesOK(saved)'
    BY <1>1, <1>3 DEF EntriesOK, Unique, StoreInv
<1> QED
    BY <1>1, <1>2, <1>3, <1>4 DEF StoreInv

LEMMA T3Store == ASSUME StoreInv, T3Changes \/ T3Executes PROVE StoreInv'
<1>1. UNCHANGED <<turn, entries, saved, sends, reported>> /\ events' \in 0..MaxEvents
    BY Bounds DEF T3Changes, T3Executes, Happens, StoreInv
<1>2. CASE T3Changes
  <2>1. /\ t3' \in [alive : SUBSET Threads, asks : SUBSET Threads, messages : SUBSET Keys]
        /\ t3'.messages = t3.messages /\ inbox' = inbox
      BY <1>2 DEF T3Changes, StoreInv
  <2> QED
      BY <1>1, <2>1 DEF StoreInv, EntriesOK, Unique
<1>3. CASE T3Executes
  <2>1. PICK k \in inbox : /\ inbox' = inbox \ {k}
                           /\ t3' = [t3 EXCEPT !.messages = @ \cup {k}]
      BY <1>3 DEF T3Executes
  <2>2. k \in Keys /\ sends[k] = 1
      BY DEF StoreInv
  <2>3. /\ t3' \in [alive : SUBSET Threads, asks : SUBSET Threads, messages : SUBSET Keys]
        /\ t3'.messages = t3.messages \cup {k}
      BY <2>1, <2>2 DEF StoreInv
  <2>4. /\ inbox' \cup t3'.messages \subseteq {j \in Keys : sends'[j] = 1}
        /\ t3.messages \subseteq t3'.messages
      BY <1>1, <2>1, <2>2, <2>3 DEF StoreInv
  <2> QED
      BY <1>1, <2>3, <2>4 DEF StoreInv, EntriesOK, Unique
<1> QED
    BY <1>2, <1>3

LEMMA StoreStep == ASSUME IInv, Next PROVE StoreInv'
<1>0. StoreInv /\ events \in 0..MaxEvents
    BY DEF IInv, StoreInv
<1>1. CASE CallBegins \/ CallEnds \/ Speak
    BY <1>0, <1>1, StoreQuiet DEF CallBegins, CallEnds, Speak
<1>2. CASE TakeDelegation
  <2>1. turn'.pc = "route"
      BY <1>2 DEF TakeDelegation
  <2> QED
      BY <1>0, <1>2, <2>1, StoreQuiet DEF TakeDelegation
<1>3. CASE Route
  <2>1. turn' = NoTurn \/ \E x, y, z : Post(x, y, z)
      BY <1>3 DEF Route, Hangs, RouteIncomplete, RouteExplicit, Drop, AnswerQuestion, ReadBack,
                  LeaveTopic, AskThread, AskMessage, PostBound, Reply, Elsewhere
  <2>2. turn'.pc \in {"idle", "reserve"}
      BY <2>1 DEF NoTurn, Post
  <2> QED
      BY <1>0, <1>3, <2>2, StoreQuiet DEF Route
<1>4. CASE HandleSpec \/ Receipt
    BY <1>0, <1>4, ReserveStore, ReceiptStore
<1>5. CASE Dispatch \/ TakeText \/ Crash \/ T3Changes \/ T3Executes
    BY <1>0, <1>5, DispatchStore, RestoredStore, T3Store
<1> QED
    BY <1>1, <1>2, <1>3, <1>4, <1>5 DEF Next

-----------------------------------------------------------------------------
(* The theorems.                                                           *)

LEMMA Inductive == IInv /\ [Next]_vars => IInv'
<1>1. ASSUME IInv, UNCHANGED vars PROVE IInv'
    BY <1>1 DEF vars, IInv, VoiceInv, Calling, Slot, Refusing, Routed, Reserving, Current,
                StoreInv, EntriesOK, Unique
<1> QED
    BY <1>1, VoiceStep, StoreStep DEF IInv

LEMMA Invariance == Spec => []IInv
<1>1. Init => IInv
    BY VoiceInit, StoreInit DEF IInv
<1> QED
    BY <1>1, Inductive, PTL DEF Spec

\* The state has its shape.
THEOREM TypeCorrect == Spec => []TypeOK
<1>1. IInv => TypeOK
  <2> SUFFICES ASSUME IInv PROVE TypeOK
      OBVIOUS
  <2>1. /\ talk \in [call : 0..MaxCalls, on : BOOLEAN, revision : 0..MaxSpeech,
                     refused : 0..MaxSpeech]
        /\ transcript \in Seq(Seq(Utterances)) /\ talk.refused <= Current
      BY DEF IInv, VoiceInv, Calling, TalkType
  <2>2. /\ slot \in [binding : BindingType, floor : 0..MaxSpeech, attached : BOOLEAN]
        /\ slot.binding.awaits = "text" =>
             Cardinality(slot.binding.targets) = 1 /\ slot.binding.text = NoText
        /\ slot.binding.awaits = "target" => Cardinality(slot.binding.targets) # 1
      BY DEF IInv, VoiceInv, Slot, SlotType, Awaiting
  <2>3. /\ turn.pc \in {"idle", "route", "reserve", "dispatch", "receipt"}
        /\ turn.pc \in {"dispatch", "receipt"} => turn.key \in DOMAIN entries
        /\ DOMAIN saved \subseteq DOMAIN entries /\ DOMAIN entries \subseteq Keys
        /\ \A k \in DOMAIN entries : entries[k] \in EntryType
      BY DEF IInv, StoreInv, EntriesOK
  <2>4. /\ t3 \in [alive : SUBSET Threads, asks : SUBSET Threads, messages : SUBSET Keys]
        /\ inbox \cup reported \subseteq Keys /\ sends \in [Keys -> Nat]
        /\ events \in 0..MaxEvents
      BY DEF IInv, StoreInv
  <2> QED
      BY <2>1, <2>2, <2>3, <2>4 DEF TypeOK
<1> QED
    BY <1>1, Invariance, PTL

\* What may have been sent to a thread is not sent to it again, from whatever call, form or
\* restart the same words come (followups.py, the uncertain entry).
THEOREM OneMessageUndecided == Spec => []OneUndecided
<1>1. IInv => OneUndecided
    BY DEF IInv, StoreInv, EntriesOK, Unique, OneUndecided
<1> QED
    BY <1>1, Invariance, PTL

\* A message goes out only on the latest words of a call that is on, and its thread and its
\* text were said in that call since the last cancellation that a delegation brought
\* (service.py, contextual_followup and discard_followup_context).
THEOREM Authorised == Spec => SpokenAuthority
<1> DEFINE Granted ==
             \A k \in DOMAIN entries' \ DOMAIN entries : k.form # "text" =>
                 /\ talk.on /\ k.call = talk.call /\ k.turn = Current
                 /\ entries'[k].input = Len(transcript[Current])
                 /\ \E u \in SaidSince(talk.refused) : entries'[k].thread \in u.names
                 /\ \E u \in SaidSince(talk.refused) : entries'[k].text = u.text
<1>1. IInv /\ [Next]_vars => [Granted]_vars
  <2> SUFFICES ASSUME IInv, Next PROVE Granted
      OBVIOUS
  <2>1. CASE DOMAIN entries' \subseteq DOMAIN entries
      BY <2>1
  <2>2. CASE Reserve
    <3>1. /\ turn.pc = "reserve" /\ turn.text # NoText /\ turn.key \notin DOMAIN entries
          /\ ~Cancelled
        BY <2>2 DEF Reserve
    <3>2. PICK thread \in Candidates \ t3.asks :
            LET entry == [thread |-> thread, text |-> turn.text,
                          input |-> turn.input, state |-> "reserved"]
            IN entries' = entries \/ entries' = With(turn.key, entry)
        BY <2>2 DEF Reserve, Store
    <3> DEFINE entry == [thread |-> thread, text |-> turn.text,
                         input |-> turn.input, state |-> "reserved"]
    <3>3. SUFFICES ASSUME entries' = With(turn.key, entry), turn.key.form # "text"
                   PROVE  Granted
      <4>1. CASE entries' = entries
          BY <2>1, <4>1
      <4>2. CASE entries' = With(turn.key, entry)
        <5>1. DOMAIN entries' \ DOMAIN entries \subseteq {turn.key}
            BY <4>2 DEF With
        <5>2. CASE turn.key.form = "text"
            BY <5>1, <5>2
        <5> QED
            BY <3>3, <4>2, <5>2
      <4> QED
          BY <3>2, <4>1, <4>2
    <3>4. /\ DOMAIN entries' \ DOMAIN entries \subseteq {turn.key}
          /\ entries'[turn.key] = entry
        BY <3>3 DEF With
    <3>5. /\ entry.thread = thread /\ entry.text = turn.text /\ entry.input = turn.input
        OBVIOUS
    <3> HIDE DEF entry
    <3>6. talk.on /\ talk.revision = turn.revision
        BY <3>1, <3>3 DEF Cancelled
    <3>7. /\ turn.key.call = talk.call /\ turn.key.turn = Current
          /\ turn.input = Len(transcript[Current])
          /\ Named(turn.names, transcript, talk.refused)
          /\ Worded(turn.text, transcript, talk.refused)
        BY <3>1, <3>3, <3>6 DEF IInv, VoiceInv, Reserving
    <3>8. Said(transcript, talk.refused) = SaidSince(talk.refused)
        BY DEF Said, SaidSince, Current
    <3>9. /\ \E u \in SaidSince(talk.refused) : thread \in u.names
          /\ \E u \in SaidSince(talk.refused) : turn.text = u.text
        BY <3>1, <3>7, <3>8 DEF Named, Worded, Candidates
    <3> QED
        BY <3>4, <3>5, <3>6, <3>7, <3>9
  <2>3. CASE HandleSpec
      BY <2>1, <2>2, <2>3 DEF HandleSpec, Invalid, Known, Refused
  <2>4. CASE Receipt
    <3>1. entries' = entries \/ entries' = [entries EXCEPT ![turn.key].state = "received"]
        BY <2>4 DEF Receipt, Store
    <3> QED
        BY <2>1, <3>1
  <2>5. CASE Crash
      BY <2>1, <2>5 DEF Crash, IInv, StoreInv
  <2> QED
      BY <2>1, <2>3, <2>4, <2>5 DEF Next, CallBegins, CallEnds, Speak, TakeDelegation, Route,
                                    Dispatch, TakeText, T3Changes, T3Executes
<1> QED
    BY <1>1, Invariance, PTL DEF Spec, SpokenAuthority

-----------------------------------------------------------------------------
(* A message is a command that is sent once.                               *)

LEMMA OnceInit == Init => Once!Init
BY DEF Init, Once!Init

LEMMA OnceStep == IInv /\ Next => [Once!Next]_Once!vars
<1> SUFFICES ASSUME IInv, Next PROVE [Once!Next]_Once!vars
    OBVIOUS
<1>0. StoreInv /\ StoreInv'
    BY StoreStep DEF IInv
<1>1. ASSUME UNCHANGED <<saved, sends, reported>>, t3'.messages = t3.messages
      PROVE  [Once!Next]_Once!vars
    BY <1>1 DEF Once!vars
<1>2. ASSUME UNCHANGED <<t3, sends, reported>>, DOMAIN saved \subseteq DOMAIN saved'
      PROVE  Once!Next
  <2>1. DOMAIN saved' \subseteq Keys
      BY <1>0 DEF StoreInv, EntriesOK
  <2>2. /\ DOMAIN saved' \ DOMAIN saved \in SUBSET (Keys \ DOMAIN saved)
        /\ DOMAIN saved' = DOMAIN saved \cup (DOMAIN saved' \ DOMAIN saved)
      BY <1>2, <2>1
  <2>3. Once!Record
      BY <1>2, <2>2 DEF Once!Record
  <2> QED
      BY <2>3 DEF Once!Next
<1>3. CASE HandleSpec \/ TakeText
  <2>1. UNCHANGED <<t3, sends, reported>>
      BY <1>3 DEF HandleSpec, TakeText
  <2>2. DOMAIN saved \subseteq DOMAIN saved'
    <3>1. CASE TakeText
        BY <1>0, <3>1 DEF TakeText, StoreInv
    <3>2. CASE HandleSpec
      <4>1. CASE Invalid \/ Known \/ Refused
          BY <4>1 DEF Invalid, Known, Refused
      <4>2. CASE Reserve
        <5>1. \/ saved' = saved
              \/ \E x : saved' = With(turn.key, x)
            BY <4>2 DEF Reserve, Store
        <5>2. CASE \E x : saved' = With(turn.key, x)
          <6>1. PICK x : saved' = With(turn.key, x)
              BY <5>2
          <6>2. DOMAIN saved' = DOMAIN entries \cup {turn.key}
              BY <6>1 DEF With
          <6> QED
              BY <1>0, <6>2 DEF StoreInv
        <5> QED
            BY <5>1, <5>2
      <4> QED
          BY <3>2, <4>1, <4>2 DEF HandleSpec
    <3> QED
        BY <1>3, <3>1, <3>2
  <2> QED
      BY <1>2, <2>1, <2>2
<1>4. CASE Receipt
  <2>1. CASE UNCHANGED <<saved, reported>>
      BY <1>1, <1>4, <2>1 DEF Receipt
  <2>2. CASE UNCHANGED reported /\ DOMAIN saved' = DOMAIN entries
      BY <1>0, <1>2, <1>4, <2>2 DEF Receipt, StoreInv
  <2>3. CASE /\ entries[turn.key].state = "received"
             /\ reported' = reported \cup {turn.key} /\ UNCHANGED saved
    <3>1. turn.key \in t3.messages /\ turn.key \in Keys
        BY <1>0, <1>4, <2>3 DEF Receipt, StoreInv, EntriesOK
    <3>2. Once!Report(turn.key)
        BY <1>4, <2>3, <3>1 DEF Receipt, Once!Report
    <3> QED
        BY <3>1, <3>2 DEF Once!Next
  <2> QED
      BY <1>4, <2>1, <2>2, <2>3 DEF Receipt, Store
<1>5. CASE Dispatch
  <2>1. UNCHANGED <<saved, t3, reported>>
      BY <1>5 DEF Dispatch
  <2>2. CASE UNCHANGED sends
      BY <1>1, <2>1, <2>2
  <2>3. CASE sends' = [sends EXCEPT ![turn.key] = 1]
    <3>1. turn.key \in Keys /\ Once!Send(turn.key)
        BY <1>0, <1>5, <2>1, <2>3, DispatchFacts DEF Once!Send
    <3> QED
        BY <3>1 DEF Once!Next
  <2> QED
      BY <1>0, <1>5, <2>2, <2>3, DispatchFacts
<1>6. CASE T3Executes
  <2>1. PICK k \in inbox : t3' = [t3 EXCEPT !.messages = @ \cup {k}]
      BY <1>6 DEF T3Executes
  <2>2. k \in Keys /\ sends[k] = 1 /\ t3'.messages = t3.messages \cup {k}
      BY <1>0, <2>1 DEF StoreInv
  <2>3. Once!Execute(k)
      BY <1>6, <2>2 DEF T3Executes, Once!Execute
  <2> QED
      BY <2>2, <2>3 DEF Once!Next
<1>7. CASE T3Changes
  <2>1. t3'.messages = t3.messages
      BY <1>0, <1>7 DEF T3Changes, StoreInv
  <2> QED
      BY <1>1, <1>7, <2>1 DEF T3Changes
<1> QED
    BY <1>1, <1>3, <1>4, <1>5, <1>6, <1>7
       DEF Next, CallBegins, CallEnds, Speak, TakeDelegation, Route, Crash

\* Each message is in the file before it is sent, is sent at most once whatever fails, and is
\* reported as arrived only when T3 has it (followups.py, handle_spec and receipt).
THEOREM FollowupsSendOnce == Spec => CommandsOnce
<1>1. IInv /\ [Next]_vars => [Once!Next]_Once!vars
  <2>1. ASSUME UNCHANGED vars PROVE UNCHANGED Once!vars
      BY <2>1 DEF vars, Once!vars
  <2> QED
      BY <2>1, OnceStep
<1> QED
    BY <1>1, OnceInit, Invariance, PTL DEF Spec, CommandsOnce, Once!Spec
=============================================================================
