------------------------------- MODULE Followups -------------------------------
(***************************************************************************)
(* Messages to existing T3 threads: eotm's Followups (followups.py) with   *)
(* the part of VoiceConversation (service.py) that gathers a target and a  *)
(* text over several utterances of a call.  A delegation of the live voice *)
(* hands over the transcript of the moment it is taken up; the user goes   *)
(* on speaking, hangs up, or lengthens the utterance while it is worked    *)
(* on, and utterances that no delegation is made for are never looked at   *)
(* as the current one.  Every message is reserved in the durable store     *)
(* before it is dispatched and looked for in T3 afterwards.                *)
(***************************************************************************)
EXTENDS Naturals, Sequences, FiniteSets

CONSTANTS
    Threads,      \* T3 threads that a message may go to
    Texts,        \* message texts
    NoText,       \* no message text (None)
    Utterances,   \* what the user may say, as the regular expressions sort it
    BindingTurns, \* user turns a target stays bound (4 in service.py)
    MaxCalls,     \* bound: calls
    MaxSpeech,    \* bound: pieces of speech over all calls
    MaxEvents     \* bound: texts, changes of T3's threads, failed saves and crashes

Forms == {"explicit", "incomplete", "cancel", "topic", "send", "declare",
          "confirm", "plain", "question"}
UtteranceType == [form : Forms, names : SUBSET Threads, text : Texts \cup {NoText}]

\* The inventory of threads is a list, and an utterance that is a message itself, or
\* that says what it is, is not empty.
ASSUME ConstantsAssumption ==
    /\ NoText \notin Texts /\ IsFiniteSet(Threads)
    /\ Utterances \subseteq UtteranceType
    /\ \A u \in Utterances : u.form \in {"plain", "declare"} => u.text # NoText
    /\ {BindingTurns, MaxCalls, MaxSpeech, MaxEvents} \subseteq Nat

VARIABLES
    talk,       \* the call: its number, whether it is on, the transcript's revision;
                \* history: the last user turn that brought a cancellation
    transcript, \* per user turn: the readings it had as it grew
    slot,       \* VoiceConversation: followup_context, its floor, an attached question
    turn,       \* what the holder of the worker's lock is doing
    entries,    \* the follow-ups in memory, by event
    saved,      \* the follow-ups in conversations.json
    t3,         \* T3: threads that can be addressed, that ask, and messages received
    inbox,      \* commands on their way to T3
    sends,      \* history: how often each command was sent
    reported,   \* history: events whose message the user heard has arrived
    events      \* how many of MaxEvents have come

vars == <<talk, transcript, slot, turn, entries, saved, t3, inbox, sends, reported, events>>

Happens == events < MaxEvents /\ events' = events + 1

\* An event is a user turn of a call, in one of two forms, or a Telegram message.
Keys == [call : 1..MaxCalls, form : {"explicit", "context"}, turn : 1..MaxSpeech]
        \cup [call : {0}, form : {"text"}, turn : 1..MaxEvents]

NoBinding == [targets |-> {}, text |-> NoText, turn |-> 0, awaits |-> "none"]
NoTurn == [pc |-> "idle"]
Current == Len(transcript)
Reading(i) == transcript[i][Len(transcript[i])]
NoSlot == [binding |-> NoBinding, floor |-> 0, attached |-> FALSE]

\* The end of a call drops its VoiceConversation.
HangUp ==
    /\ talk' = [talk EXCEPT !.on = FALSE, !.refused = 0]
    /\ transcript' = <<>> /\ slot' = NoSlot

-----------------------------------------------------------------------------
(* The call and the user.                                                  *)

CallBegins ==
    /\ ~talk.on /\ turn = NoTurn /\ talk.call < MaxCalls
    /\ talk' = [talk EXCEPT !.call = @ + 1, !.on = TRUE]
    /\ \E attached \in BOOLEAN : slot' = [slot EXCEPT !.attached = attached]
    /\ UNCHANGED <<transcript, turn, entries, saved, t3, inbox, sends, reported, events>>

CallEnds ==
    /\ talk.on /\ HangUp
    /\ UNCHANGED <<turn, entries, saved, t3, inbox, sends, reported, events>>

\* What an utterance can turn into when more words follow within 1.5 seconds.  The threads
\* it names may be others then: a title has to stand alone, or to end at a word.
CanBecome(u, v) ==
    /\ v.form = "explicit" => u.form \in {"plain", "incomplete", "explicit"}
    /\ u.form = "incomplete" => v.form \in {"incomplete", "explicit"}
    /\ u.form = "explicit" => v.form = "explicit" /\ v.names = u.names

Speak ==
    /\ talk.on /\ talk.revision < MaxSpeech
    /\ talk' = [talk EXCEPT !.revision = @ + 1]
    /\ \E u \in Utterances :
         \/ transcript' = Append(transcript, <<u>>)
         \/ /\ transcript # <<>> /\ CanBecome(Reading(Current), u)
            /\ transcript' = [transcript EXCEPT ![Current] = Append(@, u)]
    /\ UNCHANGED <<slot, turn, entries, saved, t3, inbox, sends, reported, events>>

\* The delegate worker takes up a delegation: revision and transcript together.
TakeDelegation ==
    /\ talk.on /\ turn = NoTurn /\ transcript # <<>>
    /\ turn' = [pc |-> "route", at |-> Current, words |-> Reading(Current),
                version |-> Len(transcript[Current]), revision |-> talk.revision]
    /\ talk' = [talk EXCEPT !.refused = IF Reading(Current).form = "cancel" THEN Current ELSE @]
    /\ UNCHANGED <<transcript, slot, entries, saved, t3, inbox, sends, reported, events>>

-----------------------------------------------------------------------------
(* _respond and contextual_followup: what the utterance asks for.          *)

U == turn.words
Bound(b) == b.turn # 0
Addressed(u) == u.names \cap t3.alive

Expired == Bound(slot.binding) /\ turn.at - slot.binding.turn > BindingTurns
Live == IF Expired THEN NoBinding ELSE slot.binding
Floor == IF Expired THEN turn.at ELSE slot.floor

\* The answer to "which message?" is not searched for names.
Mentioned == IF Live.awaits = "text" THEN {} ELSE Addressed(U)

\* Earlier turns that may supply the target.
Earlier == {i \in (Floor + 1)..(turn.at - 1) :
              turn.at - i <= BindingTurns /\ Addressed(Reading(i)) # {}}
Latest(I) == CHOOSE i \in I : \A k \in I : k <= i

Rebound(targets, at) ==
    IF Live.awaits = "target" THEN [Live EXCEPT !.targets = targets, !.turn = at]
    ELSE [NoBinding EXCEPT !.targets = targets, !.turn = at]
Binding ==
    IF Mentioned # {} THEN Rebound(Mentioned, turn.at)
    ELSE IF ~Bound(Live) /\ Earlier # {}
         THEN Rebound(Addressed(Reading(Latest(Earlier))), Latest(Earlier))
         ELSE Live

AnswersText == Binding.awaits = "text" /\ U.form = "plain"
AnswersTarget == Binding.awaits = "target" /\ Mentioned # {}
Declares == U.form = "declare" /\ Bound(Binding)
Intends == \/ U.form = "send" \/ AnswersText \/ AnswersTarget
           \/ Declares /\ Live.awaits = "text"
Confirms == U.form = "confirm" /\ Bound(Binding)
\* A refusal, or another subject, comes before everything the words might ask for.
Dropped == U.form = "cancel" \/ (U.form = "topic" /\ Bound(Live))
Text == IF (U.form = "send" /\ U.text # NoText) \/ AnswersText \/ Declares
        THEN U.text ELSE Binding.text
Single == Cardinality(Binding.targets) = 1

Routing == turn.pc = "route" /\ talk.on
Contextual == Routing /\ U.form \notin {"explicit", "incomplete"}
Asking == Contextual /\ ~Dropped /\ (Intends \/ Confirms)

SetSlot(binding, floor, attached) ==
    slot' = [binding |-> binding, floor |-> floor, attached |-> attached]

\* Broken variant: the floor stays, so an older utterance is found again.
DiscardKeepingFloor(attached) == SetSlot(NoBinding, slot.floor, attached)

\* discard_followup_context: nothing said so far can supply a target again.
Discard(attached) == SetSlot(NoBinding, turn.at, attached)

Reply(binding) == SetSlot(binding, Floor, FALSE) /\ turn' = NoTurn

Post(names, text, form) ==
    turn' = [pc |-> "reserve", names |-> names, text |-> text,
             input |-> turn.version, revision |-> turn.revision,
             key |-> [call |-> talk.call, form |-> form, turn |-> turn.at]]

\* Not a follow-up: the attached question, or the coordinator, which may choose a
\* question, a saved proposal or a new task; these end the binding.
Elsewhere(binding, floor) ==
    /\ turn' = NoTurn
    /\ \/ SetSlot(binding, floor, slot.attached)
       \/ slot.attached /\ SetSlot(binding, floor, FALSE)
       \/ ~slot.attached /\ \E attached \in BOOLEAN : Discard(attached)

Hangs == /\ turn.pc = "route" /\ ~talk.on
         /\ turn' = NoTurn /\ UNCHANGED slot

RouteIncomplete ==
    /\ Routing /\ U.form = "incomplete"
    /\ SetSlot([targets |-> Addressed(U), text |-> NoText, turn |-> turn.at,
                awaits |-> IF Cardinality(Addressed(U)) = 1 THEN "text" ELSE "target"],
               slot.floor, FALSE)
    /\ turn' = NoTurn

\* Broken variant: an ambiguous title is taken for an address.
RouteExplicitAnyway ==
    /\ Routing /\ U.form = "explicit"
    /\ IF Cardinality(Addressed(U)) > 1
       THEN /\ SetSlot([targets |-> Addressed(U), text |-> U.text, turn |-> turn.at,
                        awaits |-> "text"], slot.floor, FALSE)
            /\ turn' = NoTurn
       ELSE Discard(FALSE) /\ Post(U.names, U.text, "explicit")

RouteExplicit ==
    /\ Routing /\ U.form = "explicit"
    /\ IF Cardinality(Addressed(U)) > 1
       THEN /\ SetSlot([targets |-> Addressed(U), text |-> U.text, turn |-> turn.at,
                        awaits |-> "target"], slot.floor, FALSE)
            /\ turn' = NoTurn
       ELSE Discard(FALSE) /\ Post(U.names, U.text, "explicit")

Drop ==
    /\ Contextual /\ Dropped
    /\ Elsewhere(NoBinding, turn.at)

\* With an attached question only the word "thread" leads here without an intent.
AnswerQuestion ==
    /\ Contextual /\ slot.attached /\ ~Bound(Live)
    /\ U.form \notin {"send", "cancel"}
    /\ Elsewhere(Live, Floor)

ReadBack ==
    /\ Contextual /\ Declares /\ ~Intends
    /\ Reply([Binding EXCEPT !.text = U.text, !.turn = turn.at])

LeaveTopic ==
    /\ Contextual /\ ~Dropped /\ ~Declares /\ ~Intends /\ ~Confirms
    /\ IF Bound(Binding) /\ Mentioned = {}
       THEN Elsewhere(NoBinding, turn.at) ELSE Elsewhere(Binding, Floor)

AskThread ==
    /\ Asking /\ ~Single
    /\ Reply([targets |-> Binding.targets, text |-> Text, turn |-> turn.at,
              awaits |-> "target"])

AskMessage ==
    /\ Asking /\ Single /\ Text = NoText
    /\ Reply([Binding EXCEPT !.awaits = "text", !.turn = turn.at])

PostBound ==
    /\ Asking /\ Single /\ Text # NoText
    /\ \E attached \in {slot.attached, FALSE} : Discard(attached)  \* kept by an error
    /\ Post(Binding.targets, Text, "context")

Route ==
    /\ \/ Hangs \/ RouteIncomplete \/ RouteExplicit \/ Drop \/ AnswerQuestion
       \/ ReadBack \/ LeaveTopic \/ AskThread \/ AskMessage \/ PostBound
    /\ UNCHANGED <<talk, transcript, entries, saved, t3, inbox, sends, reported, events>>

-----------------------------------------------------------------------------
(* handle_spec: reserve, dispatch, look for the message.                   *)

\* Broken variant: only the end of the call cancels.
CancelledByEnd == turn.key.form # "text" /\ ~talk.on

Cancelled ==
    /\ turn.key.form # "text"
    /\ ~talk.on \/ talk.revision # turn.revision

Candidates == turn.names \cap t3.alive
\* Broken variant: only the messages of the same call are looked at.
UndecidedOfCall(thread, text) ==
    {k \in DOMAIN entries : /\ entries[k].thread = thread /\ entries[k].text = text
                            /\ entries[k].state # "received" /\ k.call = turn.key.call}

Undecided(thread, text) ==
    {k \in DOMAIN entries : /\ entries[k].thread = thread /\ entries[k].text = text
                            /\ entries[k].state # "received"}

LookFor(key) == turn' = [pc |-> "receipt", key |-> key]
EndTurn == turn' = NoTurn

\* Broken variant: a failed save does not keep the message from being sent.
DurableAnyway == TRUE

Durable == saved' = entries'

With(key, entry) ==
    [k \in DOMAIN entries \cup {key} |-> IF k = key THEN entry ELSE entries[k]]

\* A save writes the whole store; when it fails the memory keeps what it has.
Store(new) ==
    /\ entries' = new
    /\ \/ saved' = new /\ UNCHANGED events
       \/ Happens /\ UNCHANGED saved

Known ==
    /\ turn.pc = "reserve" /\ turn.text # NoText /\ turn.key \in DOMAIN entries
    /\ IF entries[turn.key].input = turn.input THEN LookFor(turn.key) ELSE EndTurn
    /\ UNCHANGED <<entries, saved, events>>

\* handle_spec wants a message that is not blank.
Invalid ==
    /\ turn.pc = "reserve" /\ turn.text = NoText
    /\ EndTurn
    /\ UNCHANGED <<entries, saved, events>>

Refused ==
    /\ turn.pc = "reserve" /\ turn.text # NoText /\ turn.key \notin DOMAIN entries
    /\ Cardinality(Candidates) # 1 \/ Candidates \subseteq t3.asks \/ Cancelled
    /\ EndTurn
    /\ UNCHANGED <<entries, saved, events>>

Reserve ==
    /\ turn.pc = "reserve" /\ turn.text # NoText /\ turn.key \notin DOMAIN entries
    /\ Cardinality(Candidates) = 1 /\ ~Cancelled
    /\ \E thread \in Candidates \ t3.asks :
         LET same == Undecided(thread, turn.text)
             entry == [thread |-> thread, text |-> turn.text,
                       input |-> turn.input, state |-> "reserved"]
         IN \/ /\ \E k \in same : LookFor(k)
               /\ UNCHANGED <<entries, saved, events>>
            \/ /\ same = {}
               /\ Store(With(turn.key, entry))
               /\ IF Durable THEN turn' = [pc |-> "dispatch", key |-> turn.key]
                  ELSE EndTurn

\* With protocol 2 T3 is read again before the command is sent; errors go unheard.
Dispatch ==
    /\ turn.pc = "dispatch" /\ LookFor(turn.key)
    /\ \/ UNCHANGED <<inbox, sends>>
       \/ /\ entries[turn.key].thread \in t3.alive \ t3.asks
          /\ inbox' = inbox \cup {turn.key}
          /\ sends' = [sends EXCEPT ![turn.key] = @ + 1]
    /\ UNCHANGED <<talk, transcript, slot, entries, saved, t3, reported, events>>

\* A message that is found is saved as received, then the reply says so.
Receipt ==
    /\ turn.pc = "receipt"
    /\ \/ /\ entries[turn.key].state = "reserved" /\ EndTurn
          /\ UNCHANGED <<entries, saved, reported, events>>
       \/ /\ entries[turn.key].state = "reserved" /\ turn.key \in t3.messages
          /\ Store([entries EXCEPT ![turn.key].state = "received"])
          /\ UNCHANGED <<turn, reported>>
       \/ /\ entries[turn.key].state = "received" /\ EndTurn
          /\ reported' = reported \cup {turn.key}
          /\ UNCHANGED <<entries, saved, events>>
    /\ UNCHANGED <<talk, transcript, slot, t3, inbox, sends>>

HandleSpec ==
    /\ Invalid \/ Known \/ Refused \/ Reserve
    /\ UNCHANGED <<talk, transcript, slot, t3, inbox, sends, reported>>

\* A Telegram message ends a call; marking it as processing saves the store.
TakeText ==
    /\ turn = NoTurn /\ Happens
    /\ HangUp
    /\ saved' = entries
    /\ \E u \in Utterances :
         /\ u.form = "explicit"
         /\ turn' = [pc |-> "reserve", names |-> u.names, text |-> u.text, input |-> 1,
                     revision |-> 0,
                     key |-> [call |-> 0, form |-> "text", turn |-> events']]
    /\ UNCHANGED <<entries, t3, inbox, sends, reported>>

-----------------------------------------------------------------------------
(* T3 and the process.                                                     *)

T3Changes ==
    /\ Happens
    /\ \E t \in t3.alive :
         \/ t3' = [t3 EXCEPT !.alive = @ \ {t}]
         \/ t3' = [t3 EXCEPT !.asks = (@ \cup {t}) \ (@ \cap {t})]
    /\ UNCHANGED <<talk, transcript, slot, turn, entries, saved, inbox, sends, reported>>

\* A command that is lost stays in inbox for ever.
T3Executes ==
    /\ \E k \in inbox :
         /\ inbox' = inbox \ {k}
         /\ t3' = [t3 EXCEPT !.messages = @ \cup {k}]
    /\ UNCHANGED <<talk, transcript, slot, turn, entries, saved, sends, reported, events>>

Crash ==
    /\ Happens /\ HangUp
    /\ turn' = NoTurn /\ entries' = saved
    /\ UNCHANGED <<saved, t3, inbox, sends, reported>>

-----------------------------------------------------------------------------
Init ==
    /\ talk = [call |-> 0, on |-> FALSE, revision |-> 0, refused |-> 0]
    /\ transcript = <<>> /\ slot = NoSlot
    /\ turn = NoTurn
    /\ entries = <<>> /\ saved = <<>>
    /\ t3 = [alive |-> Threads, asks |-> {}, messages |-> {}]
    /\ inbox = {} /\ sends = [k \in Keys |-> 0] /\ reported = {}
    /\ events = 0

Next ==
    \/ CallBegins \/ CallEnds \/ Speak \/ TakeDelegation \/ Route
    \/ HandleSpec \/ Dispatch \/ Receipt \/ TakeText
    \/ T3Changes \/ T3Executes \/ Crash

Spec == Init /\ [][Next]_vars

-----------------------------------------------------------------------------
(* Properties.                                                             *)

EntryType == [thread : Threads, text : Texts, input : Nat, state : {"reserved", "received"}]
BindingType == [targets : SUBSET Threads, text : Texts \cup {NoText}, turn : Nat,
                awaits : {"none", "text", "target"}]

\* The state has its shape.  The voice waits for a message only when the thread is
\* settled and the message is not, and for a thread only when it is not settled.
TypeOK ==
    /\ talk \in [call : 0..MaxCalls, on : BOOLEAN, revision : 0..MaxSpeech,
                refused : 0..MaxSpeech]
    /\ transcript \in Seq(Seq(Utterances)) /\ talk.refused <= Current
    /\ slot \in [binding : BindingType, floor : 0..MaxSpeech, attached : BOOLEAN]
    /\ slot.binding.awaits = "text" =>
         Cardinality(slot.binding.targets) = 1 /\ slot.binding.text = NoText
    /\ slot.binding.awaits = "target" => Cardinality(slot.binding.targets) # 1
    /\ turn.pc \in {"idle", "route", "reserve", "dispatch", "receipt"}
    /\ turn.pc \in {"dispatch", "receipt"} => turn.key \in DOMAIN entries
    /\ DOMAIN saved \subseteq DOMAIN entries /\ DOMAIN entries \subseteq Keys
    /\ \A k \in DOMAIN entries : entries[k] \in EntryType
    /\ t3 \in [alive : SUBSET Threads, asks : SUBSET Threads, messages : SUBSET Keys]
    /\ inbox \cup reported \subseteq Keys /\ sends \in [Keys -> Nat]
    /\ events \in 0..MaxEvents

\* Of two reservations of the same text for the same thread at most one is
\* undecided, whatever call, form or restart they come from: what may have been sent
\* is not sent again in other words (followups.py, the uncertain entry).
OneUndecided ==
    \A j, k \in DOMAIN entries :
        /\ entries[j].thread = entries[k].thread /\ entries[j].text = entries[k].text
        /\ entries[j].state = "reserved" /\ entries[k].state = "reserved"
        => j = k

\* The utterances of the call since user turn i, in every reading.
SaidSince(i) == UNION {{transcript[j][v] : v \in DOMAIN transcript[j]} : j \in {k \in 1..Current : k >= i}}

\* A message is reserved on the latest words of a call that is on, and both its
\* thread and its text were said in that call, after the last cancellation that a
\* delegation brought (service.py, contextual_followup and discard_followup_context).
SpokenAuthority ==
    [][\A k \in DOMAIN entries' \ DOMAIN entries : k.form # "text" =>
         /\ talk.on /\ k.call = talk.call /\ k.turn = Current
         /\ entries'[k].input = Len(transcript[Current])
         /\ \E u \in SaidSince(talk.refused) : entries'[k].thread \in u.names
         /\ \E u \in SaidSince(talk.refused) : entries'[k].text = u.text]_vars

\* Each message is recorded before it is sent, sent at most once, and reported as
\* arrived only when T3 has it.
Once == INSTANCE CommandOnce WITH Commands <- Keys, recorded <- DOMAIN saved,
            sends <- sends, executed <- t3.messages, reported <- reported
CommandsOnce == Once!Spec
=============================================================================
