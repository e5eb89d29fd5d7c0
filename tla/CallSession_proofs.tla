-------------------------- MODULE CallSession_proofs --------------------------
(* Proofs about one Telegram call: its types, that its microphone is released,      *)
(* that its end is confirmed, and that signaling data reach the engine in order.    *)
EXTENDS CallSession, FiniteSetTheorems, SequenceTheorems, TLAPS

LEMMA Limits == /\ MaxUpdates \in Nat /\ MaxSignaling \in Nat /\ MaxSignals \in Nat
                /\ MaxForeign \in Nat /\ MaxWire \in Nat
                /\ StartTimeout \in Nat \ {0} /\ EndTimeout \in Nat \ {0}
  BY BoundsAssumption

-----------------------------------------------------------------------------
(* The parts of the inductive invariant.                                       *)

\* What a session buffers until it knows the id of its call.
UpdateType == [kind : {"call", "signal"}, call : {"own", "other"}, state : CallStates, data : Nat]

\* The fields of a session that agree with each other at every step.  A session that is
\* being ended is not live, one that does not know its call has given the engine nothing.
Consistent(s) ==
    /\ s.stopping => s.phase \in {"ending"} \cup Final
    /\ s.phase \in {"ending", "end_unconfirmed"} => s.stopping
    /\ s.phase = "idle" => ~s.call_known /\ s.outgoing
    /\ ~s.create_resolved => s.outgoing /\ ~s.call_known
    /\ s.call_known => s.pending_updates = <<>>
    /\ ~s.call_known => ~s.media_started /\ s.heard = <<>> /\ s.pending_signaling = <<>>
    /\ s.discard_sent <=> s.stopping /\ s.call_known

\* What becomes of the engine: told to stop when the session leaves the live phases.
Silenced(s) ==
    /\ s.phase \notin Live /\ s.media_started => s.media_stopped
    /\ s.media_stopped => s.media_started /\ s.cleanup # "none"
    /\ s.media_started => s.pending_signaling = <<>> /\ ~s.ringing

\* An event that says that the call is over is true of the call.
IsOver == server \in Over
Truthful(events) ==
    \A i \in 1..Len(events) :
       events[i].kind = "call" /\ events[i].call = "own" /\ events[i].state \in Over => IsOver

\* Telegram's side: nothing of this call before it starts, and no news that is not so.
Telling ==
    /\ session.phase \in {"ended", "failed"} => server \in Over \cup {"refused"}
    /\ Truthful(wire) /\ Truthful(replay) /\ Truthful(session.pending_updates)
    /\ \A i \in 1..Len(wire) :
          /\ wire[i].kind = "create_error" /\ session.outgoing => server = "refused"
          /\ wire[i].kind = "end_error" => session.discard_sent
    /\ owed => session.phase # "idle"

\* Before the call nothing was handled, and updates are re-read once the id is known.
Reading ==
    /\ session.phase = "idle" =>
          /\ replay = <<>> /\ received = <<>> /\ session.pending_updates = <<>>
          /\ server \in {"none", "pending"}
          /\ \A i \in 1..Len(wire) : wire[i].kind \in {"call", "signal"} /\ wire[i].call = "other"
    /\ replay # <<>> => session.call_known
    /\ replay \in Seq(UpdateType)

\* What the engine was or will be given of the signaling data.
Held(s) == s.heard \o s.pending_signaling

Begins(a, r) == Len(a) <= Len(r) /\ \A i \in 1..Len(a) : a[i] = r[i]

\* The order of the signaling data, of any session, events that wait and history.
Ordered(s, w, rec) ==
    IF s.phase \in Live
    THEN /\ Len(rec) = Len(Held(s)) + Cardinality(OwnSignals(w)) /\ Begins(Held(s), rec)
         /\ \A i \in OwnSignals(w) : w[i].data = rec[Len(Held(s)) + Place(w, i)]
    ELSE Begins(s.heard, rec)

Waiting == replay \o session.pending_updates

IInv ==
    /\ TypeOK /\ Consistent(session) /\ Silenced(session) /\ Telling /\ Reading
    /\ Ordered(session, Waiting, received)

-----------------------------------------------------------------------------
(* Sequences.                                                                  *)

LEMMA Joined ==
  ASSUME NEW a \in Seq(Nat), NEW b \in Seq(Nat)
  PROVE  /\ a \o b \in Seq(Nat) /\ Len(a \o b) = Len(a) + Len(b)
         /\ \A i \in 1..Len(a) : (a \o b)[i] = a[i]
         /\ \A i \in 1..Len(b) : (a \o b)[Len(a) + i] = b[i]
         /\ Begins(a, a \o b)
         /\ b = <<>> => a \o b = a
<1>1. Len(a) \in Nat /\ Len(b) \in Nat
  BY LenProperties
<1>2. /\ a \o b \in Seq(Nat) /\ Len(a \o b) = Len(a) + Len(b)
      /\ \A i \in 1 .. Len(a) + Len(b) : (a \o b)[i] = IF i <= Len(a) THEN a[i] ELSE b[i - Len(a)]
  BY ConcatProperties
<1>3. \A i \in 1..Len(a) : (a \o b)[i] = a[i]
  BY <1>1, <1>2
<1>4. \A i \in 1..Len(b) : (a \o b)[Len(a) + i] = b[i]
  <2> TAKE i \in 1..Len(b)
  <2>1. Len(a) + i \in 1..Len(a) + Len(b) /\ ~(Len(a) + i <= Len(a)) /\ (Len(a) + i) - Len(a) = i
    BY <1>1
  <2> QED BY <1>2, <2>1
<1>5. b = <<>> => a \o b = a
  BY ConcatEmptySeq
<1> QED BY <1>1, <1>2, <1>3, <1>4, <1>5 DEF Begins

\* A sequence is the first part of another one.
LEMMA BeginsIsSubSeq ==
  ASSUME NEW a \in Seq(Nat), NEW r \in Seq(Nat), Len(a) <= Len(r)
  PROVE  a = SubSeq(r, 1, Len(a)) <=> Begins(a, r)
<1> DEFINE n == Len(a)
<1> DEFINE c == SubSeq(r, 1, n)
<1>1. n \in Nat /\ Len(r) \in Nat /\ \A i \in 1..Len(r) : r[i] \in Nat
  BY LenProperties, ElementOfSeq
<1>2. \A i \in 1..n : r[i] \in Nat
  BY <1>1
<1>3. c \in Seq(Nat) /\ Len(c) = n /\ \A i \in 1..n : c[i] = r[i]
  <2>1. /\ c \in Seq(Nat) /\ Len(c) = IF 1 <= n THEN n - 1 + 1 ELSE 0
        /\ \A i \in 1..n-1+1 : c[i] = r[1+i-1]
    <3> HIDE DEF n
    <3> QED BY <1>1, <1>2, SubSeqProperties
  <2> HIDE DEF n, c
  <2>2. n - 1 + 1 = n
    BY <1>1
  <2>3. \A i \in 1..n : 1 + i - 1 = i
    BY <1>1
  <2> QED BY <1>1, <2>1, <2>2, <2>3
<1>4. Begins(a, r) => a = c
  <2> HIDE DEF c
  <2> QED BY <1>3, SeqEqual DEF Begins
<1> QED BY <1>1, <1>3, <1>4 DEF Begins

LEMMA JoinedAppend ==
  ASSUME NEW a \in Seq(Nat), NEW b \in Seq(Nat), NEW x \in Nat
  PROVE  a \o Append(b, x) = Append(a \o b, x)
<1>1. <<x>> \in Seq(Nat)
  OBVIOUS
<1>2. Append(b, x) = b \o <<x>>
  BY AppendIsConcat
<1>3. a \o b \in Seq(Nat)
  BY Joined
<1>4. Append(a \o b, x) = (a \o b) \o <<x>>
  BY <1>3, AppendIsConcat
<1>5. a \o (b \o <<x>>) = (a \o b) \o <<x>>
  BY <1>1, ConcatAssociative
<1> QED BY <1>2, <1>4, <1>5

LEMMA BeginsTransitive ==
  ASSUME NEW a \in Seq(Nat), NEW b \in Seq(Nat), NEW c \in Seq(Nat), Begins(a, b), Begins(b, c)
  PROVE  Begins(a, c)
<1>1. Len(a) \in Nat /\ Len(b) \in Nat /\ Len(c) \in Nat
  BY LenProperties
<1> QED BY <1>1 DEF Begins

-----------------------------------------------------------------------------
(* The operations of the session, as relations between what it was and what it  *)
(* becomes.                                                                     *)

\* What no operation on events changes.
Kept(s, t) == /\ t.ringing = s.ringing /\ t.outgoing = s.outgoing
              /\ t.call_known = s.call_known /\ t.create_resolved = s.create_resolved

\* The engine is stopped if it runs, and what waits for it is dropped.
Stopped(s, t) ==
    /\ t.pending_signaling = <<>> /\ t.media_started = s.media_started
    /\ IF s.media_started /\ ~s.media_stopped
       THEN t.media_stopped /\ t.cleanup \in {"confirmed", "unconfirmed"}
       ELSE t.media_stopped = s.media_stopped /\ t.cleanup = s.cleanup

LEMMA StopMediaResult ==
  ASSUME NEW s \in SessionType, NEW t \in StopMedia(s)
  PROVE  /\ t \in SessionType /\ Kept(s, t) /\ Stopped(s, t)
         /\ t.phase = s.phase /\ t.stopping = s.stopping /\ t.discard_sent = s.discard_sent
         /\ t.heard = s.heard /\ t.pending_updates = s.pending_updates
<1> DEFINE quiet == [s EXCEPT !.pending_signaling = <<>>]
<1>1. quiet \in SessionType
  BY EmptySeq DEF SessionType
<1>2. CASE s.media_started /\ ~s.media_stopped
  <2>1. PICK c \in {"confirmed", "unconfirmed"} :
             t = [quiet EXCEPT !.media_stopped = TRUE, !.cleanup = c]
    BY <1>2 DEF StopMedia
  <2>2. t \in SessionType
    BY <1>1, <2>1 DEF SessionType
  <2> QED BY <1>2, <2>1, <2>2 DEF SessionType, Kept, Stopped
<1>3. CASE ~(s.media_started /\ ~s.media_stopped)
  <2>1. t = quiet
    BY <1>3 DEF StopMedia
  <2> QED BY <1>1, <1>3, <2>1 DEF SessionType, Kept, Stopped
<1> QED BY <1>2, <1>3

\* A session that ends leaves everything else as it was.
Closing(s, t) ==
    /\ s.phase \notin {"idle", "ended", "failed"} /\ ~s.stopping
    /\ Kept(s, t) /\ Stopped(s, t)
    /\ t.phase = "ending" /\ t.stopping /\ t.discard_sent = (s.discard_sent \/ s.call_known)
    /\ t.heard = s.heard /\ t.pending_updates = s.pending_updates

LEMMA EndResult ==
  ASSUME NEW s \in SessionType, NEW t \in End(s)
  PROVE  /\ t \in SessionType
         /\ \/ t = s /\ (s.phase \in {"idle", "ended", "failed"} \/ s.stopping)
            \/ Closing(s, t)
<1>1. CASE s.phase \in {"idle", "ended", "failed"} \/ s.stopping
  BY <1>1 DEF End
<1>2. CASE ~(s.phase \in {"idle", "ended", "failed"} \/ s.stopping)
  <2> DEFINE u == [s EXCEPT !.stopping = TRUE, !.since_stop = 0, !.phase = "ending"]
  <2>1. u \in SessionType
    BY DEF SessionType, Phases
  <2>2. PICK v \in StopMedia(u) : t = Discard(v)
    BY <1>2 DEF End
  <2>3. /\ v \in SessionType /\ Kept(u, v) /\ Stopped(u, v)
        /\ v.phase = u.phase /\ v.stopping = u.stopping /\ v.discard_sent = u.discard_sent
        /\ v.heard = u.heard /\ v.pending_updates = u.pending_updates
    BY <2>1, <2>2, StopMediaResult
  <2>4. t = [v EXCEPT !.discard_sent = v.discard_sent \/ v.call_known]
    BY <2>2 DEF Discard
  <2>5. t \in SessionType
    BY <2>3, <2>4 DEF SessionType
  <2> HIDE DEF u
  <2>6. /\ u.phase = "ending" /\ u.stopping /\ u.discard_sent = s.discard_sent
        /\ Kept(s, u) /\ u.media_started = s.media_started /\ u.media_stopped = s.media_stopped
        /\ u.cleanup = s.cleanup /\ u.heard = s.heard /\ u.pending_updates = s.pending_updates
    BY DEF SessionType, Kept, u
  <2>7. /\ t.phase = v.phase /\ t.stopping = v.stopping /\ Kept(v, t) /\ Stopped(v, t)
        /\ t.media_stopped = v.media_stopped /\ t.cleanup = v.cleanup
        /\ t.heard = v.heard /\ t.pending_updates = v.pending_updates
        /\ t.discard_sent = (v.discard_sent \/ v.call_known)
    BY <2>3, <2>4 DEF SessionType, Kept, Stopped
  <2>8. Stopped(s, t)
    BY <2>3, <2>6, <2>7 DEF Stopped
  <2> QED BY <1>2, <2>3, <2>5, <2>6, <2>7, <2>8 DEF Closing, Kept
<1> QED BY <1>1, <1>2

LEMMA EndConsistent ==
  ASSUME NEW s \in SessionType, NEW t \in SessionType, Consistent(s), Silenced(s), Closing(s, t)
  PROVE  Consistent(t) /\ Silenced(t) /\ t.phase \notin Live
  BY DEF Consistent, Silenced, Closing, Kept, Stopped, Live, Final, SessionType

-----------------------------------------------------------------------------
(* What a session makes of an event.                                           *)

\* The ways in which what the engine has heard, and what waits for it, may change with an
\* event: not at all once the session is over; cut off when it ends; as before; one more.
Heeded(s, e, t) ==
    IF s.phase \notin Live
    THEN t.phase \notin Live /\ t.heard = s.heard
    ELSE \/ t.phase \notin Live /\ Begins(t.heard, Held(s))
         \/ /\ t.phase \in Live /\ s.call_known /\ e.kind = "signal" /\ e.call = "own"
            /\ Held(t) = Append(Held(s), e.data)
         \/ /\ t.phase \in Live /\ Held(t) = Held(s)
            /\ \/ ~(e.kind = "signal" /\ e.call = "own") /\ s.call_known
               \/ ~s.call_known /\ t.pending_updates = Append(s.pending_updates, e)

\* An event is handled: the session stays sound, what it awaits an answer of stays the same,
\* it is over only when it was or when the event says so.
Handled(s, e, t) ==
    /\ t \in SessionType /\ Consistent(t) /\ Silenced(t) /\ Kept(s, t)
    /\ s.discard_sent => t.discard_sent
    /\ t.phase = "idle" <=> s.phase = "idle"
    /\ s.phase = "idle" => t.pending_updates = s.pending_updates
    /\ t.phase \in {"ended", "failed"} =>
          \/ s.phase \in {"ended", "failed"}
          \/ e.kind = "call" /\ e.call = "own" /\ e.state \in Over
    /\ \/ t.pending_updates = s.pending_updates
       \/ ~s.call_known /\ t.pending_updates = Append(s.pending_updates, e)
    /\ Heeded(s, e, t)

LEMMA HeldIsSeq ==
  ASSUME NEW s \in SessionType
  PROVE  /\ s.heard \in Seq(Nat) /\ s.pending_signaling \in Seq(Nat) /\ Held(s) \in Seq(Nat)
         /\ Len(Held(s)) = Len(s.heard) + Len(s.pending_signaling)
         /\ Begins(s.heard, Held(s))
         /\ s.pending_signaling = <<>> => Held(s) = s.heard
<1>1. s.heard \in Seq(Nat) /\ s.pending_signaling \in Seq(Nat)
  BY DEF SessionType
<1> QED BY <1>1, Joined DEF Held

\* Ending a session that stood somewhere between s and its end.
LEMMA EndHandled ==
  ASSUME NEW s \in SessionType, Consistent(s), Silenced(s), NEW e,
         NEW t \in End(s)
  PROVE  /\ t \in SessionType /\ Consistent(t) /\ Silenced(t) /\ Kept(s, t)
         /\ s.discard_sent => t.discard_sent
         /\ t.phase = "idle" <=> s.phase = "idle"
         /\ s.phase = "idle" => t.pending_updates = s.pending_updates
         /\ t.phase \in {"ended", "failed"} => s.phase \in {"ended", "failed"}
         /\ t.pending_updates = s.pending_updates
         /\ t.heard = s.heard /\ t.phase \notin Live
         /\ Heeded(s, e, t)
<1>1. /\ t \in SessionType
      /\ \/ t = s /\ (s.phase \in {"idle", "ended", "failed"} \/ s.stopping)
         \/ Closing(s, t)
  BY EndResult
<1>2. Kept(s, s)
  BY DEF Kept
<1>3. t = s => t.phase \notin Live
  BY <1>1 DEF Consistent, Live, Final, Closing
<1>4. Closing(s, t) => /\ Consistent(t) /\ Silenced(t) /\ t.phase \notin Live /\ Kept(s, t)
                       /\ t.phase = "ending" /\ s.phase # "idle" /\ t.heard = s.heard
                       /\ t.pending_updates = s.pending_updates
                       /\ s.discard_sent => t.discard_sent
  BY <1>1, EndConsistent DEF Closing
<1>5. t.phase \notin Live /\ t.heard = s.heard
  BY <1>1, <1>3, <1>4
<1>6. Heeded(s, e, t)
  BY <1>5, HeldIsSeq DEF Heeded
<1> QED BY <1>1, <1>2, <1>4, <1>5, <1>6

\* The first k of the data that wait, given to the engine.
LEMMA FedBegins ==
  ASSUME NEW s \in SessionType, NEW k \in 0..Len(s.pending_signaling)
  PROVE  LET fed == s.heard \o SubSeq(s.pending_signaling, 1, k)
         IN  /\ fed \in Seq(Nat) /\ Begins(fed, Held(s))
             /\ k = Len(s.pending_signaling) => fed = Held(s)
<1> DEFINE h == s.heard
           p == s.pending_signaling
           q == SubSeq(p, 1, k)
<1>1. h \in Seq(Nat) /\ p \in Seq(Nat) /\ Len(h) \in Nat /\ Len(p) \in Nat /\ k \in Nat /\ k <= Len(p)
  <2>1. h \in Seq(Nat) /\ p \in Seq(Nat)
    BY HeldIsSeq
  <2> QED BY <2>1, LenProperties
<1>2. \A i \in 1..k : p[i] \in Nat
  <2>1. \A i \in 1..Len(p) : p[i] \in Nat
    BY <1>1, ElementOfSeq
  <2> QED BY <1>1, <2>1
<1>3. q \in Seq(Nat) /\ Len(q) = k /\ \A i \in 1..k : q[i] = p[i]
  <2> HIDE DEF p
  <2>1. /\ q \in Seq(Nat) /\ Len(q) = IF 1 <= k THEN k - 1 + 1 ELSE 0
        /\ \A i \in 1..k-1+1 : q[i] = p[1+i-1]
    BY <1>1, <1>2, SubSeqProperties
  <2> HIDE DEF q
  <2>2. k - 1 + 1 = k /\ \A i \in 1..k : 1 + i - 1 = i
    BY <1>1
  <2> QED BY <1>1, <2>1, <2>2
<1>4. k = Len(p) => q = p
  BY <1>1, SubSeqFull
<1> HIDE DEF h, p, q
<1>5. /\ h \o q \in Seq(Nat) /\ Len(h \o q) = Len(h) + k
      /\ \A i \in 1..Len(h) : (h \o q)[i] = h[i]
      /\ \A i \in 1..k : (h \o q)[Len(h) + i] = q[i]
  BY <1>1, <1>3, Joined
<1>6. /\ Len(h \o p) = Len(h) + Len(p)
      /\ \A i \in 1..Len(h) : (h \o p)[i] = h[i]
      /\ \A i \in 1..Len(p) : (h \o p)[Len(h) + i] = p[i]
  BY <1>1, Joined
<1>7. Begins(h \o q, h \o p)
  <2>1. Len(h \o q) <= Len(h \o p)
    BY <1>1, <1>5, <1>6
  <2>2. ASSUME NEW i \in 1..Len(h \o q) PROVE (h \o q)[i] = (h \o p)[i]
    <3>1. CASE i <= Len(h)
      BY <1>1, <1>5, <1>6, <3>1
    <3>2. CASE i > Len(h)
      <4>1. PICK j \in 1..k : i = Len(h) + j
        <5>1. i - Len(h) \in 1..k /\ i = Len(h) + (i - Len(h))
          BY <1>1, <1>5, <3>2
        <5> QED BY <5>1
      <4>2. j \in 1..Len(p)
        BY <1>1
      <4> QED BY <1>3, <1>5, <1>6, <4>1, <4>2
    <3> QED BY <1>1, <1>5, <3>1, <3>2
  <2> QED BY <2>1, <2>2 DEF Begins
<1> QED BY <1>4, <1>5, <1>7 DEF Held, h, p, q

LEMMA StartMediaHandled ==
  ASSUME NEW s \in SessionType, Consistent(s), Silenced(s),
         s.phase \in Live, s.call_known, ~s.media_started, ~s.ringing,
         NEW e \in UpdateType, e.kind = "call",
         NEW t \in StartMedia(s)
  PROVE  Handled(s, e, t)
<1> DEFINE n == Len(s.pending_signaling)
           fed(k) == s.heard \o SubSeq(s.pending_signaling, 1, k)
           up(k) == [s EXCEPT !.phase = "media_connecting", !.media_started = TRUE,
                              !.heard = fed(k), !.pending_signaling = <<>>]
<1>1. n \in Nat /\ n \in 0..n
  <2>1. s.pending_signaling \in Seq(Nat)
    BY HeldIsSeq
  <2> QED BY <2>1, LenProperties
<1>2. ~s.stopping /\ ~s.discard_sent /\ ~s.media_stopped
  BY DEF Consistent, Silenced, Live, Final
<1>3. ASSUME NEW k \in 0..n
      PROVE  /\ up(k) \in SessionType /\ Consistent(up(k)) /\ Silenced(up(k)) /\ Kept(s, up(k))
             /\ up(k).phase = "media_connecting" /\ up(k).pending_updates = s.pending_updates
             /\ up(k).heard = fed(k) /\ up(k).pending_signaling = <<>>
             /\ Begins(fed(k), Held(s)) /\ fed(k) \in Seq(Nat)
             /\ k = n => fed(k) = Held(s)
  <2>1. fed(k) \in Seq(Nat) /\ Begins(fed(k), Held(s)) /\ (k = n => fed(k) = Held(s))
    BY FedBegins
  <2> HIDE DEF fed
  <2>2. up(k) \in SessionType
    BY <2>1, EmptySeq DEF SessionType, Phases
  <2>3. /\ Kept(s, up(k)) /\ up(k).phase = "media_connecting" /\ up(k).media_started
        /\ up(k).heard = fed(k) /\ up(k).pending_signaling = <<>>
        /\ up(k).pending_updates = s.pending_updates /\ up(k).stopping = s.stopping
        /\ up(k).discard_sent = s.discard_sent /\ up(k).media_stopped = s.media_stopped
    BY DEF SessionType, Kept
  <2> HIDE DEF up
  <2>4. Consistent(up(k)) /\ Silenced(up(k))
    BY <1>2, <2>3 DEF Consistent, Silenced, Kept, Live, Final
  <2> QED BY <2>1, <2>2, <2>3, <2>4
<1> HIDE DEF fed, up
<1>4. \/ t = up(n)
      \/ \E k \in 0..n : t \in End(up(k))
  <2>1. StartMedia(s) = {up(n)} \cup UNION {End(up(k)) : k \in 0..n}
    BY DEF StartMedia, up, fed
  <2> HIDE DEF n
  <2> QED BY <2>1
<1> HIDE DEF n
<1>5. CASE t = up(n)
  <2>1. Held(t) = t.heard
    BY <1>1, <1>3, <1>5, HeldIsSeq
  <2>2. Heeded(s, e, t)
    BY <1>1, <1>3, <1>5, <2>1 DEF Heeded, Live, UpdateType
  <2> QED BY <1>1, <1>2, <1>3, <1>5, <2>2 DEF Handled, Live
<1>6. CASE \E k \in 0..n : t \in End(up(k))
  <2>1. PICK k \in 0..n : t \in End(up(k))
    BY <1>6
  <2>2. /\ t \in SessionType /\ Consistent(t) /\ Silenced(t) /\ Kept(up(k), t)
        /\ t.phase = "idle" <=> up(k).phase = "idle"
        /\ t.phase \in {"ended", "failed"} => up(k).phase \in {"ended", "failed"}
        /\ t.pending_updates = up(k).pending_updates
        /\ t.heard = up(k).heard /\ t.phase \notin Live
    BY <1>3, <2>1, EndHandled
  <2>3. Kept(s, t)
    BY <1>3, <2>2 DEF Kept
  <2>4. Heeded(s, e, t)
    BY <1>3, <2>2 DEF Heeded
  <2> QED BY <1>2, <1>3, <2>2, <2>3, <2>4 DEF Handled, Live
<1> QED BY <1>4, <1>5, <1>6

\* Nothing changes, and nothing was to be taken from the event.
LEMMA SameHandled ==
  ASSUME NEW s \in SessionType, Consistent(s), Silenced(s), NEW e \in UpdateType,
         s.phase \in Live /\ e.kind = "signal" /\ e.call = "own" => FALSE,
         s.phase \in Live => s.call_known
  PROVE  Handled(s, e, s)
  BY DEF Handled, Kept, Heeded

LEMMA BufferHandled ==
  ASSUME NEW s \in SessionType, Consistent(s), Silenced(s), NEW e \in UpdateType,
         ~s.call_known, s.phase # "idle", NEW t \in Buffer(s, e)
  PROVE  Handled(s, e, t)
<1>1. CASE Len(s.pending_updates) < MaxUpdates
  <2>1. t = [s EXCEPT !.pending_updates = Append(@, e)]
    BY <1>1 DEF Buffer
  <2>2. s.pending_updates \in Seq(UpdateType)
    BY DEF SessionType, UpdateType
  <2>3. Append(s.pending_updates, e) \in Seq(UpdateType)
    BY <2>2, AppendProperties
  <2>4. t \in SessionType
    BY <2>1, <2>3 DEF SessionType, UpdateType
  <2>5. /\ t.phase = s.phase /\ Kept(s, t) /\ t.heard = s.heard /\ t.discard_sent = s.discard_sent
        /\ t.pending_signaling = s.pending_signaling /\ t.stopping = s.stopping
        /\ t.media_started = s.media_started /\ t.media_stopped = s.media_stopped
        /\ t.cleanup = s.cleanup /\ t.pending_updates = Append(s.pending_updates, e)
    BY <2>1 DEF SessionType, Kept
  <2>6. Consistent(t) /\ Silenced(t)
    BY <2>5 DEF Consistent, Silenced, Kept
  <2>7. Heeded(s, e, t)
    BY <2>5 DEF Heeded, Held
  <2> QED BY <2>4, <2>5, <2>6, <2>7 DEF Handled
<1>2. CASE ~(Len(s.pending_updates) < MaxUpdates)
  <2>1. t \in End(s)
    BY <1>2 DEF Buffer
  <2> QED BY <2>1, EndHandled DEF Handled
<1> QED BY <1>1, <1>2

LEMMA HandleSignalHandled ==
  ASSUME NEW s \in SessionType, Consistent(s), Silenced(s), NEW e \in UpdateType, e.kind = "signal",
         NEW t \in HandleSignal(s, e)
  PROVE  Handled(s, e, t)
<1>1. CASE s.phase \in {"idle", "ended", "failed"} \/ s.stopping
  <2>1. t = s
    BY <1>1 DEF HandleSignal
  <2>2. s.phase \notin Live
    BY <1>1 DEF Consistent, Live, Final
  <2> QED BY <2>1, <2>2, SameHandled
<1>2. CASE ~(s.phase \in {"idle", "ended", "failed"} \/ s.stopping)
  <2>0. s.phase \in Live
    BY <1>2 DEF Consistent, Live, SessionType, Phases
  <2>1. CASE ~s.call_known
    <3>1. t \in Buffer(s, e)
      BY <1>2, <2>1 DEF HandleSignal
    <3> QED BY <1>2, <2>1, <3>1, BufferHandled
  <2>2. CASE s.call_known /\ e.call # "own"
    <3>1. t = s
      BY <1>2, <2>2 DEF HandleSignal
    <3> QED BY <2>2, <3>1, SameHandled
  <2>3. CASE s.call_known /\ e.call = "own" /\ s.media_started
    <3>1. t = [s EXCEPT !.heard = Append(@, e.data)] \/ t \in End(s)
      BY <1>2, <2>3 DEF HandleSignal
    <3>2. CASE t \in End(s)
      BY <3>2, EndHandled DEF Handled
    <3>3. CASE t = [s EXCEPT !.heard = Append(@, e.data)]
      <4>1. e.data \in Nat /\ s.heard \in Seq(Nat)
        BY HeldIsSeq DEF UpdateType
      <4>2. Append(s.heard, e.data) \in Seq(Nat)
        BY <4>1, AppendProperties
      <4>3. t \in SessionType
        BY <3>3, <4>2 DEF SessionType
      <4>4. /\ t.phase = s.phase /\ Kept(s, t) /\ t.heard = Append(s.heard, e.data)
            /\ t.discard_sent = s.discard_sent
            /\ t.pending_signaling = s.pending_signaling /\ t.stopping = s.stopping
            /\ t.media_started = s.media_started /\ t.media_stopped = s.media_stopped
            /\ t.cleanup = s.cleanup /\ t.pending_updates = s.pending_updates
        BY <3>3 DEF SessionType, Kept
      <4>5. s.pending_signaling = <<>> /\ t.pending_signaling = <<>>
        BY <2>3, <4>4 DEF Silenced
      <4>6. Held(t) = Append(Held(s), e.data)
        BY <4>3, <4>4, <4>5, HeldIsSeq
      <4>7. Consistent(t) /\ Silenced(t)
        BY <2>3, <4>4 DEF Consistent, Silenced, Kept
      <4>8. Heeded(s, e, t)
        BY <2>0, <2>3, <4>4, <4>6 DEF Heeded
      <4> QED BY <4>3, <4>4, <4>7, <4>8, <1>2 DEF Handled
    <3> QED BY <3>1, <3>2, <3>3
  <2>4. CASE s.call_known /\ e.call = "own" /\ ~s.media_started
    <3>1. CASE Len(s.pending_signaling) < MaxSignaling
      <4>0. t = [s EXCEPT !.pending_signaling = Append(@, e.data)]
        BY <1>2, <2>4, <3>1 DEF HandleSignal
      <4>1. e.data \in Nat /\ s.heard \in Seq(Nat) /\ s.pending_signaling \in Seq(Nat)
        BY HeldIsSeq DEF UpdateType
      <4>2. Append(s.pending_signaling, e.data) \in Seq(Nat)
        BY <4>1, AppendProperties
      <4>3. t \in SessionType
        BY <4>0, <4>2 DEF SessionType
      <4>4. /\ t.phase = s.phase /\ Kept(s, t) /\ t.heard = s.heard
            /\ t.discard_sent = s.discard_sent
            /\ t.pending_signaling = Append(s.pending_signaling, e.data) /\ t.stopping = s.stopping
            /\ t.media_started = s.media_started /\ t.media_stopped = s.media_stopped
            /\ t.cleanup = s.cleanup /\ t.pending_updates = s.pending_updates
        BY <4>0 DEF SessionType, Kept
      <4>6. Held(t) = Append(Held(s), e.data)
        BY <4>1, <4>4, JoinedAppend DEF Held
      <4>7. Consistent(t) /\ Silenced(t)
        BY <2>4, <4>4 DEF Consistent, Silenced, Kept
      <4>8. Heeded(s, e, t)
        BY <2>0, <2>4, <4>4, <4>6 DEF Heeded
      <4> QED BY <4>3, <4>4, <4>7, <4>8, <1>2 DEF Handled
    <3>2. CASE ~(Len(s.pending_signaling) < MaxSignaling)
      <4>1. t \in End(s)
        BY <1>2, <2>4, <3>2 DEF HandleSignal
      <4> QED BY <4>1, EndHandled DEF Handled
    <3> QED BY <3>1, <3>2
  <2> QED BY <2>1, <2>2, <2>3, <2>4
<1> QED BY <1>1, <1>2

LEMMA HandleStateHandled ==
  ASSUME NEW s \in SessionType, Consistent(s), Silenced(s), NEW e \in UpdateType,
         e.kind = "call", e.call = "own", s.call_known, s.phase # "idle",
         ~s.stopping, s.phase \notin {"ended", "failed"},
         s.ringing => ~Answered(e.state),
         NEW t \in HandleState(s, e.state)
  PROVE  Handled(s, e, t)
<1>1. s.phase \in Live /\ e.state \in CallStates
  BY DEF Consistent, Live, SessionType, Phases, UpdateType
<1>2. ASSUME NEW p \in {"dialing", "ringing", "exchanging_keys"}, t = [s EXCEPT !.phase = p]
      PROVE  Handled(s, e, t)
  <2>1. t \in SessionType
    BY <1>2 DEF SessionType, Phases
  <2>2. /\ t.phase = p /\ Kept(s, t) /\ t.heard = s.heard
        /\ t.discard_sent = s.discard_sent
        /\ t.pending_signaling = s.pending_signaling /\ t.stopping = s.stopping
        /\ t.media_started = s.media_started /\ t.media_stopped = s.media_stopped
        /\ t.cleanup = s.cleanup /\ t.pending_updates = s.pending_updates
    BY <1>2 DEF SessionType, Kept
  <2>3. Consistent(t) /\ Silenced(t)
    BY <2>2 DEF Consistent, Silenced, Kept, Live
  <2>4. Heeded(s, e, t)
    BY <1>1, <2>2 DEF Heeded, Held, Live
  <2> QED BY <1>1, <2>1, <2>2, <2>3, <2>4 DEF Handled
<1>3. CASE e.state = "pending"
  BY <1>2, <1>3 DEF HandleState
<1>4. CASE e.state = "received"
  BY <1>2, <1>4 DEF HandleState
<1>5. CASE e.state = "exchanging"
  BY <1>2, <1>5 DEF HandleState
<1>6. CASE e.state = "ready"
  <2>1. CASE s.media_started
    <3>1. t = s
      BY <1>6, <2>1 DEF HandleState
    <3> QED BY <3>1, SameHandled
  <2>2. CASE ~s.media_started
    <3>1. t \in StartMedia(s)
      BY <1>6, <2>2 DEF HandleState
    <3>2. ~s.ringing
      BY <1>6 DEF Answered
    <3> QED BY <1>1, <2>2, <3>1, <3>2, StartMediaHandled
  <2> QED BY <2>1, <2>2
<1>7. CASE e.state = "hanging"
  <2>1. t \in End(s)
    BY <1>7 DEF HandleState
  <2> QED BY <2>1, EndHandled DEF Handled
<1>8. CASE e.state \in Over
  <2>1. t = s
    BY <1>8 DEF HandleState, Over
  <2> QED BY <2>1, SameHandled
<1> QED BY <1>1, <1>3, <1>4, <1>5, <1>6, <1>7, <1>8 DEF CallStates, Over

LEMMA HandleCallHandled ==
  ASSUME NEW s \in SessionType, Consistent(s), Silenced(s), NEW e \in UpdateType, e.kind = "call",
         s.ringing => \/ ~Answered(e.state) \/ ~s.call_known \/ e.call # "own"
                      \/ s.stopping \/ s.phase \in {"ended", "failed"},
         NEW t \in HandleCall(s, e)
  PROVE  Handled(s, e, t)
<1>1. CASE s.phase = "idle"
  <2>1. t = s
    BY <1>1 DEF HandleCall
  <2> QED BY <1>1, <2>1, SameHandled DEF Live
<1>2. CASE s.phase # "idle" /\ ~s.call_known
  <2>1. t \in Buffer(s, e)
    BY <1>2 DEF HandleCall
  <2> QED BY <1>2, <2>1, BufferHandled
<1>3. CASE s.phase # "idle" /\ s.call_known /\ e.call # "own"
  <2>1. t = s
    BY <1>3 DEF HandleCall
  <2> QED BY <1>3, <2>1, SameHandled
<1>4. CASE s.phase # "idle" /\ s.call_known /\ e.call = "own"
  <2>1. CASE e.state \in Over
    <3>1. PICK u \in StopMedia(s) :
                  t = [u EXCEPT !.phase = IF e.state = "discarded" THEN "ended" ELSE "failed"]
      BY <1>4, <2>1 DEF HandleCall
    <3>2. /\ u \in SessionType /\ Kept(s, u) /\ Stopped(s, u)
          /\ u.phase = s.phase /\ u.stopping = s.stopping /\ u.discard_sent = s.discard_sent
          /\ u.heard = s.heard /\ u.pending_updates = s.pending_updates
      BY StopMediaResult
    <3>3. /\ t \in SessionType /\ t.phase \in {"ended", "failed"}
          /\ Kept(u, t) /\ t.stopping = u.stopping /\ t.discard_sent = u.discard_sent
          /\ t.heard = u.heard /\ t.pending_updates = u.pending_updates
          /\ t.pending_signaling = u.pending_signaling
          /\ t.media_started = u.media_started /\ t.media_stopped = u.media_stopped
          /\ t.cleanup = u.cleanup
      BY <3>1, <3>2 DEF SessionType, Phases, Kept
    <3>4. Kept(s, t) /\ Stopped(s, t)
      BY <3>2, <3>3 DEF Kept, Stopped
    <3>5. Consistent(t)
      BY <1>4, <3>2, <3>3, <3>4 DEF Consistent, Kept, Stopped, Final
    <3>6. Silenced(t)
      BY <3>3, <3>4 DEF Silenced, Kept, Stopped
    <3>7. Heeded(s, e, t)
      BY <3>2, <3>3, HeldIsSeq DEF Heeded, Live
    <3> QED BY <1>4, <2>1, <3>2, <3>3, <3>4, <3>5, <3>6, <3>7 DEF Handled
  <2>2. CASE e.state \notin Over /\ (s.stopping \/ s.phase \in {"ended", "failed"})
    <3>1. t = s
      BY <1>4, <2>2 DEF HandleCall
    <3> QED BY <1>4, <3>1, SameHandled
  <2>3. CASE e.state \notin Over /\ ~(s.stopping \/ s.phase \in {"ended", "failed"})
    <3>1. t \in HandleState(s, e.state)
      BY <1>4, <2>3 DEF HandleCall
    <3> QED BY <1>4, <2>3, <3>1, HandleStateHandled
  <2> QED BY <2>1, <2>2, <2>3
<1> QED BY <1>1, <1>2, <1>3, <1>4

\* What an event of a call may do to the session, ringing or not.
LEMMA HandleHandled ==
  ASSUME NEW s \in SessionType, Consistent(s), Silenced(s), NEW e \in UpdateType,
         NEW t \in Handle(s, e)
  PROVE  Handled(s, e, t)
<1>0. e.kind \in {"call", "signal"}
  BY DEF UpdateType
<1>1. CASE ~s.ringing
  <2>1. t \in HandleAny(s, e)
    BY <1>1 DEF Handle
  <2>2. CASE e.kind = "signal"
    BY <2>1, <2>2, HandleSignalHandled DEF HandleAny
  <2>3. CASE e.kind = "call"
    BY <1>1, <2>1, <2>3, HandleCallHandled DEF HandleAny
  <2> QED BY <1>0, <2>2, <2>3
<1>2. CASE s.ringing
  <2> DEFINE mine == /\ e.kind = "call" /\ s.call_known /\ e.call = "own"
                     /\ ~s.stopping /\ s.phase \notin {"ended", "failed"}
  <2>1. PICK r \in SUBSET {"delivered", "answered"} :
             LET u == [s EXCEPT !.reported = r]
             IN  IF mine /\ Answered(e.state) THEN t \in End(u) ELSE t \in HandleAny(u, e)
    <3>1. s.reported \in SUBSET {"delivered", "answered"}
      BY DEF SessionType
    <3>2. CASE mine /\ Answered(e.state)
      <4> DEFINE r == s.reported \cup {"answered"}
      <4>1. t \in End([s EXCEPT !.reported = r]) /\ r \in SUBSET {"delivered", "answered"}
        BY <1>2, <3>1, <3>2 DEF Handle, HandleRinging
      <4> QED BY <3>2, <4>1
    <3>3. CASE ~(mine /\ Answered(e.state))
      <4> DEFINE r == s.reported \cup (IF mine /\ e.state = "received" THEN {"delivered"} ELSE {})
      <4>1. t \in HandleAny([s EXCEPT !.reported = r], e) /\ r \in SUBSET {"delivered", "answered"}
        BY <1>2, <3>1, <3>3 DEF Handle, HandleRinging
      <4> QED BY <3>3, <4>1
    <3> QED BY <3>2, <3>3
  <2> DEFINE u == [s EXCEPT !.reported = r]
  <2>2. /\ u \in SessionType /\ Kept(s, u) /\ u.phase = s.phase /\ u.stopping = s.stopping
        /\ u.discard_sent = s.discard_sent /\ u.heard = s.heard
        /\ u.pending_updates = s.pending_updates /\ u.pending_signaling = s.pending_signaling
        /\ u.media_started = s.media_started /\ u.media_stopped = s.media_stopped
        /\ u.cleanup = s.cleanup
    BY DEF SessionType, Kept
  <2>3. IF mine /\ Answered(e.state) THEN t \in End(u) ELSE t \in HandleAny(u, e)
    BY <2>1
  <2> HIDE DEF u
  <2>4. Consistent(u) /\ Silenced(u) /\ Held(u) = Held(s)
    BY <2>2 DEF Consistent, Silenced, Kept, Held
  <2>5. Handled(u, e, t)
    <3>1. CASE mine /\ Answered(e.state)
      BY <2>2, <2>3, <2>4, <3>1, EndHandled DEF Handled
    <3>2. CASE ~(mine /\ Answered(e.state)) /\ e.kind = "signal"
      BY <2>2, <2>3, <2>4, <3>2, HandleSignalHandled DEF HandleAny
    <3>3. CASE ~(mine /\ Answered(e.state)) /\ e.kind = "call"
      BY <2>2, <2>3, <2>4, <3>3, HandleCallHandled DEF HandleAny, Kept
    <3> QED BY <1>0, <3>1, <3>2, <3>3
  <2> QED BY <2>2, <2>4, <2>5 DEF Handled, Heeded, Kept
<1> QED BY <1>1, <1>2

-----------------------------------------------------------------------------
(* Counting the signaling data among the events that wait.                     *)

Own(e) == e.kind = "signal" /\ e.call = "own"

LEMMA OwnAreFinite ==
  ASSUME NEW w \in Seq(UpdateType)
  PROVE  /\ IsFiniteSet(OwnSignals(w)) /\ Cardinality(OwnSignals(w)) \in Nat
         /\ \A i \in Nat : /\ IsFiniteSet({j \in OwnSignals(w) : j <= i})
                           /\ Place(w, i) \in Nat /\ Place(w, i) <= Cardinality(OwnSignals(w))
         /\ \A i \in OwnSignals(w) : Place(w, i) >= 1
<1>1. Len(w) \in Nat
  BY LenProperties
<1>2. IsFiniteSet(1..Len(w))
  BY <1>1, FS_Interval
<1>3. IsFiniteSet(OwnSignals(w))
  <2>1. OwnSignals(w) \in SUBSET (1..Len(w))
    BY DEF OwnSignals
  <2> QED BY <1>2, <2>1, FS_Subset
<1>4. ASSUME NEW i \in Nat
      PROVE  /\ IsFiniteSet({j \in OwnSignals(w) : j <= i})
             /\ Place(w, i) \in Nat /\ Place(w, i) <= Cardinality(OwnSignals(w))
  <2>1. {j \in OwnSignals(w) : j <= i} \in SUBSET OwnSignals(w)
    OBVIOUS
  <2> QED BY <1>3, <2>1, FS_Subset, FS_CardinalityType DEF Place
<1>5. ASSUME NEW i \in OwnSignals(w) PROVE Place(w, i) >= 1
  <2>1. i \in Nat /\ i \in {j \in OwnSignals(w) : j <= i}
    BY <1>1 DEF OwnSignals
  <2>2. IsFiniteSet({j \in OwnSignals(w) : j <= i}) /\ Place(w, i) \in Nat
    BY <1>4, <2>1
  <2>3. Place(w, i) # 0
    BY <2>1, <2>2, FS_EmptySet DEF Place
  <2> QED BY <2>2, <2>3
<1>6. Cardinality(OwnSignals(w)) \in Nat
  BY <1>3, FS_CardinalityType
<1> QED BY <1>3, <1>4, <1>5, <1>6

LEMMA OwnOfEmpty == OwnSignals(<<>>) = {} /\ Cardinality(OwnSignals(<<>>)) = 0
<1>1. OwnSignals(<<>>) = {}
  BY DEF OwnSignals
<1> QED BY <1>1, FS_EmptySet

\* An event that comes last is counted last.
LEMMA OwnOfAppend ==
  ASSUME NEW w \in Seq(UpdateType), NEW e \in UpdateType
  PROVE  LET v == Append(w, e)
         IN  /\ Cardinality(OwnSignals(v)) = Cardinality(OwnSignals(w)) + (IF Own(e) THEN 1 ELSE 0)
             /\ \A i \in OwnSignals(v) :
                   IF i = Len(w) + 1
                   THEN Own(e) /\ v[i] = e /\ Place(v, i) = Cardinality(OwnSignals(w)) + 1
                   ELSE i \in OwnSignals(w) /\ v[i] = w[i] /\ Place(v, i) = Place(w, i)
<1> DEFINE v == Append(w, e)
           n == Len(w)
<1>1. /\ n \in Nat /\ Len(v) = n + 1 /\ v[n + 1] = e
      /\ \A i \in 1..n : v[i] = w[i]
  BY LenProperties, AppendProperties
<1>2. IsFiniteSet(OwnSignals(w)) /\ Cardinality(OwnSignals(w)) \in Nat
  BY OwnAreFinite
<1> HIDE DEF v, n
<1>3. OwnSignals(w) = {i \in 1..n : w[i].kind = "signal" /\ w[i].call = "own"}
  BY DEF OwnSignals, n
<1>4. OwnSignals(v) = {i \in 1..n+1 : v[i].kind = "signal" /\ v[i].call = "own"}
  BY <1>1 DEF OwnSignals
<1>5. OwnSignals(v) = OwnSignals(w) \cup (IF Own(e) THEN {n + 1} ELSE {})
  <2>1. 1..n+1 = (1..n) \cup {n + 1}
    BY <1>1
  <2> QED BY <1>1, <1>3, <1>4, <2>1 DEF Own
<1>6. n + 1 \notin OwnSignals(w)
  BY <1>1, <1>3
<1>7. Cardinality(OwnSignals(v)) = Cardinality(OwnSignals(w)) + (IF Own(e) THEN 1 ELSE 0)
  <2>1. CASE Own(e)
    BY <1>2, <1>5, <1>6, <2>1, FS_AddElement
  <2>2. CASE ~Own(e)
    BY <1>2, <1>5, <2>2
  <2> QED BY <2>1, <2>2
<1>8. ASSUME NEW i \in OwnSignals(v), i = n + 1
      PROVE  Own(e) /\ v[i] = e /\ Place(v, i) = Cardinality(OwnSignals(w)) + 1
  <2>1. Own(e)
    BY <1>5, <1>6, <1>8
  <2>2. {j \in OwnSignals(v) : j <= i} = OwnSignals(v)
    BY <1>1, <1>4, <1>8
  <2> QED BY <1>1, <1>7, <1>8, <2>1, <2>2 DEF Place
<1>9. ASSUME NEW i \in OwnSignals(v), i # n + 1
      PROVE  i \in OwnSignals(w) /\ v[i] = w[i] /\ Place(v, i) = Place(w, i)
  <2>1. i \in OwnSignals(w) /\ i \in 1..n
    BY <1>3, <1>5, <1>9
  <2>2. {j \in OwnSignals(v) : j <= i} = {j \in OwnSignals(w) : j <= i}
    BY <1>1, <1>5, <2>1
  <2> QED BY <1>1, <2>1, <2>2 DEF Place
<1> QED BY <1>7, <1>8, <1>9 DEF v, n

\* When the first event is taken the others move up by one.
LEMMA OwnOfTail ==
  ASSUME NEW w \in Seq(UpdateType), w # <<>>
  PROVE  LET one == IF Own(Head(w)) THEN 1 ELSE 0
         IN  /\ Cardinality(OwnSignals(w)) = Cardinality(OwnSignals(Tail(w))) + one
             /\ Own(Head(w)) => 1 \in OwnSignals(w) /\ Place(w, 1) = 1 /\ w[1] = Head(w)
             /\ \A i \in OwnSignals(Tail(w)) :
                   i + 1 \in OwnSignals(w) /\ Tail(w)[i] = w[i + 1]
                   /\ Place(w, i + 1) = Place(Tail(w), i) + one
<1> DEFINE v == Tail(w)
           one == IF Own(Head(w)) THEN 1 ELSE 0
<1>1. /\ Len(w) \in Nat /\ Len(v) = Len(w) - 1 /\ v \in Seq(UpdateType) /\ Len(v) \in Nat
      /\ \A i \in 1..Len(v) : v[i] = w[i + 1]
      /\ w[1] = Head(w)
  BY LenProperties, HeadTailProperties
<1>2. /\ IsFiniteSet(OwnSignals(w)) /\ IsFiniteSet(OwnSignals(v))
      /\ \A i \in Nat : IsFiniteSet({j \in OwnSignals(v) : j <= i})
  BY <1>1, OwnAreFinite
<1> HIDE DEF v
<1>3. \A i \in OwnSignals(v) : i \in 1..Len(v) /\ i + 1 \in OwnSignals(w) /\ v[i] = w[i + 1]
  BY <1>1 DEF OwnSignals
<1>4. \A i \in OwnSignals(w) : i \in 1..Len(w) /\ (i # 1 => i - 1 \in OwnSignals(v))
  <2> TAKE i \in OwnSignals(w)
  <2>1. i \in 1..Len(w) /\ Own(w[i])
    BY DEF OwnSignals, Own
  <2>2. ASSUME i # 1 PROVE i - 1 \in OwnSignals(v)
    <3>1. i - 1 \in 1..Len(v) /\ (i - 1) + 1 = i
      BY <1>1, <2>1, <2>2
    <3>2. v[i - 1] = w[i]
      BY <1>1, <3>1
    <3> QED BY <2>1, <3>1, <3>2 DEF OwnSignals, Own
  <2> QED BY <2>1, <2>2
<1>5. 1 \in OwnSignals(w) <=> Own(Head(w))
  <2>1. Len(w) >= 1
    BY <1>1, EmptySeq, SeqEqual
  <2> QED BY <1>1, <2>1 DEF OwnSignals, Own
\* Up to any place, the data among the rest are those of the whole but for the first.
<1>6. ASSUME NEW i \in Nat
      PROVE  Cardinality({j \in OwnSignals(w) : j <= i + 1})
                = Cardinality({j \in OwnSignals(v) : j <= i}) + one
  <2> DEFINE A == {j \in OwnSignals(v) : j <= i}
             B == {j \in OwnSignals(w) : j <= i + 1}
             f == [j \in A |-> j + 1]
  <2>1. IsFiniteSet(A) /\ Cardinality(A) \in Nat
    BY <1>2, FS_CardinalityType
  <2>2. f \in Bijection(A, B \ {1})
    <3>1. ASSUME NEW j \in A PROVE f[j] \in B \ {1}
      BY <1>1, <1>3
    <3>2. ASSUME NEW j \in A, NEW k \in A, f[j] = f[k] PROVE j = k
      BY <1>1, <1>3, <3>2
    <3>3. ASSUME NEW k \in B \ {1} PROVE \E j \in A : f[j] = k
      <4>1. k - 1 \in A /\ (k - 1) + 1 = k
        BY <1>1, <1>4
      <4> QED BY <4>1
    <3>4. f \in [A -> B \ {1}]
      BY <3>1
    <3> HIDE DEF f, A, B
    <3> QED BY <3>2, <3>3, <3>4 DEF Bijection, Injection, Surjection, IsInjective
  <2>3. ExistsBijection(A, B \ {1})
    BY <2>2 DEF ExistsBijection
  <2>4. IsFiniteSet(B \ {1}) /\ Cardinality(B \ {1}) = Cardinality(A)
    <3> HIDE DEF A, B
    <3> QED BY <2>1, <2>3, FS_Bijection
  <2>5. 1 \in B <=> Own(Head(w))
    BY <1>5
  <2> HIDE DEF A, B
  <2>6. CASE Own(Head(w))
    <3>1. B = (B \ {1}) \cup {1}
      BY <2>5, <2>6
    <3>2. Cardinality((B \ {1}) \cup {1}) = Cardinality(B \ {1}) + 1
      BY <2>4, FS_AddElement
    <3> QED BY <2>4, <2>6, <3>1, <3>2 DEF A, B
  <2>7. CASE ~Own(Head(w))
    <3>1. B \ {1} = B
      BY <2>5, <2>7
    <3>2. Cardinality(B) = Cardinality(A) + one
      <4>1. Cardinality(B) = Cardinality(A)
        BY <2>4, <3>1
      <4>2. one = 0
        BY <2>7
      <4> HIDE DEF one
      <4> QED BY <2>1, <4>1, <4>2
    <3> QED BY <3>2 DEF A, B
  <2> QED BY <2>6, <2>7
<1>7. Cardinality(OwnSignals(w)) = Cardinality(OwnSignals(v)) + one
  <2>1. {j \in OwnSignals(w) : j <= Len(v) + 1} = OwnSignals(w)
    BY <1>1, <1>4
  <2>2. {j \in OwnSignals(v) : j <= Len(v)} = OwnSignals(v)
    BY <1>1, <1>3
  <2> QED BY <1>1, <1>6, <2>1, <2>2
<1>8. ASSUME Own(Head(w)) PROVE 1 \in OwnSignals(w) /\ Place(w, 1) = 1
  <2>1. {j \in OwnSignals(w) : j <= 1} = {1}
    BY <1>1, <1>4, <1>5, <1>8
  <2> QED BY <1>5, <1>8, <2>1, FS_Singleton DEF Place
<1>9. \A i \in OwnSignals(v) : Place(w, i + 1) = Place(v, i) + one
  <2> TAKE i \in OwnSignals(v)
  <2>1. i \in Nat
    BY <1>1, <1>3
  <2> QED BY <1>6, <2>1 DEF Place
<1> QED BY <1>1, <1>3, <1>7, <1>8, <1>9 DEF v

-----------------------------------------------------------------------------
(* Order is kept.                                                              *)

\* The order kept is what the property says.
LEMMA OrderedIsInOrder ==
  ASSUME session \in SessionType, received \in Seq(Nat), Waiting \in Seq(UpdateType)
  PROVE  SignalingInOrder <=> Ordered(session, Waiting, received)
<1> DEFINE w == Waiting
<1>1. Held(session) \in Seq(Nat) /\ session.heard \in Seq(Nat)
  BY HeldIsSeq
<1>2. Cardinality(OwnSignals(w)) \in Nat
  BY OwnAreFinite
<1>3. Len(Held(session)) \in Nat /\ Len(received) \in Nat /\ Len(session.heard) \in Nat
  BY <1>1, LenProperties
<1> HIDE DEF w
<1>4. CASE session.phase \in Live
  <2>1. Len(received) = Len(Held(session)) + Cardinality(OwnSignals(w)) =>
           Len(Held(session)) <= Len(received)
    BY <1>2, <1>3
  <2>2. Len(Held(session)) <= Len(received) =>
           (Held(session) = SubSeq(received, 1, Len(Held(session))) <=> Begins(Held(session), received))
    BY <1>1, BeginsIsSubSeq
  <2> QED BY <1>4, <2>1, <2>2 DEF SignalingInOrder, Ordered, Held, Waiting, w
<1>5. CASE session.phase \notin Live
  <2>1. Len(session.heard) <= Len(received) =>
           (session.heard = SubSeq(received, 1, Len(session.heard)) <=> Begins(session.heard, received))
    BY <1>1, BeginsIsSubSeq
  <2> QED BY <1>5, <2>1 DEF SignalingInOrder, Ordered, Begins
<1> QED BY <1>4, <1>5

LEMMA BeginsAppend ==
  ASSUME NEW a \in Seq(Nat), NEW r \in Seq(Nat), Begins(a, r), NEW x \in Nat
  PROVE  Begins(a, Append(r, x))
<1>1. Len(a) \in Nat /\ Len(r) \in Nat
  BY LenProperties
<1>2. Len(Append(r, x)) = Len(r) + 1 /\ \A i \in 1..Len(r) : Append(r, x)[i] = r[i]
  BY AppendProperties
<1> QED BY <1>1, <1>2 DEF Begins

LEMMA BothAppend ==
  ASSUME NEW a \in Seq(Nat), NEW r \in Seq(Nat), Begins(a, r), NEW x \in Nat,
         r[Len(a) + 1] = x, Len(r) > Len(a)
  PROVE  Begins(Append(a, x), r)
<1>1. Len(a) \in Nat /\ Len(r) \in Nat
  BY LenProperties
<1>2. /\ Len(Append(a, x)) = Len(a) + 1 /\ Append(a, x)[Len(a) + 1] = x
      /\ \A i \in 1..Len(a) : Append(a, x)[i] = a[i]
  BY AppendProperties
<1>3. ASSUME NEW i \in 1..Len(a) + 1 PROVE Append(a, x)[i] = r[i]
  BY <1>1, <1>2 DEF Begins
<1> QED BY <1>1, <1>2, <1>3 DEF Begins

\* A session that is over has heard the beginning of what it held.
LEMMA CutOrdered ==
  ASSUME NEW s \in SessionType, NEW t \in SessionType, NEW w, NEW rec \in Seq(Nat),
         Ordered(s, w, rec), t.phase \notin Live,
         IF s.phase \in Live THEN Begins(t.heard, Held(s)) ELSE t.heard = s.heard
  PROVE  Begins(t.heard, rec)
<1>1. /\ t.heard \in Seq(Nat) /\ Held(s) \in Seq(Nat)
  BY HeldIsSeq
<1> QED BY <1>1, BeginsTransitive DEF Ordered

\* An event that is read again.
LEMMA ReplayOrdered ==
  ASSUME NEW s \in SessionType, s.call_known, NEW w \in Seq(UpdateType), w # <<>>,
         NEW rec \in Seq(Nat), NEW t, Handled(s, Head(w), t), Ordered(s, w, rec)
  PROVE  Ordered(t, Tail(w), rec)
<1> DEFINE e == Head(w)
           v == Tail(w)
<1>1. t \in SessionType /\ Heeded(s, e, t) /\ e \in UpdateType /\ v \in Seq(UpdateType)
  BY HeadTailProperties DEF Handled
<1>2. CASE t.phase \notin Live
  <2>1. IF s.phase \in Live THEN Begins(t.heard, Held(s)) ELSE t.heard = s.heard
    BY <1>1, <1>2 DEF Heeded
  <2> QED BY <1>1, <1>2, <2>1, CutOrdered DEF Ordered
<1>3. CASE t.phase \in Live
  <2>1. s.phase \in Live
    BY <1>1, <1>3 DEF Heeded
  <2>2. /\ Len(rec) = Len(Held(s)) + Cardinality(OwnSignals(w)) /\ Begins(Held(s), rec)
        /\ \A i \in OwnSignals(w) : w[i].data = rec[Len(Held(s)) + Place(w, i)]
    BY <2>1 DEF Ordered
  <2>3. /\ Held(s) \in Seq(Nat) /\ Len(Held(s)) \in Nat /\ e.data \in Nat
        /\ Cardinality(OwnSignals(w)) \in Nat /\ Cardinality(OwnSignals(v)) \in Nat
    <3>1. Held(s) \in Seq(Nat) /\ e.data \in Nat
      BY <1>1, HeldIsSeq DEF UpdateType
    <3> QED BY <1>1, <3>1, LenProperties, OwnAreFinite
  <2>4. \A i \in OwnSignals(v) : i \in Nat /\ Place(v, i) \in Nat
    <3>1. \A i \in OwnSignals(v) : i \in Nat
      BY DEF OwnSignals
    <3> QED BY <1>1, <3>1, OwnAreFinite
  <2>5. CASE Own(e)
    <3>1. Held(t) = Append(Held(s), e.data)
      BY <1>1, <1>3, <2>1, <2>5 DEF Heeded, Own
    <3>2. /\ Cardinality(OwnSignals(w)) = Cardinality(OwnSignals(v)) + 1
          /\ 1 \in OwnSignals(w) /\ Place(w, 1) = 1 /\ w[1] = e
          /\ \A i \in OwnSignals(v) : /\ i + 1 \in OwnSignals(w) /\ v[i] = w[i + 1]
                                      /\ Place(w, i + 1) = Place(v, i) + 1
      BY <2>5, OwnOfTail
    <3>3. Len(Held(t)) = Len(Held(s)) + 1
      BY <2>3, <3>1, AppendProperties
    <3>4. Begins(Held(t), rec)
      <4>1. Len(rec) > Len(Held(s))
        BY <2>2, <2>3, <3>2
      <4>2. w[1].data = rec[Len(Held(s)) + Place(w, 1)]
        BY <2>2, <3>2
      <4>3. rec[Len(Held(s)) + 1] = e.data
        BY <3>2, <4>2
      <4> QED BY <2>2, <2>3, <3>1, <4>1, <4>3, BothAppend
    <3>5. Len(rec) = Len(Held(t)) + Cardinality(OwnSignals(v))
      BY <2>2, <2>3, <3>2, <3>3
    <3>6. ASSUME NEW i \in OwnSignals(v) PROVE v[i].data = rec[Len(Held(t)) + Place(v, i)]
      <4> HIDE DEF v
      <4>0. i + 1 \in OwnSignals(w) /\ v[i] = w[i + 1] /\ Place(w, i + 1) = Place(v, i) + 1
        BY <3>2
      <4>1. v[i].data = rec[Len(Held(s)) + (Place(v, i) + 1)]
        BY <2>2, <4>0
      <4>2. Len(Held(s)) + (Place(v, i) + 1) = Len(Held(t)) + Place(v, i)
        BY <2>3, <2>4, <3>3
      <4> QED BY <4>1, <4>2
    <3> QED BY <1>3, <3>4, <3>5, <3>6 DEF Ordered
  <2>6. CASE ~Own(e)
    <3>1. Held(t) = Held(s)
      BY <1>1, <1>3, <2>1, <2>6 DEF Heeded, Own
    <3>2. /\ Cardinality(OwnSignals(w)) = Cardinality(OwnSignals(v)) + 0
          /\ \A i \in OwnSignals(v) : /\ i + 1 \in OwnSignals(w) /\ v[i] = w[i + 1]
                                      /\ Place(w, i + 1) = Place(v, i) + 0
      BY <2>6, OwnOfTail
    <3>3. Cardinality(OwnSignals(w)) = Cardinality(OwnSignals(v))
      BY <2>3, <3>2
    <3>4. \A i \in OwnSignals(v) : Place(w, i + 1) = Place(v, i)
      BY <2>4, <3>2
    <3> QED BY <1>3, <2>2, <3>1, <3>2, <3>3, <3>4 DEF Ordered
  <2> QED BY <2>5, <2>6
<1> QED BY <1>2, <1>3

\* An event that comes from Telegram: the history takes it when the session does.
LEMMA NewsOrdered ==
  ASSUME NEW s \in SessionType, Consistent(s), NEW rec \in Seq(Nat), NEW e \in UpdateType,
         NEW t, Handled(s, e, t), Ordered(s, s.pending_updates, rec),
         NEW rec2, rec2 = IF Own(e) /\ s.phase \in Live THEN Append(rec, e.data) ELSE rec
  PROVE  Ordered(t, t.pending_updates, rec2) /\ rec2 \in Seq(Nat)
<1> DEFINE w == s.pending_updates
           v == t.pending_updates
<1>1. /\ t \in SessionType /\ Heeded(s, e, t) /\ e.data \in Nat
      /\ w \in Seq(UpdateType) /\ v \in Seq(UpdateType)
  BY DEF Handled, UpdateType, SessionType
<1>2. /\ Held(s) \in Seq(Nat) /\ t.heard \in Seq(Nat)
  BY <1>1, HeldIsSeq
<1>3. /\ Len(Held(s)) \in Nat /\ Len(rec) \in Nat /\ Len(w) \in Nat
      /\ Cardinality(OwnSignals(w)) \in Nat
  BY <1>1, <1>2, LenProperties, OwnAreFinite
<1>4. rec2 \in Seq(Nat)
  BY <1>1, AppendProperties
<1>5. \A a \in Seq(Nat) : Begins(a, rec) => Begins(a, rec2)
  BY <1>1, BeginsAppend
<1>6. CASE t.phase \notin Live
  <2>1. IF s.phase \in Live THEN Begins(t.heard, Held(s)) ELSE t.heard = s.heard
    BY <1>1, <1>6 DEF Heeded
  <2>2. Begins(t.heard, rec)
    BY <1>1, <1>6, <2>1, CutOrdered
  <2> QED BY <1>2, <1>4, <1>5, <1>6, <2>2 DEF Ordered
<1>7. CASE t.phase \in Live
  <2>1. s.phase \in Live
    BY <1>1, <1>7 DEF Heeded
  <2>2. /\ Len(rec) = Len(Held(s)) + Cardinality(OwnSignals(w)) /\ Begins(Held(s), rec)
        /\ \A i \in OwnSignals(w) : w[i].data = rec[Len(Held(s)) + Place(w, i)]
    BY <2>1 DEF Ordered
  <2>3. CASE s.call_known /\ Own(e)
    <3>1. Held(t) = Append(Held(s), e.data) /\ v = w /\ w = <<>>
      BY <1>1, <1>7, <2>1, <2>3 DEF Heeded, Own, Handled, Consistent
    <3>2. OwnSignals(v) = {} /\ Cardinality(OwnSignals(v)) = 0
      BY <3>1, OwnOfEmpty
    <3>3. rec2 = Append(rec, e.data) /\ Len(rec) = Len(Held(s))
      BY <1>3, <2>1, <2>2, <2>3, <3>1, <3>2
    <3>4. /\ Len(Held(t)) = Len(Held(s)) + 1 /\ Len(rec2) = Len(rec) + 1
          /\ rec2[Len(rec) + 1] = e.data
      BY <1>1, <1>2, <3>1, <3>3, AppendProperties
    <3>5. Begins(Held(t), rec2)
      <4>1. Begins(Held(s), rec2)
        BY <1>2, <1>5, <2>2
      <4>2. rec2[Len(Held(s)) + 1] = e.data /\ Len(rec2) > Len(Held(s))
        BY <1>3, <3>3, <3>4
      <4> QED BY <1>1, <1>2, <1>4, <3>1, <4>1, <4>2, BothAppend
    <3>6. Len(rec2) = Len(Held(t)) + Cardinality(OwnSignals(v))
      BY <1>3, <3>2, <3>3, <3>4
    <3> QED BY <1>4, <1>7, <3>2, <3>5, <3>6 DEF Ordered
  <2>4. CASE s.call_known /\ ~Own(e)
    <3>1. Held(t) = Held(s) /\ v = w /\ rec2 = rec
      BY <1>1, <1>7, <2>1, <2>4 DEF Heeded, Own, Handled
    <3> QED BY <1>4, <1>7, <2>2, <3>1 DEF Ordered
  <2>5. CASE ~s.call_known
    <3>1. Held(t) = Held(s) /\ v = Append(w, e)
      BY <1>1, <1>7, <2>1, <2>5 DEF Heeded
    <3>2. /\ Cardinality(OwnSignals(v)) = Cardinality(OwnSignals(w)) + (IF Own(e) THEN 1 ELSE 0)
          /\ \A i \in OwnSignals(v) :
                IF i = Len(w) + 1
                THEN Own(e) /\ v[i] = e /\ Place(v, i) = Cardinality(OwnSignals(w)) + 1
                ELSE i \in OwnSignals(w) /\ v[i] = w[i] /\ Place(v, i) = Place(w, i)
      <4> HIDE DEF v, w
      <4> QED BY <1>1, <3>1, OwnOfAppend
    <3>3. Own(e) => /\ rec2 = Append(rec, e.data) /\ Len(rec2) = Len(rec) + 1
                    /\ rec2[Len(rec) + 1] = e.data /\ \A i \in 1..Len(rec) : rec2[i] = rec[i]
      BY <1>1, <2>1, AppendProperties
    <3>4. Len(rec2) = Len(Held(t)) + Cardinality(OwnSignals(v))
      <4>1. CASE Own(e)
        BY <1>3, <2>2, <3>1, <3>2, <3>3, <4>1
      <4>2. CASE ~Own(e)
        BY <1>3, <2>2, <3>1, <3>2, <4>2
      <4> QED BY <4>1, <4>2
    <3>5. Begins(Held(t), rec2)
      BY <1>2, <1>5, <2>2, <3>1
    <3>6. ASSUME NEW i \in OwnSignals(v) PROVE v[i].data = rec2[Len(Held(t)) + Place(v, i)]
      <4>1. CASE i = Len(w) + 1
        <5>1. Own(e) /\ v[i] = e /\ Place(v, i) = Cardinality(OwnSignals(w)) + 1
          BY <3>2, <4>1
        <5>2. Len(Held(t)) + Place(v, i) = Len(rec) + 1
          BY <1>3, <2>2, <3>1, <5>1
        <5> QED BY <3>3, <5>1, <5>2
      <4>2. CASE i # Len(w) + 1
        <5>1. i \in OwnSignals(w) /\ v[i] = w[i] /\ Place(v, i) = Place(w, i)
          BY <3>2, <4>2
        <5>2. i \in Nat
          BY <5>1 DEF OwnSignals
        <5>3. Place(w, i) \in Nat /\ Place(w, i) >= 1 /\ Place(w, i) <= Cardinality(OwnSignals(w))
          BY <1>1, <5>1, <5>2, OwnAreFinite
        <5>4. Len(Held(t)) + Place(v, i) \in 1..Len(rec)
          <6>1. Len(Held(t)) + Place(v, i) = Len(Held(s)) + Place(w, i)
            BY <3>1, <5>1
          <6>2. Len(Held(s)) + Place(w, i) \in 1..Len(rec)
            BY <1>3, <2>2, <5>3
          <6> QED BY <6>1, <6>2
        <5>5. rec2[Len(Held(t)) + Place(v, i)] = rec[Len(Held(t)) + Place(v, i)]
          BY <3>3, <5>4
        <5> QED BY <2>2, <3>1, <5>1, <5>5
      <4> QED BY <4>1, <4>2
    <3> QED BY <1>4, <1>7, <3>4, <3>5, <3>6 DEF Ordered
  <2> QED BY <2>3, <2>4, <2>5
<1> QED BY <1>6, <1>7

-----------------------------------------------------------------------------
(* The invariant holds of every step.                                          *)

LEMMA UpdatesAreEvents ==
  ASSUME NEW q \in Seq(UpdateType)
  PROVE  q \in Seq(EventType) /\ q \o <<>> = q /\ <<>> \o q = q
<1>1. UpdateType \subseteq EventType
  BY DEF UpdateType, EventType
<1> QED BY <1>1, SeqMonotonic, ConcatEmptySeq

\* What waits is read again, or waits for the id of the call.
LEMMA WaitingIs ==
  ASSUME IInv
  PROVE  /\ session \in SessionType /\ received \in Seq(Nat) /\ Waiting \in Seq(UpdateType)
         /\ session.pending_updates \in Seq(UpdateType)
         /\ session.call_known => session.pending_updates = <<>> /\ Waiting = replay
         /\ replay = <<>> => Waiting = session.pending_updates
<1>1. /\ session \in SessionType /\ received \in Seq(Nat) /\ replay \in Seq(UpdateType)
      /\ session.pending_updates \in Seq(UpdateType)
  BY DEF IInv, TypeOK, Reading, SessionType, UpdateType
<1>2. Waiting \in Seq(UpdateType)
  BY <1>1, ConcatProperties DEF Waiting
<1> QED BY <1>1, <1>2, UpdatesAreEvents DEF IInv, Consistent, Waiting

\* The invariant gives the properties.
LEMMA IInvImplies == IInv => TypeOK /\ MediaReleased /\ EndIsConfirmed /\ SignalingInOrder
<1> SUFFICES ASSUME IInv PROVE TypeOK /\ MediaReleased /\ EndIsConfirmed /\ SignalingInOrder
  OBVIOUS
<1>1. MediaReleased
  BY DEF IInv, Silenced, MediaReleased
<1>2. EndIsConfirmed
  BY DEF IInv, Telling, Consistent, EndIsConfirmed
<1>3. SignalingInOrder
  BY WaitingIs, OrderedIsInOrder DEF IInv
<1> QED BY <1>1, <1>2, <1>3 DEF IInv

LEMMA InitHolds == Init => IInv
<1> SUFFICES ASSUME Init PROVE IInv
  OBVIOUS
<1>1. NewSession \in SessionType
  BY EmptySeq DEF NewSession, SessionType, Phases
<1>2. TypeOK
  BY <1>1, EmptySeq DEF Init, TypeOK, CallStates
<1>3. Consistent(session) /\ Silenced(session)
  BY DEF Init, NewSession, Consistent, Silenced, Live
<1>4. Telling /\ Reading
  BY EmptySeq DEF Init, NewSession, Telling, Reading, Truthful
<1>5. Ordered(session, Waiting, received)
  <2>1. session.phase \notin Live /\ session.heard = <<>> /\ received = <<>>
    BY DEF Init, NewSession, Live
  <2> QED BY <2>1 DEF Ordered, Begins
<1> QED BY <1>2, <1>3, <1>4, <1>5 DEF IInv

\* The session alone changes, by itself: it stays sound, and is over only if it was.
LEMMA SessionStep ==
  ASSUME IInv, UNCHANGED <<replay, received, wire, serverVars>>,
         session' \in SessionType, Consistent(session'), Silenced(session'),
         session'.call_known = session.call_known,
         session'.outgoing = session.outgoing,
         session.discard_sent => session'.discard_sent,
         session'.phase = "idle" <=> session.phase = "idle",
         session'.phase \in {"ended", "failed"} => session.phase \in {"ended", "failed"},
         session'.pending_updates = session.pending_updates,
         IF session'.phase \in Live
         THEN session.phase \in Live /\ Held(session') = Held(session)
         ELSE session'.heard = session.heard
  PROVE  IInv'
<1>1. TypeOK'
  BY DEF IInv, TypeOK, serverVars
<1>2. Telling' /\ Reading'
  BY DEF IInv, Telling, Reading, Truthful, IsOver, serverVars
<1>3. Ordered(session', Waiting', received')
  <2>1. Waiting' = Waiting /\ received' = received /\ Ordered(session, Waiting, received)
    BY DEF Waiting, IInv
  <2>2. CASE session'.phase \in Live
    BY <2>1, <2>2 DEF Ordered
  <2>3. CASE session'.phase \notin Live
    <3>1. session \in SessionType /\ received \in Seq(Nat)
      BY DEF IInv, TypeOK
    <3>2. IF session.phase \in Live THEN Begins(session'.heard, Held(session))
          ELSE session'.heard = session.heard
      BY <2>3, <3>1, HeldIsSeq
    <3> QED BY <2>1, <2>3, <3>1, <3>2, CutOrdered DEF Ordered
  <2> QED BY <2>2, <2>3
<1> QED BY <1>1, <1>2, <1>3 DEF IInv

LEMMA EndStep ==
  ASSUME IInv, session' \in End(session), UNCHANGED <<replay, received, wire, serverVars>>
  PROVE  IInv'
<1>1. session \in SessionType /\ Consistent(session) /\ Silenced(session)
  BY DEF IInv, TypeOK
<1>2. /\ session' \in SessionType /\ Consistent(session') /\ Silenced(session')
      /\ Kept(session, session')
      /\ session.discard_sent => session'.discard_sent
      /\ session'.phase = "idle" <=> session.phase = "idle"
      /\ session'.phase \in {"ended", "failed"} => session.phase \in {"ended", "failed"}
      /\ session'.pending_updates = session.pending_updates
      /\ session'.heard = session.heard /\ session'.phase \notin Live
  BY <1>1, EndHandled
<1> QED BY <1>2, SessionStep DEF Kept

LEMMA StartStep == IInv /\ Start => IInv'
<1> SUFFICES ASSUME IInv, Start PROVE IInv'
  OBVIOUS
<1>1. PICK ringing \in BOOLEAN :
          session' = [session EXCEPT !.phase = "dialing", !.ringing = ringing, !.since_created = 0]
  BY DEF Start
<1>2. session \in SessionType /\ session.phase = "idle" /\ server = "none"
  BY DEF Start, IInv, TypeOK
<1>3. /\ session' \in SessionType /\ session'.phase = "dialing"
      /\ session'.stopping = session.stopping /\ session'.call_known = session.call_known
      /\ session'.outgoing = session.outgoing
      /\ session'.create_resolved = session.create_resolved
      /\ session'.discard_sent = session.discard_sent /\ session'.heard = session.heard
      /\ session'.pending_signaling = session.pending_signaling
      /\ session'.pending_updates = session.pending_updates
      /\ session'.media_started = session.media_started
      /\ session'.media_stopped = session.media_stopped /\ session'.cleanup = session.cleanup
  BY <1>1, <1>2 DEF SessionType, Phases
<1>4. /\ ~session.stopping /\ ~session.call_known /\ session.outgoing /\ ~session.media_started
      /\ session.heard = <<>> /\ session.pending_signaling = <<>>
      /\ session.pending_updates = <<>> /\ replay = <<>> /\ received = <<>>
  BY <1>2 DEF IInv, Consistent, Reading, Final
<1>5. Consistent(session') /\ Silenced(session')
  BY <1>3, <1>4 DEF IInv, Consistent, Silenced, Live
<1>6. TypeOK'
  BY <1>3 DEF Start, IInv, TypeOK, serverVars
<1>7. Telling'
  <2>1. \A i \in 1..Len(wire) : wire[i].kind \notin {"create_error", "end_error"}
    BY <1>2 DEF IInv, Reading
  <2> QED BY <1>2, <1>3, <2>1 DEF Start, IInv, Telling, Truthful, IsOver, serverVars
<1>8. Reading'
  BY <1>3, <1>4 DEF Start, IInv, Reading
<1>9. Ordered(session', Waiting', received')
  <2>1. Waiting' = <<>> /\ received' = <<>> /\ Held(session') = <<>>
    BY <1>3, <1>4, EmptySeq, ConcatEmptySeq DEF Waiting, Start, Held
  <2> QED BY <1>3, <2>1, OwnOfEmpty DEF Ordered, Begins, Live
<1> QED BY <1>5, <1>6, <1>7, <1>8, <1>9 DEF IInv

LEMMA AcceptStep == IInv /\ Accept => IInv'
<1> SUFFICES ASSUME IInv, Accept PROVE IInv'
  OBVIOUS
<1>1. session \in SessionType /\ session.phase = "idle" /\ server = "pending"
  BY DEF Accept, IInv, TypeOK
<1>2. /\ session' \in SessionType /\ session'.phase = "exchanging_keys"
      /\ session'.stopping = session.stopping /\ session'.call_known
      /\ ~session'.outgoing /\ session'.create_resolved
      /\ session'.discard_sent = session.discard_sent /\ session'.heard = session.heard
      /\ session'.pending_signaling = session.pending_signaling
      /\ session'.pending_updates = session.pending_updates
      /\ session'.media_started = session.media_started
      /\ session'.media_stopped = session.media_stopped /\ session'.cleanup = session.cleanup
  BY <1>1 DEF Accept, SessionType, Phases
<1>3. /\ ~session.stopping /\ ~session.call_known /\ ~session.media_started
      /\ session.heard = <<>> /\ session.pending_signaling = <<>>
      /\ session.pending_updates = <<>> /\ replay = <<>> /\ received = <<>>
  BY <1>1 DEF IInv, Consistent, Reading, Final
<1>4. Consistent(session') /\ Silenced(session')
  BY <1>2, <1>3 DEF IInv, Consistent, Silenced, Live
<1>5. TypeOK'
  BY <1>2 DEF Accept, IInv, TypeOK
<1>6. Telling'
  <2>1. \A i \in 1..Len(wire) : wire[i].kind \notin {"create_error", "end_error"}
    BY <1>1 DEF IInv, Reading
  <2> QED BY <1>1, <1>2, <2>1 DEF Accept, IInv, Telling, Truthful, IsOver
<1>7. Reading'
  BY <1>2, <1>3 DEF Accept, IInv, Reading
<1>8. Ordered(session', Waiting', received')
  <2>1. Waiting' = <<>> /\ received' = <<>> /\ Held(session') = <<>>
    BY <1>2, <1>3, EmptySeq, ConcatEmptySeq DEF Waiting, Accept, Held
  <2> QED BY <1>2, <2>1, OwnOfEmpty DEF Ordered, Begins, Live
<1> QED BY <1>4, <1>5, <1>6, <1>7, <1>8 DEF IInv

\* A session that changes nothing but its phase, and the times it keeps.
Alike(s, t) ==
    /\ t \in SessionType /\ Kept(s, t) /\ t.stopping = s.stopping
    /\ t.discard_sent = s.discard_sent /\ t.heard = s.heard
    /\ t.pending_signaling = s.pending_signaling /\ t.pending_updates = s.pending_updates
    /\ t.media_started = s.media_started /\ t.media_stopped = s.media_stopped
    /\ t.cleanup = s.cleanup

LEMMA PhaseStep ==
  ASSUME IInv, UNCHANGED <<replay, received, wire, serverVars>>,
         NEW s \in {session} \cup End(session), Alike(s, session'),
         \/ session'.phase = s.phase
         \/ s.stopping /\ session'.phase = "end_unconfirmed"
         \/ s.phase \in Live /\ session'.phase \in Live
  PROVE  IInv'
<1>1. /\ session \in SessionType /\ Consistent(session) /\ Silenced(session)
  BY DEF IInv, TypeOK
<1>2. /\ s \in SessionType /\ Consistent(s) /\ Silenced(s)
      /\ Kept(session, s)
      /\ session.discard_sent => s.discard_sent
      /\ s.phase = "idle" <=> session.phase = "idle"
      /\ s.phase \in {"ended", "failed"} => session.phase \in {"ended", "failed"}
      /\ s.pending_updates = session.pending_updates /\ s.heard = session.heard
      /\ s.phase \in Live => s = session
  BY <1>1, EndHandled DEF Kept
<1> DEFINE p == session'.phase
<1>3. /\ p \in Live <=> s.phase \in Live
      /\ p = "idle" <=> s.phase = "idle"
      /\ p \in {"ended", "failed"} => s.phase \in {"ended", "failed"}
  BY <1>2 DEF Consistent, Live, Final
<1>4. Consistent(session') /\ Silenced(session')
  BY <1>2, <1>3 DEF Consistent, Silenced, Live, Final, Alike, Kept
<1>5. IF session'.phase \in Live
      THEN session.phase \in Live /\ Held(session') = Held(session)
      ELSE session'.heard = session.heard
  BY <1>2, <1>3 DEF Held, Alike
<1>6. /\ session' \in SessionType
      /\ session'.call_known = session.call_known
      /\ session'.outgoing = session.outgoing
      /\ session.discard_sent => session'.discard_sent
      /\ session'.phase = "idle" <=> session.phase = "idle"
      /\ session'.phase \in {"ended", "failed"} => session.phase \in {"ended", "failed"}
      /\ session'.pending_updates = session.pending_updates
  BY <1>2, <1>3 DEF Alike, Kept
<1> QED BY <1>4, <1>5, <1>6, SessionStep

LEMMA GiveUpRingingStep == IInv /\ GiveUpRinging => IInv'
<1> SUFFICES ASSUME IInv, GiveUpRinging PROVE IInv'
  OBVIOUS
<1>1. session \in SessionType /\ session.stopping
  BY DEF IInv, TypeOK, Consistent, GiveUpRinging
<1>2. Alike(session, session') /\ session'.phase = "end_unconfirmed"
  BY <1>1 DEF GiveUpRinging, SessionType, Alike, Kept, Phases
<1> QED BY <1>1, <1>2, PhaseStep DEF GiveUpRinging

LEMMA MediaEventStep == IInv /\ MediaEvent => IInv'
<1> SUFFICES ASSUME IInv, MediaEvent PROVE IInv'
  OBVIOUS
<1>1. session \in SessionType /\ UNCHANGED <<replay, received, wire, serverVars>>
  BY DEF IInv, TypeOK, MediaEvent
<1>2. CASE session' \in End(session)
  BY <1>1, <1>2, EndStep
<1>3. ASSUME NEW p \in {"active", "media_reconnecting"}, session.phase \in Live,
             session' = [session EXCEPT !.phase = p, !.since_reconnecting = 0]
      PROVE  IInv'
  <2>1. Alike(session, session') /\ session'.phase \in Live
    BY <1>1, <1>3 DEF SessionType, Alike, Kept, Phases, Live
  <2> QED BY <1>1, <1>3, <2>1, PhaseStep
<1> QED BY <1>2, <1>3 DEF MediaEvent, Live

LEMMA TickStep == IInv /\ Tick => IInv'
<1> SUFFICES ASSUME IInv, Tick PROVE IInv'
  OBVIOUS
<1>1. /\ session \in SessionType /\ Consistent(session) /\ Silenced(session)
      /\ UNCHANGED <<replay, received, wire, serverVars>>
  BY DEF IInv, TypeOK, Tick
<1>2. PICK s \in {session} \cup End(session) :
               session' = IF s.stopping /\ s.since_stop >= EndTimeout
                          THEN [s EXCEPT !.phase = "end_unconfirmed"]
                          ELSE s
  BY DEF Tick
<1>3. s \in SessionType
  BY <1>1, EndHandled
<1>4. /\ Alike(s, session')
      /\ \/ session'.phase = s.phase
         \/ s.stopping /\ session'.phase = "end_unconfirmed"
  <2>1. CASE s.stopping /\ s.since_stop >= EndTimeout
    <3>1. session' = [s EXCEPT !.phase = "end_unconfirmed"]
      BY <1>2, <2>1
    <3> QED BY <1>3, <2>1, <3>1 DEF SessionType, Alike, Kept, Phases
  <2>2. CASE ~(s.stopping /\ s.since_stop >= EndTimeout)
    <3>1. session' = s
      BY <1>2, <2>2
    <3>2. Alike(s, s)
      BY <1>3 DEF Alike, Kept
    <3> QED BY <3>1, <3>2
  <2> QED BY <2>1, <2>2
<1> QED BY <1>1, <1>4, PhaseStep

LEMMA TimePassesStep == IInv /\ TimePasses => IInv'
<1> SUFFICES ASSUME IInv, TimePasses PROVE IInv'
  OBVIOUS
<1>1. session \in SessionType /\ UNCHANGED <<replay, received, wire, serverVars>>
  BY DEF IInv, TypeOK, TimePasses
<1> DEFINE a == Later(session.since_created, StartTimeout)
           b == Later(session.since_reconnecting, StartTimeout)
           c == Later(session.since_stop, EndTimeout)
<1>2. a \in Nat /\ b \in Nat /\ c \in Nat
  BY <1>1 DEF SessionType, Later
<1>3. session' = [session EXCEPT !.since_created = a, !.since_reconnecting = b, !.since_stop = c]
  BY DEF TimePasses
<1> HIDE DEF a, b, c
<1>4. Alike(session, session') /\ session'.phase = session.phase
  BY <1>1, <1>2, <1>3 DEF SessionType, Alike, Kept
<1> QED BY <1>1, <1>4, PhaseStep

-----------------------------------------------------------------------------
(* The steps that take an event.                                               *)

\* What is known of an event that is taken, and of those that are left.
LEMMA TakeLeaves ==
  ASSUME IInv, NEW k, Take(k)
  PROVE  /\ replay = <<>> /\ Head(wire) \in EventType /\ Head(wire).kind = k
         /\ wire' = Tail(wire) /\ wire' \in Seq(EventType)
         /\ UNCHANGED <<server, owed, discarded, signals, foreign>>
         /\ \A i \in 1..Len(wire') : \E j \in 1..Len(wire) : wire'[i] = wire[j]
         /\ \E j \in 1..Len(wire) : Head(wire) = wire[j]
<1>1. wire \in Seq(EventType) /\ wire # <<>>
  BY DEF IInv, TypeOK, Take
<1>2. /\ Head(wire) \in EventType /\ Tail(wire) \in Seq(EventType)
      /\ Len(Tail(wire)) = Len(wire) - 1 /\ Len(wire) \in Nat
      /\ \A i \in 1..Len(Tail(wire)) : Tail(wire)[i] = wire[i + 1]
  BY <1>1, HeadTailProperties, LenProperties
<1>3. Len(wire) >= 1 /\ Head(wire) = wire[1]
  BY <1>1, <1>2, EmptySeq, SeqEqual
<1>4. \A i \in 1..Len(Tail(wire)) : i + 1 \in 1..Len(wire)
  BY <1>2
<1>5. 1 \in 1..Len(wire)
  BY <1>2, <1>3
<1> QED BY <1>2, <1>3, <1>4, <1>5 DEF Take, serverVars

\* An event is taken that leaves all it may of what is known of Telegram's side.
LEMMA TakeTelling ==
  ASSUME IInv, NEW k, Take(k),
         session'.phase \in {"ended", "failed"} => server \in Over \cup {"refused"},
         Truthful(replay'), Truthful(session'.pending_updates),
         session'.outgoing => session.outgoing,
         session.discard_sent => session'.discard_sent,
         session'.phase = "idle" => session.phase = "idle"
  PROVE  Telling'
<1>1. /\ \A i \in 1..Len(wire') : \E j \in 1..Len(wire) : wire'[i] = wire[j]
      /\ UNCHANGED <<server, owed>>
  BY TakeLeaves
<1>2. /\ Truthful(wire)
      /\ \A j \in 1..Len(wire) : /\ wire[j].kind = "create_error" /\ session.outgoing => server = "refused"
                                 /\ wire[j].kind = "end_error" => session.discard_sent
      /\ owed => session.phase # "idle"
  BY DEF IInv, Telling
<1>3. Truthful(wire)'
  BY <1>1, <1>2 DEF Truthful, IsOver
<1>4. Truthful(replay)' /\ Truthful(session.pending_updates)'
  BY <1>1 DEF Truthful, IsOver
<1>5. \A i \in 1..Len(wire') :
          /\ wire'[i].kind = "create_error" /\ session'.outgoing => server' = "refused"
          /\ wire'[i].kind = "end_error" => session'.discard_sent
  BY <1>1, <1>2
<1> QED BY <1>1, <1>2, <1>3, <1>4, <1>5 DEF Telling

LEMMA CreateAnsweredStep == IInv /\ CreateAnswered => IInv'
<1> SUFFICES ASSUME IInv, CreateAnswered PROVE IInv'
  OBVIOUS
<1>1. /\ Take("created") /\ received' = received /\ replay = <<>>
      /\ wire' \in Seq(EventType) /\ UNCHANGED <<server, owed, discarded, signals, foreign>>
      /\ Head(wire).kind = "created"
      /\ \A i \in 1..Len(wire') : \E j \in 1..Len(wire) : wire'[i] = wire[j]
      /\ \E j \in 1..Len(wire) : Head(wire) = wire[j]
  BY TakeLeaves DEF CreateAnswered
<1>2. session \in SessionType /\ Consistent(session) /\ Silenced(session) /\ Telling /\ Reading
  BY DEF IInv, TypeOK
<1>3. session.phase # "idle"
  BY <1>1, <1>2 DEF Reading
<1>4. CASE session.create_resolved
  <2>1. session' = session /\ replay' = replay
    BY <1>4 DEF CreateAnswered
  <2>2. Telling'
    BY <1>1, <1>2, <2>1, TakeTelling DEF Telling
  <2>3. Reading'
    BY <1>2, <1>3, <2>1 DEF Reading
  <2>4. TypeOK'
    BY <1>1, <2>1 DEF IInv, TypeOK
  <2> QED BY <1>1, <1>2, <2>1, <2>2, <2>3, <2>4 DEF IInv, Waiting
<1>5. CASE ~session.create_resolved
  <2> DEFINE known == [session EXCEPT !.create_resolved = TRUE, !.call_known = TRUE,
                                      !.pending_updates = <<>>]
  <2>1. /\ session' = IF session.stopping THEN Discard(known) ELSE known
        /\ replay' = session.pending_updates
    BY <1>5 DEF CreateAnswered
  <2>2. /\ session' \in SessionType /\ session'.phase = session.phase
        /\ session'.stopping = session.stopping /\ session'.call_known
        /\ session'.outgoing = session.outgoing /\ session'.ringing = session.ringing
        /\ session'.create_resolved
        /\ session'.discard_sent = (session.discard_sent \/ session.stopping)
        /\ session'.heard = session.heard
        /\ session'.pending_signaling = session.pending_signaling
        /\ session'.pending_updates = <<>>
        /\ session'.media_started = session.media_started
        /\ session'.media_stopped = session.media_stopped /\ session'.cleanup = session.cleanup
    <3>1. CASE session.stopping
      <4>1. session' = [known EXCEPT !.discard_sent = known.discard_sent \/ known.call_known]
        BY <2>1, <3>1 DEF Discard
      <4> QED BY <1>2, <3>1, <4>1, EmptySeq DEF SessionType
    <3>2. CASE ~session.stopping
      <4>1. session' = known
        BY <2>1, <3>2
      <4> QED BY <1>2, <3>2, <4>1, EmptySeq DEF SessionType
    <3> QED BY <3>1, <3>2
  <2> HIDE DEF known
  <2>3. ~session.call_known
    BY <1>2, <1>5 DEF Consistent
  <2>4. Consistent(session') /\ Silenced(session')
    BY <1>2, <1>3, <2>2, <2>3 DEF Consistent, Silenced
  <2>5. /\ session.pending_updates \in Seq(UpdateType) /\ received \in Seq(Nat)
        /\ Waiting = session.pending_updates
    BY <1>1, WaitingIs
  <2>6. TypeOK'
    <3>1. replay' \in Seq(EventType)
      BY <2>1, <2>5, UpdatesAreEvents
    <3> QED BY <1>1, <2>2, <3>1 DEF IInv, TypeOK
  <2>7. Telling'
    <3>1. Truthful(replay') /\ Truthful(session'.pending_updates)
      BY <1>2, <2>1, <2>2 DEF Telling, Truthful
    <3> QED BY <1>1, <1>2, <2>2, <3>1, TakeTelling DEF Telling
  <2>8. Reading'
    BY <1>3, <2>1, <2>2, <2>5 DEF Reading
  <2>9. Ordered(session', Waiting', received')
    <3>1. Waiting' = Waiting
      BY <2>1, <2>2, <2>5, UpdatesAreEvents DEF Waiting
    <3> QED BY <1>1, <2>2, <3>1 DEF IInv, Ordered, Held
  <2> QED BY <2>4, <2>6, <2>7, <2>8, <2>9 DEF IInv
<1> QED BY <1>4, <1>5

LEMMA CreateFailedStep == IInv /\ CreateFailed => IInv'
<1> SUFFICES ASSUME IInv, CreateFailed PROVE IInv'
  OBVIOUS
<1>1. /\ Take("create_error") /\ received' = received /\ replay = <<>> /\ replay' = <<>>
      /\ wire' \in Seq(EventType) /\ UNCHANGED <<server, owed, discarded, signals, foreign>>
      /\ Head(wire).kind = "create_error"
      /\ \E j \in 1..Len(wire) : Head(wire) = wire[j]
  BY TakeLeaves DEF CreateFailed
<1>2. /\ session \in SessionType /\ Consistent(session) /\ Silenced(session)
      /\ Telling /\ Reading /\ Ordered(session, Waiting, received) /\ received \in Seq(Nat)
  BY DEF IInv, TypeOK
<1>3. session.phase # "idle" /\ (session.outgoing => server = "refused")
  BY <1>1, <1>2 DEF Reading, Telling
<1>4. CASE ~session.outgoing
  <2>1. session' \in End(session)
    BY <1>4 DEF CreateFailed
  <2>2. /\ session' \in SessionType /\ Consistent(session') /\ Silenced(session')
        /\ Kept(session, session')
        /\ session.discard_sent => session'.discard_sent
        /\ session'.phase = "idle" <=> session.phase = "idle"
        /\ session'.phase \in {"ended", "failed"} => session.phase \in {"ended", "failed"}
        /\ session'.pending_updates = session.pending_updates
        /\ session'.heard = session.heard /\ session'.phase \notin Live
    BY <1>2, <2>1, EndHandled
  <2>3. TypeOK'
    BY <1>1, <2>2 DEF IInv, TypeOK
  <2>4. Telling'
    <3>1. Truthful(replay') /\ Truthful(session'.pending_updates)
      BY <1>1, <1>2, <2>2 DEF Telling
    <3> QED BY <1>1, <1>2, <2>2, <3>1, TakeTelling DEF Telling, Kept
  <2>5. Reading'
    BY <1>1, <1>2, <1>3, <2>2 DEF Reading
  <2>6. Ordered(session', Waiting', received')
    <3>1. IF session.phase \in Live THEN Begins(session'.heard, Held(session))
          ELSE session'.heard = session.heard
      BY <1>2, <2>2, HeldIsSeq
    <3> QED BY <1>1, <1>2, <2>2, <3>1, CutOrdered DEF Ordered
  <2> QED BY <2>2, <2>3, <2>4, <2>5, <2>6 DEF IInv
<1>5. CASE session.outgoing /\ session.create_resolved
  <2>1. session' = session
    BY <1>5 DEF CreateFailed
  <2>2. Telling'
    BY <1>1, <1>2, <2>1, TakeTelling DEF Telling
  <2>3. Reading'
    BY <1>1, <1>2, <1>3, <2>1 DEF Reading
  <2>4. TypeOK'
    BY <1>1, <2>1 DEF IInv, TypeOK
  <2> QED BY <1>1, <1>2, <2>1, <2>2, <2>3, <2>4 DEF IInv, Waiting
<1>6. CASE session.outgoing /\ ~session.create_resolved
  <2>1. session' = [session EXCEPT !.create_resolved = TRUE, !.phase = "failed",
                                   !.pending_updates = <<>>]
    BY <1>6 DEF CreateFailed
  <2>2. /\ session' \in SessionType /\ session'.phase = "failed"
        /\ session'.stopping = session.stopping /\ session'.call_known = session.call_known
        /\ session'.outgoing = session.outgoing /\ session'.ringing = session.ringing
        /\ session'.create_resolved
        /\ session'.discard_sent = session.discard_sent
        /\ session'.heard = session.heard
        /\ session'.pending_signaling = session.pending_signaling
        /\ session'.pending_updates = <<>>
        /\ session'.media_started = session.media_started
        /\ session'.media_stopped = session.media_stopped /\ session'.cleanup = session.cleanup
    BY <1>2, <2>1, EmptySeq DEF SessionType, Phases
  <2>3. ~session.call_known /\ ~session.media_started /\ session.heard = <<>>
    BY <1>2, <1>6 DEF Consistent
  <2>4. Consistent(session') /\ Silenced(session')
    BY <1>2, <2>2, <2>3 DEF Consistent, Silenced, Final
  <2>5. TypeOK'
    BY <1>1, <2>2 DEF IInv, TypeOK
  <2>6. Telling'
    <3>1. Truthful(replay') /\ Truthful(session'.pending_updates)
      BY <1>1, <2>2, EmptySeq DEF Truthful
    <3> QED BY <1>1, <1>2, <1>3, <1>6, <2>2, <3>1, TakeTelling
  <2>7. Reading'
    BY <1>1, <2>2, EmptySeq DEF Reading
  <2>8. Ordered(session', Waiting', received')
    <3>1. session'.phase \notin Live /\ session'.heard = <<>> /\ Len(received') \in Nat
      BY <1>1, <1>2, <2>2, <2>3, LenProperties DEF Live
    <3> QED BY <3>1 DEF Ordered, Begins
  <2> QED BY <2>2, <2>4, <2>5, <2>6, <2>7, <2>8 DEF IInv
<1> QED BY <1>4, <1>5, <1>6

LEMMA DiscardFailedStep == IInv /\ DiscardFailed => IInv'
<1> SUFFICES ASSUME IInv, DiscardFailed PROVE IInv'
  OBVIOUS
<1>1. /\ Take("end_error") /\ received' = received /\ replay = <<>> /\ replay' = <<>>
      /\ wire' \in Seq(EventType) /\ UNCHANGED <<server, owed, discarded, signals, foreign>>
      /\ Head(wire).kind = "end_error"
      /\ \E j \in 1..Len(wire) : Head(wire) = wire[j]
  BY TakeLeaves DEF DiscardFailed
<1>2. /\ session \in SessionType /\ Consistent(session) /\ Silenced(session)
      /\ Telling /\ Reading /\ Ordered(session, Waiting, received) /\ received \in Seq(Nat)
  BY DEF IInv, TypeOK
<1>3. session.discard_sent /\ session.stopping /\ session.call_known
  BY <1>1, <1>2 DEF Telling, Consistent
<1>4. Alike(session, session') /\ session'.phase = "end_unconfirmed"
  BY <1>2 DEF DiscardFailed, SessionType, Alike, Kept, Phases
<1>5. session.phase \notin Live /\ session'.phase \notin Live
  BY <1>2, <1>3, <1>4 DEF Consistent, Live, Final
<1>6. Consistent(session') /\ Silenced(session')
  BY <1>2, <1>3, <1>4, <1>5 DEF Consistent, Silenced, Alike, Kept, Final
<1>7. TypeOK'
  BY <1>1, <1>4 DEF IInv, TypeOK, Alike
<1>8. Telling'
  <2>1. Truthful(replay') /\ Truthful(session'.pending_updates)
    BY <1>1, <1>2, <1>4 DEF Telling, Alike
  <2> QED BY <1>1, <1>3, <1>4, <2>1, TakeTelling DEF Alike, Kept
<1>9. Reading'
  BY <1>1, <1>4, EmptySeq DEF Reading
<1>10. Ordered(session', Waiting', received')
  BY <1>1, <1>2, <1>4, <1>5 DEF Ordered, Alike
<1> QED BY <1>4, <1>6, <1>7, <1>8, <1>9, <1>10 DEF IInv, Alike

LEMMA TruthfulAppend ==
  ASSUME NEW q \in Seq(EventType), NEW e \in EventType, Truthful(q),
         e.kind = "call" /\ e.call = "own" /\ e.state \in Over => IsOver
  PROVE  Truthful(Append(q, e))
<1>1. /\ Len(Append(q, e)) = Len(q) + 1 /\ Append(q, e)[Len(q) + 1] = e
      /\ \A i \in 1..Len(q) : Append(q, e)[i] = q[i]
      /\ Len(q) \in Nat
  BY AppendProperties, LenProperties
<1>2. \A i \in 1..Len(q) + 1 : i \in 1..Len(q) \/ i = Len(q) + 1
  BY <1>1
<1> QED BY <1>1, <1>2 DEF Truthful

LEMMA HandleUpdateStep == IInv /\ HandleUpdate => IInv'
<1> SUFFICES ASSUME IInv, HandleUpdate PROVE IInv'
  OBVIOUS
<1> DEFINE e == Head(wire)
<1>1. PICK k \in {"call", "signal"} : Take(k)
  BY DEF HandleUpdate
<1>2. /\ replay = <<>> /\ replay' = <<>>
      /\ wire' \in Seq(EventType) /\ UNCHANGED <<server, owed, discarded, signals, foreign>>
      /\ e \in EventType /\ e.kind = k
      /\ \A i \in 1..Len(wire') : \E j \in 1..Len(wire) : wire'[i] = wire[j]
      /\ \E j \in 1..Len(wire) : e = wire[j]
  BY <1>1, TakeLeaves DEF HandleUpdate
<1>3. /\ session \in SessionType /\ Consistent(session) /\ Silenced(session)
      /\ Telling /\ Reading /\ Ordered(session, Waiting, received) /\ received \in Seq(Nat)
      /\ session.pending_updates \in Seq(UpdateType) /\ Waiting = session.pending_updates
  BY <1>2, WaitingIs DEF IInv, TypeOK
<1>4. e \in UpdateType
  BY <1>2 DEF UpdateType, EventType
<1>5. session' \in Handle(session, e) /\ received' = Remember(session, e)
  BY DEF HandleUpdate
<1>6. Handled(session, e, session')
  BY <1>3, <1>4, <1>5, HandleHandled
<1> HIDE DEF e
<1>7. received' = IF Own(e) /\ session.phase \in Live THEN Append(received, e.data) ELSE received
  <2>1. session.phase \notin {"idle", "ended", "failed"} /\ ~session.stopping <=> session.phase \in Live
    BY <1>3 DEF Consistent, Live, Final, SessionType, Phases
  <2> QED BY <1>5, <2>1 DEF Remember, Own
<1>8. /\ Ordered(session', session'.pending_updates, received') /\ received' \in Seq(Nat)
  BY <1>3, <1>4, <1>6, <1>7, NewsOrdered
<1>9. /\ session' \in SessionType /\ session'.pending_updates \in Seq(UpdateType)
  BY <1>6 DEF Handled, SessionType, UpdateType
<1>10. Waiting' = session'.pending_updates
  BY <1>2, <1>9, UpdatesAreEvents DEF Waiting
<1>11. TypeOK'
  BY <1>2, <1>8, <1>9, EmptySeq DEF IInv, TypeOK
<1>12. e.kind = "call" /\ e.call = "own" /\ e.state \in Over => IsOver
  BY <1>2, <1>3 DEF Telling, Truthful
<1>13. Telling'
  <2>1. session'.phase \in {"ended", "failed"} => server \in Over \cup {"refused"}
    BY <1>3, <1>6, <1>12 DEF Handled, Telling, IsOver
  <2>2. Truthful(session'.pending_updates)
    <3>1. CASE session'.pending_updates = session.pending_updates
      BY <1>3, <3>1 DEF Telling
    <3>2. CASE session'.pending_updates = Append(session.pending_updates, e)
      <4>1. session.pending_updates \in Seq(EventType)
        BY <1>3, UpdatesAreEvents
      <4>2. e \in EventType /\ Truthful(session.pending_updates)
        BY <1>2, <1>3 DEF Telling
      <4> QED BY <1>12, <3>2, <4>1, <4>2, TruthfulAppend
    <3> QED BY <1>6, <3>1, <3>2 DEF Handled
  <2>3. Truthful(replay')
    BY <1>2, EmptySeq DEF Truthful
  <2>4. /\ session'.outgoing => session.outgoing
        /\ session.discard_sent => session'.discard_sent
        /\ session'.phase = "idle" => session.phase = "idle"
    BY <1>6 DEF Handled, Kept
  <2> QED BY <1>1, <2>1, <2>2, <2>3, <2>4, TakeTelling
<1>14. Reading'
  <2>1. session'.phase = "idle" => session.phase = "idle" /\ session'.pending_updates = session.pending_updates
    BY <1>6 DEF Handled
  <2>2. session.phase = "idle" => received' = received
    BY <1>7 DEF Live
  <2>3. session'.phase = "idle" =>
          \A i \in 1..Len(wire') : wire'[i].kind \in {"call", "signal"} /\ wire'[i].call = "other"
    BY <1>2, <1>3, <2>1 DEF Reading
  <2> QED BY <1>2, <1>3, <2>1, <2>2, <2>3, EmptySeq DEF Reading
<1> QED BY <1>6, <1>8, <1>10, <1>11, <1>13, <1>14 DEF IInv, Handled

LEMMA ReplayStep == IInv /\ Replay => IInv'
<1> SUFFICES ASSUME IInv, Replay PROVE IInv'
  OBVIOUS
<1> DEFINE e == Head(replay)
<1>1. /\ replay # <<>> /\ replay' = Tail(replay) /\ UNCHANGED <<received, wire, serverVars>>
      /\ session' \in Handle(session, e)
  BY DEF Replay
<1>2. /\ session \in SessionType /\ Consistent(session) /\ Silenced(session)
      /\ Telling /\ Reading /\ Ordered(session, Waiting, received) /\ received \in Seq(Nat)
      /\ replay \in Seq(UpdateType) /\ session.call_known
      /\ Waiting = replay /\ session.pending_updates = <<>>
  BY <1>1, WaitingIs DEF IInv, TypeOK, Reading
<1>3. /\ e \in UpdateType /\ replay' \in Seq(UpdateType) /\ replay[1] = e
      /\ Len(replay') = Len(replay) - 1 /\ Len(replay) \in Nat /\ Len(replay) >= 1
      /\ \A i \in 1..Len(replay') : replay'[i] = replay[i + 1]
  <2>1. Len(replay) # 0
    BY <1>1, <1>2, EmptySeq, SeqEqual
  <2> QED BY <1>1, <1>2, <2>1, HeadTailProperties, LenProperties
<1>4. Handled(session, e, session')
  BY <1>1, <1>2, <1>3, HandleHandled
<1>5. Ordered(session', replay', received')
  BY <1>1, <1>2, <1>4, ReplayOrdered
<1> HIDE DEF e
<1>6. session' \in SessionType /\ session'.pending_updates = <<>>
  BY <1>2, <1>4 DEF Handled
<1>7. Waiting' = replay'
  BY <1>3, <1>6, UpdatesAreEvents DEF Waiting
<1>8. TypeOK'
  <2>1. replay' \in Seq(EventType)
    BY <1>3, UpdatesAreEvents
  <2> QED BY <1>1, <1>6, <2>1 DEF IInv, TypeOK, serverVars
<1>9. /\ e.kind = "call" /\ e.call = "own" /\ e.state \in Over => IsOver
      /\ Truthful(replay')
  <2>1. Truthful(replay)
    BY <1>2 DEF Telling
  <2>2. 1 \in 1..Len(replay) /\ \A i \in 1..Len(replay') : i + 1 \in 1..Len(replay)
    BY <1>3
  <2> QED BY <1>3, <2>1, <2>2 DEF Truthful
<1>10. Telling'
  <2>1. session'.phase \in {"ended", "failed"} => server \in Over \cup {"refused"}
    BY <1>2, <1>4, <1>9 DEF Handled, Telling, IsOver
  <2>2. Truthful(session.pending_updates)'
    BY <1>6, EmptySeq DEF Truthful
  <2>3. Truthful(replay)' /\ Truthful(wire)'
    BY <1>1, <1>2, <1>9 DEF Truthful, IsOver, Telling, serverVars
  <2> QED BY <1>1, <1>2, <1>4, <2>1, <2>2, <2>3 DEF Telling, Handled, Kept, serverVars
<1>11. Reading'
  <2>1. session'.phase # "idle"
    BY <1>1, <1>2, <1>4 DEF Handled, Reading
  <2> QED BY <1>2, <1>3, <1>4, <2>1 DEF Reading, Handled, Kept
<1> QED BY <1>4, <1>5, <1>6, <1>7, <1>8, <1>10, <1>11 DEF IInv, Handled

-----------------------------------------------------------------------------
(* Telegram's steps.                                                           *)

\* Telegram does something and says so: the session is as it was.
LEMMA TelegramStep ==
  ASSUME IInv, NEW e \in EventType, Push(e), UNCHANGED <<session, replay, received>>,
         server' \in CallStates \cup {"none", "refused"},
         owed' \in BOOLEAN, discarded' \in BOOLEAN, signals' \in Nat, foreign' \in Nat,
         server \in Over => server' \in Over,
         server = "refused" => server' = "refused",
         e.kind = "call" /\ e.call = "own" /\ e.state \in Over => server' \in Over,
         e.kind = "create_error" /\ session.outgoing => server' = "refused",
         e.kind = "end_error" => session.discard_sent,
         owed' => session.phase # "idle",
         session.phase = "idle" =>
            server' = server /\ e.kind \in {"call", "signal"} /\ e.call = "other"
  PROVE  IInv'
<1>1. wire \in Seq(EventType) /\ wire' = Append(wire, e)
  BY DEF IInv, TypeOK, Push
<1>2. /\ Len(wire') = Len(wire) + 1 /\ wire'[Len(wire) + 1] = e /\ wire' \in Seq(EventType)
      /\ \A i \in 1..Len(wire) : wire'[i] = wire[i]
      /\ Len(wire) \in Nat
  BY <1>1, AppendProperties, LenProperties
<1>3. \A i \in 1..Len(wire') : wire'[i] = e \/ \E j \in 1..Len(wire) : wire'[i] = wire[j]
  <2>1. \A i \in 1..Len(wire') : i \in 1..Len(wire) \/ i = Len(wire) + 1
    BY <1>2
  <2> QED BY <1>2, <2>1
<1>4. TypeOK'
  BY <1>2 DEF IInv, TypeOK
<1>5. Telling /\ Reading
  BY DEF IInv
<1>6. Telling'
  <2>1. (session.phase \in {"ended", "failed"} => server \in Over \cup {"refused"})'
    BY <1>5 DEF Telling
  <2>2. Truthful(wire)' /\ Truthful(replay)' /\ Truthful(session.pending_updates)'
    BY <1>3, <1>5 DEF Telling, Truthful, IsOver
  <2>3. \A i \in 1..Len(wire') :
          /\ wire'[i].kind = "create_error" /\ session.outgoing => server' = "refused"
          /\ wire'[i].kind = "end_error" => session.discard_sent
    BY <1>3, <1>5 DEF Telling
  <2> QED BY <2>1, <2>2, <2>3 DEF Telling
<1>7. Reading'
  BY <1>3, <1>5 DEF Reading
<1> QED BY <1>4, <1>6, <1>7 DEF IInv, Waiting

LEMMA TelegramSteps == IInv /\ Telegram => IInv'
<1> SUFFICES ASSUME IInv, Telegram PROVE IInv'
  OBVIOUS
<1>1. /\ session \in SessionType /\ server \in CallStates \cup {"none", "refused"}
      /\ owed \in BOOLEAN /\ discarded \in BOOLEAN /\ signals \in Nat /\ foreign \in Nat
      /\ Consistent(session)
      /\ owed => session.phase # "idle"
      /\ session.phase = "idle" => server \in {"none", "pending"}
  BY DEF IInv, TypeOK, Telling, Reading
<1>2. \A k \in {"created", "create_error", "end_error"} :
         Event(k) \in EventType /\ Event(k).kind = k /\ Event(k).call = "own"
  BY DEF Event, EventType, CallStates
<1>3. \A c \in {"own", "other"}, st \in CallStates :
         /\ Update(c, st) \in EventType /\ Update(c, st).kind = "call"
         /\ Update(c, st).call = c /\ Update(c, st).state = st
  BY DEF Update, EventType
<1>4. \A c \in {"own", "other"}, n \in Nat :
         Signal(c, n) \in EventType /\ Signal(c, n).kind = "signal" /\ Signal(c, n).call = c
  BY DEF Signal, EventType, CallStates
<1>5. CASE ServerRefuses
  <2>1. /\ Push(Event("create_error")) /\ UNCHANGED <<session, replay, received>>
        /\ UNCHANGED <<discarded, signals, foreign>>
    BY <1>5 DEF ServerRefuses, sessionVars
  <2>2. CASE session.outgoing /\ session.phase # "idle" /\ server = "none"
             /\ server' = "refused" /\ owed' = FALSE
    BY <1>1, <1>2, <2>1, <2>2, TelegramStep DEF Over
  <2>3. CASE ~session.outgoing /\ owed /\ server' = server /\ owed' = FALSE
    BY <1>1, <1>2, <2>1, <2>3, TelegramStep
  <2> QED BY <1>5, <2>2, <2>3 DEF ServerRefuses
<1>6. CASE ServerCreates
  <2>1. /\ Push(Update("own", "pending")) /\ UNCHANGED <<session, replay, received>>
        /\ UNCHANGED <<discarded, signals, foreign>>
        /\ session.phase # "idle" /\ server = "none" /\ server' = "pending" /\ owed' = TRUE
    BY <1>6 DEF ServerCreates, sessionVars
  <2> QED BY <1>1, <1>3, <2>1, TelegramStep DEF Over, CallStates
<1>7. CASE ServerAnswers
  <2>1. /\ Push(Event("created")) /\ UNCHANGED <<session, replay, received>>
        /\ UNCHANGED <<server, discarded, signals, foreign>> /\ owed /\ owed' = FALSE
    BY <1>7 DEF ServerAnswers, sessionVars
  <2> QED BY <1>1, <1>2, <2>1, TelegramStep
<1>8. CASE ServerMoves
  <2>1. /\ Push(Update("own", server')) /\ UNCHANGED <<session, replay, received>>
        /\ UNCHANGED <<owed, discarded, signals, foreign>>
        /\ session.phase # "idle" /\ server' \in Successors(server)
    BY <1>8 DEF ServerMoves, sessionVars
  <2>2. server' \in CallStates /\ server \notin Over /\ server # "refused"
    BY <1>1, <2>1 DEF Successors, CallStates, Over
  <2> QED BY <1>1, <1>3, <2>1, <2>2, TelegramStep
<1>9. CASE PeerSignals
  <2>1. /\ Push(Signal("own", signals')) /\ UNCHANGED <<session, replay, received>>
        /\ UNCHANGED <<server, owed, discarded, foreign>>
        /\ server \in {"exchanging", "ready"} /\ signals' = signals + 1
    BY <1>9 DEF PeerSignals, sessionVars
  <2>2. signals' \in Nat /\ session.phase # "idle"
    BY <1>1, <2>1
  <2> QED BY <1>1, <1>4, <2>1, <2>2, TelegramStep
<1>10. CASE ServerDiscards
  <2>1. /\ UNCHANGED <<session, replay, received>> /\ UNCHANGED <<owed, signals, foreign>>
        /\ session.discard_sent /\ discarded' = TRUE
    BY <1>10 DEF ServerDiscards, sessionVars
  <2>2. session.phase # "idle"
    BY <1>1, <2>1 DEF Consistent, Final
  <2>3. CASE server \notin Over \cup {"refused"} /\ server' = "discarded"
             /\ Push(Update("own", "discarded"))
    BY <1>1, <1>3, <2>1, <2>2, <2>3, TelegramStep DEF Over, CallStates
  <2>4. CASE server' = server /\ Push(Event("end_error"))
    BY <1>1, <1>2, <2>1, <2>2, <2>4, TelegramStep
  <2> QED BY <1>10, <2>3, <2>4 DEF ServerDiscards
<1>11. CASE OtherCall
  <2>1. /\ UNCHANGED <<session, replay, received>> /\ UNCHANGED <<server, owed, discarded, signals>>
        /\ foreign' = foreign + 1
    BY <1>11 DEF OtherCall, sessionVars
  <2>2. foreign' \in Nat
    BY <1>1, <2>1
  <2>3. CASE \E st \in {"ready", "discarded"} : Push(Update("other", st))
    <3>1. PICK st \in {"ready", "discarded"} : Push(Update("other", st))
      BY <2>3
    <3>2. st \in CallStates
      BY DEF CallStates
    <3> QED BY <1>1, <1>3, <2>1, <2>2, <3>1, <3>2, TelegramStep
  <2>4. CASE Push(Signal("other", 0))
    BY <1>1, <1>4, <2>1, <2>2, <2>4, TelegramStep
  <2> QED BY <1>11, <2>3, <2>4 DEF OtherCall
<1> QED BY <1>5, <1>6, <1>7, <1>8, <1>9, <1>10, <1>11 DEF Telegram

-----------------------------------------------------------------------------
(* The theorems.                                                               *)

\* The invariant is inductive: it holds at first, and no step breaks it.
THEOREM Invariance == Spec => []IInv
<1>1. IInv /\ [Next]_vars => IInv'
  <2> SUFFICES ASSUME IInv, [Next]_vars PROVE IInv'
    OBVIOUS
  <2>1. CASE Hangup
    BY <2>1, EndStep DEF Hangup
  <2>2. CASE UNCHANGED vars
    BY <2>2 DEF IInv, TypeOK, Telling, Reading, Truthful, IsOver, Waiting, vars
  <2> QED BY <2>1, <2>2, StartStep, AcceptStep, GiveUpRingingStep, MediaEventStep, TickStep,
             TimePassesStep, CreateAnsweredStep, CreateFailedStep, DiscardFailedStep,
             HandleUpdateStep, ReplayStep, TelegramSteps DEF Next, Controller
<1> QED BY <1>1, InitHolds, PTL DEF Spec

\* Every variable, and every field of the session, keeps its type, whatever Telegram, the
\* engine and the clock do.
THEOREM TypeCorrect == Spec => []TypeOK
<1>1. IInv => TypeOK
  BY IInvImplies
<1> QED BY <1>1, Invariance, PTL

\* Whatever ends the call, an engine that was started has been told to stop, and a call that
\* only rings starts none: control.py stops the media before it gives up a live phase.
THEOREM MicrophoneReleased == Spec => []MediaReleased
<1>1. IInv => MediaReleased
  BY IInvImplies
<1> QED BY <1>1, Invariance, PTL

\* A session says "ended" or "failed" only of a call that is over or never was, and one that
\* is being ended and knows its call has asked Telegram to discard it.
THEOREM EndConfirmed == Spec => []EndIsConfirmed
<1>1. IInv => EndIsConfirmed
  BY IInvImplies
<1> QED BY <1>1, Invariance, PTL

\* The engine is given the signaling data in the order in which Telegram delivered them, for
\* every size of the two buffers: none is lost, repeated or taken from another call.
THEOREM SignalingOrdered == Spec => []SignalingInOrder
<1>1. IInv => SignalingInOrder
  BY IInvImplies
<1> QED BY <1>1, Invariance, PTL
=============================================================================
