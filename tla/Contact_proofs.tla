----------------------------- MODULE Contact_proofs -----------------------------
(***************************************************************************)
(* Proofs about Contact, for any number of requests, threads, texts, calls,*)
(* failures and crashes: types, that an operation is dialed once, that no  *)
(* call is placed over a text or a call that came in, and that the message *)
(* after an attempt is neither missing nor out of place.                   *)
(***************************************************************************)
EXTENDS Contact, SequenceTheorems, WellFoundedInduction, TLAPS

-----------------------------------------------------------------------------
(* The parts of the inductive invariant.                                   *)

\* An operation has been asked about its own request, and one that is completed says so;
\* of a request that has had none nothing is known.
Sound(r, o) ==
    /\ o \in OperationType
    /\ o.status = "none" => o = Unknown
    /\ o.status # "none" => r \in o.asked
    /\ o.status = "completed" => o.completed

Operations(O) == O \in [Requests -> OperationType] /\ \A r \in Requests : Sound(r, O[r])

World ==
    /\ ask \in [Requests -> {"unasked", "open", "closed"}]
    /\ threads \in [Threads -> {"alive", "archived", "missing"}]
    /\ session \in [kind : {"none", "out", "in"}, call : Int, op : Requests \cup {None}, over : BOOLEAN]
    /\ pending \in Nat /\ cancelled \subseteq Nat /\ generation \in Nat /\ recovered \in BOOLEAN
    /\ dials \in Seq([op : Requests, request : Requests])
    /\ count \in [{"rings", "followups", "failures", "losses", "crashes"} -> Nat]

\* An attempt, once begun, stays begun.
Begun(O, r) == O[r].attempt.phase # "none"

\* What a job is about, by its kind, with the operations, the texts and the calls so far.
Fits(j, O, texts, rings) ==
    /\ j \in JobType /\ j.generation <= texts
    /\ j.kind \in {"scan", "validate"} => j.op \in Requests \cup {None}
    /\ (j.kind = "validate" /\ ~j.done) => j.op \in Requests
    /\ (j.kind = "finish" /\ ~j.done) => j.op \in Requests /\ Begun(O, j.op)
    /\ j.kind = "incoming" => j.op > 0 /\ j.op <= rings

\* A job waits behind older jobs only: those before a text began before it came in.
Queue ==
    /\ jobs \in Seq(JobType) /\ \A i \in 1..Len(jobs) : Fits(jobs[i], ops, generation, count.rings)
    /\ \A i, j \in 1..Len(jobs) :
          (i < j /\ jobs[j].kind = "text") => jobs[i].generation < jobs[j].generation

\* A reservation on its way from the scan to the call.
Holds(j, r) == j.kind \in {"scan", "validate"} /\ j.op = r

\* There is one reservation of an operation, made in this run, and none once it was dialed.
Reservations ==
    /\ \A i, j \in 1..Len(jobs), r \in Requests : (Holds(jobs[i], r) /\ Holds(jobs[j], r)) => i = j
    /\ \A i \in 1..Len(jobs), r \in Requests :
          Holds(jobs[i], r) => /\ Begun(ops, r) /\ ops[r].attempt.run = count.crashes
                               /\ \A d \in 1..Len(dials) : dials[d].op # r
    /\ \A d \in 1..Len(dials) : Begun(ops, dials[d].op)
    /\ DialedOnce

\* The numbers of calls that may still be talked in.
UnderWay ==
    {c \in Int : \/ c = pending
                 \/ session.kind # "none" /\ c = session.call
                 \/ \E i \in 1..Len(jobs) : jobs[i].kind = "incoming" /\ c = jobs[i].op}

\* An attempt of an earlier run belongs to no call of this one, and the operation of the
\* call is one whose attempt this run began.
Calls ==
    /\ \A r \in Requests :
          LET a == ops[r].attempt
          IN  /\ a.run <= count.crashes /\ -Len(dials) <= a.call /\ a.call <= count.rings
              /\ (a.run < count.crashes /\ a.call # 0) => a.call \notin UnderWay
    /\ pending <= count.rings
    /\ session.kind # "none" =>
          session.call # 0 /\ -Len(dials) <= session.call /\ session.call <= count.rings
    /\ session.op # None =>
          session.kind # "none" /\ Begun(ops, session.op) /\ ops[session.op].attempt.run = count.crashes

IInv == Operations(ops) /\ World /\ Queue /\ Reservations /\ Calls /\ RestartMadeUp

-----------------------------------------------------------------------------
(* Reading T3 changes neither an attempt nor the message after it.         *)

LEMMA LowestIsMember ==
  ASSUME NEW S \in SUBSET Requests, S # {}
  PROVE  LowestOf(S) \in S
<1> DEFINE Less == OpToRel(<, Nat)
<1>1. Less = {ss \in Nat \X Nat : ss[1] < ss[2]}
  BY Zenon DEF OpToRel
<1>2. S \subseteq Nat
  BY DEF Requests
<1>3. PICK r \in S : \A q \in S : <<q, r>> \notin Less
  BY <1>2, NatLessThanWellFounded, WFMin
<1> HIDE DEF Less
<1>4. ASSUME NEW q \in S PROVE r <= q
  <2>1. CASE q < r
    <3>1. <<q, r>> \in Nat \X Nat /\ <<q, r>>[1] < <<q, r>>[2]
      BY <1>2, <2>1
    <3> QED BY <3>1, <1>1, <1>3
  <2> QED BY <2>1, <1>2
<1> QED BY <1>4 DEF LowestOf

\* What stays of an operation whatever T3 is found to ask.
Keeps(r, o, n) ==
    /\ Sound(r, n) /\ n.attempt = o.attempt /\ n.first = o.first
    /\ o.status # "none" => n.status # "none"
    /\ o.asked \subseteq n.asked

\* Nothing is open that was not.
StaysShut(o, n) == n.status = "open" => o.status \in {"open", "none"}

LEMMA ObserveFacts ==
  ASSUME NEW o \in OperationType, NEW open \in SUBSET Requests
  PROVE  /\ Observe(o, open) \in OperationType
         /\ Observe(o, open).attempt = o.attempt /\ Observe(o, open).first = o.first
         /\ Observe(o, open).status = o.status /\ Observe(o, open).deferred = o.deferred
         /\ o.asked \subseteq Observe(o, open).asked
<1>1. CASE open = {}
  BY <1>1 DEF Observe
<1>2. CASE open # {}
  <2> DEFINE q == LowestOf(open)
             asked == o.asked \cup {q}
  <2>1. q \in Requests
    BY <1>2, LowestIsMember
  <2>2. Observe(o, open) = [o EXCEPT !.request = q, !.asked = asked, !.submitted = FALSE, !.completed = FALSE]
    BY <1>2 DEF Observe, OperationType
  <2>3. asked \in SUBSET Requests /\ o.asked \subseteq asked
    BY <2>1 DEF OperationType
  <2> HIDE DEF q, asked
  <2> QED BY <2>1, <2>2, <2>3 DEF OperationType
<1> QED BY <1>1, <1>2

LEMMA BesideFacts == \A r : Beside(r, Pending) \subseteq Requests
                            /\ Beside(r, Pending \ {r}) \subseteq Requests
  BY DEF Beside, Pending

LEMMA RefreshFacts ==
  ASSUME NEW r \in Requests, NEW o, Sound(r, o), o.status # "none"
  PROVE  Keeps(r, o, Refresh(o)) /\ StaysShut(o, Refresh(o))
<1>1. CASE o.status = "completed"
  <2>1. Refresh(o) = o
    BY <1>1 DEF Refresh, Sound
  <2> QED BY <1>1, <2>1 DEF Keeps, StaysShut
<1>2. CASE o.status # "completed"
  <2> DEFINE d == IF o.submitted THEN Observe(o, Beside(o.request, Pending)) ELSE o
             status == IF d.completed THEN "completed"
                       ELSE IF d.deferred THEN "deferred"
                       ELSE IF ~o.submitted /\ o.request \notin Pending THEN "stale"
                       ELSE IF d.status = "completed" THEN "open" ELSE d.status
             n == [d EXCEPT !.status = status]
  <2>1. Refresh(o) = n
    BY <1>2 DEF Refresh
  <2>2. o \in OperationType
    BY DEF Sound
  <2>3. d \in OperationType /\ d.attempt = o.attempt /\ d.first = o.first /\ d.status = o.status
        /\ o.asked \subseteq d.asked
    BY <2>2, ObserveFacts, BesideFacts
  <2> HIDE DEF d
  <2>4. /\ status \in {"open", "deferred", "completed", "stale"}
        /\ status = "completed" => d.completed
        /\ status = "open" => d.status = "open"
    BY <1>2, <2>3 DEF OperationType
  <2> HIDE DEF status
  <2>5. n \in OperationType /\ n.attempt = o.attempt /\ n.first = o.first /\ n.status = status
        /\ n.completed = d.completed /\ n.asked = d.asked
    BY <2>3, <2>4 DEF OperationType
  <2> HIDE DEF n
  <2>6. r \in n.asked
    BY <2>3, <2>5 DEF Sound
  <2> QED BY <2>1, <2>3, <2>4, <2>5, <2>6 DEF Keeps, StaysShut, Sound
<1> QED BY <1>1, <1>2

LEMMA UnknownIsSound ==
  /\ Unknown \in OperationType /\ Unknown.status = "none" /\ Unknown.first = "none" /\ Unknown.asked = {}
  /\ Unknown.attempt = NoAttempt
  /\ NoAttempt \in AttemptType /\ NoAttempt.phase = "none" /\ NoAttempt.run = 0 /\ NoAttempt.call = 0
  /\ ~NoAttempt.suppressed
  BY ConstantsAssumption DEF Unknown, NoAttempt, OperationType, AttemptType, Requests

\* The same of all operations.
AllKeep(O, N) ==
    /\ N \in [Requests -> OperationType]
    /\ \A r \in Requests : Keeps(r, O[r], N[r]) /\ StaysShut(O[r], N[r])

LEMMA AllKeepFacts ==
  ASSUME NEW O, NEW N, AllKeep(O, N)
  PROVE  /\ Operations(N)
         /\ \A P : AllKeep(N, P) => AllKeep(O, P)
<1>1. Operations(N)
  BY DEF AllKeep, Operations, Keeps
<1>2. ASSUME NEW P, AllKeep(N, P), NEW r \in Requests PROVE Keeps(r, O[r], P[r]) /\ StaysShut(O[r], P[r])
  <2>1. Keeps(r, O[r], N[r]) /\ StaysShut(O[r], N[r]) /\ Keeps(r, N[r], P[r]) /\ StaysShut(N[r], P[r])
    BY <1>2 DEF AllKeep
  <2>2. Keeps(r, O[r], P[r])
    BY <2>1 DEF Keeps
  <2>3. StaysShut(O[r], P[r])
    BY <2>1 DEF Keeps, StaysShut
  <2> QED BY <2>2, <2>3
<1> QED BY <1>1, <1>2 DEF AllKeep

LEMMA SameKeeps == \A r \in Requests : \A o : Sound(r, o) => Keeps(r, o, o) /\ StaysShut(o, o)
  BY DEF Keeps, StaysShut, Sound, OperationType

LEMMA OpenOperationsFacts ==
  ASSUME NEW O, Operations(O)
  PROVE  AllKeep(O, OpenOperations(O))
<1> DEFINE N == OpenOperations(O)
<1>1. ASSUME NEW r \in Requests PROVE Keeps(r, O[r], N[r]) /\ StaysShut(O[r], N[r])
  <2>1. Sound(r, O[r])
    BY DEF Operations
  <2>2. CASE O[r].status \notin Contactable
    <3>1. N[r] = O[r]
      BY <2>2 DEF OpenOperations
    <3> HIDE DEF N
    <3> QED BY <2>1, <3>1, SameKeeps
  <2>3. CASE O[r].status \in Contactable /\ Alive(O[r])
    <3>1. N[r] = Refresh(O[r]) /\ O[r].status # "none"
      BY <2>3 DEF OpenOperations, Contactable
    <3> HIDE DEF N
    <3> QED BY <2>1, <3>1, RefreshFacts
  <2>4. CASE O[r].status \in Contactable /\ ~Alive(O[r])
    <3> DEFINE n == [O[r] EXCEPT !.status = "stale"]
    <3>1. N[r] = n /\ O[r].status # "none"
      BY <2>4 DEF OpenOperations, Contactable
    <3>2. n \in OperationType /\ n.attempt = O[r].attempt /\ n.first = O[r].first /\ n.status = "stale"
          /\ n.asked = O[r].asked
      BY <2>1 DEF OperationType, Sound
    <3> HIDE DEF N, n
    <3> QED BY <2>1, <3>1, <3>2 DEF Keeps, StaysShut, Sound
  <2> QED BY <2>2, <2>3, <2>4
<1>2. N \in [Requests -> OperationType]
  <2>1. N = [r \in Requests |-> N[r]]
    BY DEF OpenOperations
  <2> HIDE DEF N
  <2> QED BY <1>1, <2>1 DEF Keeps, Sound
<1> HIDE DEF N
<1>3. AllKeep(O, N)
  BY <1>1, <1>2 DEF AllKeep
<1> QED BY <1>3 DEF N

\* Only a request that no operation was asked about, the one of its own included, becomes
\* an operation.
LEMMA DiscoverFacts ==
  ASSUME NEW O, Operations(O), NEW due \in SUBSET Requests
  PROVE  AllKeep(O, Discover(O, due))
<1> DEFINE R == [r \in Requests |->
                   IF /\ O[r].status \in Contactable /\ O[r].submitted
                      /\ Beside(O[r].request, Pending) # {}
                   THEN Refresh(O[r]) ELSE O[r]]
           new == {r \in due : \A q \in Requests : r \notin R[q].asked}
           N == [r \in Requests |-> IF r \in new THEN NewOperation(r) ELSE R[r]]
<1>1. Discover(O, due) = N
  BY DEF Discover
<1>2. ASSUME NEW r \in Requests PROVE Keeps(r, O[r], R[r]) /\ StaysShut(O[r], R[r])
  <2>1. Sound(r, O[r])
    BY DEF Operations
  <2>2. CASE /\ O[r].status \in Contactable /\ O[r].submitted
             /\ Beside(O[r].request, Pending) # {}
    <3>1. R[r] = Refresh(O[r]) /\ O[r].status # "none"
      BY <2>2 DEF Contactable
    <3> HIDE DEF R
    <3> QED BY <2>1, <3>1, RefreshFacts
  <2>3. CASE ~(/\ O[r].status \in Contactable /\ O[r].submitted
               /\ Beside(O[r].request, Pending) # {})
    <3>1. R[r] = O[r]
      BY <2>3
    <3> HIDE DEF R
    <3> QED BY <2>1, <3>1, SameKeeps
  <2> QED BY <2>2, <2>3
<1> HIDE DEF R
<1>3. ASSUME NEW r \in Requests PROVE Keeps(r, O[r], N[r]) /\ StaysShut(O[r], N[r])
  <2>1. CASE r \notin new
    BY <1>2, <2>1
  <2>2. CASE r \in new
    <3>1. r \notin O[r].asked
      BY <1>2, <2>2 DEF Keeps
    <3>2. O[r] = Unknown
      BY <3>1 DEF Operations, Sound
    <3>3. N[r] = NewOperation(r)
      BY <2>2
    <3>4. /\ NewOperation(r) \in OperationType /\ NewOperation(r).status = "open"
          /\ NewOperation(r).attempt = NoAttempt /\ NewOperation(r).first = "none"
          /\ NewOperation(r).asked = {r}
      BY UnknownIsSound DEF NewOperation, OperationType, Unknown
    <3> HIDE DEF N
    <3> QED BY <3>2, <3>3, <3>4, UnknownIsSound DEF Keeps, StaysShut, Sound
  <2> QED BY <2>1, <2>2
<1>4. N \in [Requests -> OperationType]
  <2>1. N = [r \in Requests |-> N[r]]
    OBVIOUS
  <2> HIDE DEF N
  <2> QED BY <1>3, <2>1 DEF Keeps, Sound
<1> HIDE DEF N
<1>5. AllKeep(O, N)
  BY <1>3, <1>4 DEF AllKeep
<1> QED BY <1>1, <1>5

-----------------------------------------------------------------------------
(* Nor does a dialog turn.                                                 *)

LEMMA SettledFacts ==
  ASSUME NEW r \in Requests, NEW o, o \in OperationType, r \in o.asked
  PROVE  /\ Sound(r, Settled(o)) /\ Settled(o).attempt = o.attempt /\ Settled(o).first = o.first
         /\ Settled(o).status # "none" /\ Settled(o).asked = o.asked
<1> DEFINE status == IF o.completed THEN "completed" ELSE IF o.deferred THEN "deferred" ELSE "open"
<1>1. Settled(o) = [o EXCEPT !.status = status]
  BY DEF Settled
<1>2. status \in {"completed", "deferred", "open"} /\ (status = "completed" => o.completed)
  BY DEF OperationType
<1> HIDE DEF status
<1> QED BY <1>1, <1>2 DEF OperationType, Sound

LEMMA TalkFacts ==
  ASSUME NEW r \in Requests, NEW o, o \in OperationType, r \in o.asked, NEW out \in Talk(o)
  PROVE  Keeps(r, o, out.op)
<1> DEFINE seen == IF o.submitted THEN Observe(o, Beside(o.request, Pending)) ELSE o
           later == [seen EXCEPT !.deferred = TRUE]
           done == [o EXCEPT !.completed = TRUE]
           rest == Beside(o.request, Pending \ {o.request})
           sent(b) == [o EXCEPT !.submitted = TRUE, !.completed = b]
<1>1. seen \in OperationType /\ seen.attempt = o.attempt /\ seen.first = o.first /\ o.asked \subseteq seen.asked
  BY ObserveFacts, BesideFacts
<1>2. \/ out.op = Settled(seen) \/ out.op = Settled(later) \/ out.op = Settled(done)
      \/ \E b \in BOOLEAN : out.op = Settled(Observe(sent(b), rest))
  <2> DEFINE said == {[op |-> Settled(seen), answered |-> {}], [op |-> Settled(later), answered |-> {}]}
             told == {[op |-> Settled(Observe(sent(b), rest)), answered |-> {o.request}] : b \in BOOLEAN}
  <2>1. Talk(o) = IF o.submitted /\ seen # o THEN {[op |-> Settled(seen), answered |-> {}]}
                  ELSE IF o.submitted THEN said \cup {[op |-> Settled(done), answered |-> {}]}
                  ELSE IF o.request \notin Pending THEN said ELSE said \cup told
    BY Zenon DEF Talk
  <2> HIDE DEF seen, later, done, rest, sent
  <2>2. out \in said => out.op = Settled(seen) \/ out.op = Settled(later)
    OBVIOUS
  <2>3. ASSUME out \in told PROVE \E b \in BOOLEAN : out.op = Settled(Observe(sent(b), rest))
    <3>1. PICK b \in BOOLEAN : out = [op |-> Settled(Observe(sent(b), rest)), answered |-> {o.request}]
      BY <2>3
    <3> QED BY <3>1
  <2>4. \/ out \in said \/ out \in told \/ out = [op |-> Settled(seen), answered |-> {}]
        \/ out = [op |-> Settled(done), answered |-> {}]
    <3> HIDE DEF said, told
    <3> QED BY <2>1
  <2> QED BY <2>2, <2>3, <2>4
<1> HIDE DEF seen
<1>3. later \in OperationType /\ later.attempt = o.attempt /\ later.first = o.first /\ o.asked \subseteq later.asked
  BY <1>1 DEF OperationType
<1>4. done \in OperationType /\ done.attempt = o.attempt /\ done.first = o.first /\ o.asked \subseteq done.asked
  BY DEF OperationType
<1>5. rest \subseteq Requests
  BY BesideFacts
<1>6. ASSUME NEW b \in BOOLEAN
      PROVE  /\ sent(b) \in OperationType /\ sent(b).attempt = o.attempt /\ sent(b).first = o.first
             /\ sent(b).asked = o.asked
  BY DEF OperationType
<1> HIDE DEF later, done, rest, sent
<1>7. ASSUME NEW b \in BOOLEAN
      PROVE  /\ Observe(sent(b), rest) \in OperationType /\ Observe(sent(b), rest).attempt = o.attempt
             /\ Observe(sent(b), rest).first = o.first /\ o.asked \subseteq Observe(sent(b), rest).asked
  BY <1>5, <1>6, ObserveFacts
<1>8. ASSUME NEW p, p \in OperationType, p.attempt = o.attempt, p.first = o.first, o.asked \subseteq p.asked,
             out.op = Settled(p)
      PROVE  Keeps(r, o, out.op)
  BY <1>8, SettledFacts DEF Keeps
<1> QED BY <1>1, <1>2, <1>3, <1>4, <1>7, <1>8

LEMMA RespondFacts ==
  ASSUME NEW r \in Requests, NEW o, Sound(r, o), o.status # "none", NEW out \in Respond(o)
  PROVE  Keeps(r, o, out.op)
<1> DEFINE seen == Refresh(o)
           completed == seen.completed /\ seen.status # "completed"
           fresh == [seen EXCEPT !.status = "open", !.deferred = FALSE, !.completed = completed]
           later == [seen EXCEPT !.deferred = TRUE, !.status = "deferred"]
<1>1. Keeps(r, o, seen)
  BY RefreshFacts
<1>2. \/ out.op = o \/ out.op = seen \/ out.op = later \/ out \in Talk(fresh)
  <2>1. fresh = [seen EXCEPT !.status = "open", !.deferred = FALSE, !.completed = @ /\ seen.status # "completed"]
    BY <1>1 DEF Keeps, Sound, OperationType
  <2> QED BY <2>1 DEF Respond
<1> HIDE DEF seen
<1>3. seen \in OperationType /\ seen.attempt = o.attempt /\ seen.first = o.first
      /\ o.asked \subseteq seen.asked /\ r \in o.asked
  BY <1>1 DEF Keeps, Sound
<1>4. later \in OperationType /\ later.attempt = o.attempt /\ later.first = o.first /\ later.status = "deferred"
      /\ later.asked = seen.asked
  BY <1>3 DEF OperationType
<1>5. completed \in BOOLEAN
  BY <1>3 DEF OperationType
<1> HIDE DEF completed
<1>6. fresh \in OperationType /\ fresh.attempt = o.attempt /\ fresh.first = o.first /\ fresh.asked = seen.asked
      /\ fresh.status # "none"
  BY <1>3, <1>5 DEF OperationType
<1> HIDE DEF later, fresh
<1>7. CASE out.op = o
  BY <1>7, SameKeeps
<1>8. CASE out.op = seen
  BY <1>1, <1>8
<1>9. CASE out.op = later
  BY <1>3, <1>4, <1>9 DEF Keeps, Sound
<1>10. CASE out \in Talk(fresh)
  <2>1. Keeps(r, fresh, out.op)
    BY <1>3, <1>6, <1>10, TalkFacts
  <2> QED BY <1>3, <1>6, <2>1 DEF Keeps
<1> QED BY <1>2, <1>7, <1>8, <1>9, <1>10

-----------------------------------------------------------------------------
(* What any step may do to an operation.                                   *)

\* An operation that is open after an earlier run's attempt has its message, or a text.
Made(o) ==
    (o.status = "open" /\ o.attempt.phase # "none" /\ o.attempt.run < count.crashes)
        => (o.first # "none" \/ o.attempt.suppressed)

\* The attempt stays, ends or is begun anew in this run, for the call that is under way.
Onward(a, b) ==
    /\ a.phase # "none" => b.phase # "none"
    /\ \/ b.run = a.run /\ b.call \in {0, a.call}
       \/ b.run = count.crashes /\ (b.call = 0 \/ (session.kind # "none" /\ b.call = session.call))

\* No message follows an attempt that a text suppressed.
Quiet(o, n) == (o.attempt.suppressed /\ n.first = "reserved") => o.first = "reserved"

Moves(r, o, n) ==
    Sound(r, n) /\ Onward(o.attempt, n.attempt) /\ Quiet(o, n) /\ (Made(o) => Made(n))

LEMMA KeptMoves ==
  ASSUME NEW r \in Requests, NEW o, Sound(r, o), NEW k, Keeps(r, o, k)
  PROVE  /\ StaysShut(o, k) => Moves(r, o, k)
         /\ Made(k) => Moves(r, o, k)
<1>1. Sound(r, k) /\ Onward(o.attempt, k.attempt) /\ Quiet(o, k)
  BY DEF Keeps, Onward, Quiet
<1>2. ASSUME StaysShut(o, k), Made(o) PROVE Made(k)
  <2>1. o.status = "none" => o.attempt.phase = "none"
    BY UnknownIsSound DEF Sound
  <2> QED BY <1>2, <2>1 DEF StaysShut, Made, Keeps
<1> QED BY <1>1, <1>2 DEF Moves

\* A change after reading T3 is a change.
LEMMA ReadThenMoves ==
  ASSUME NEW r \in Requests, NEW o, Sound(r, o), NEW k, Keeps(r, o, k), StaysShut(o, k),
         NEW n, Moves(r, k, n)
  PROVE  Moves(r, o, n)
<1>1. Moves(r, o, k)
  BY KeptMoves
<1>2. Sound(r, n) /\ (Made(o) => Made(n))
  BY <1>1 DEF Moves
<1>3. Onward(o.attempt, n.attempt) /\ Quiet(o, n)
  BY DEF Moves, Keeps, Onward, Quiet
<1> QED BY <1>2, <1>3 DEF Moves

\* The attempts the operators write.
LEMMA PhaseFacts ==
  ASSUME NEW b \in AttemptType, NEW p \in {"none", "starting", "incoming", "finished"},
         NEW a, a = [b EXCEPT !.phase = p]
  PROVE  a \in AttemptType /\ a.phase = p /\ a.call = b.call /\ a.run = b.run
         /\ a.suppressed = b.suppressed
  BY DEF AttemptType

LEMMA CallFacts ==
  ASSUME NEW b \in AttemptType, NEW c \in Int,
         NEW a, a = [b EXCEPT !.call = c]
  PROVE  a \in AttemptType /\ a.phase = b.phase /\ a.call = c /\ a.run = b.run
         /\ a.suppressed = b.suppressed
  BY DEF AttemptType

LEMMA RunFacts ==
  ASSUME NEW b \in AttemptType, NEW n \in Nat,
         NEW a, a = [b EXCEPT !.run = n]
  PROVE  a \in AttemptType /\ a.phase = b.phase /\ a.call = b.call /\ a.run = n
         /\ a.suppressed = b.suppressed
  BY DEF AttemptType

LEMMA AttemptFacts ==
  /\ \A b \in AttemptType :
        LET a == [b EXCEPT !.phase = "finished", !.call = 0]
        IN  a \in AttemptType /\ a.phase = "finished" /\ a.call = 0 /\ a.run = b.run
            /\ a.suppressed = b.suppressed
  /\ \A c \in Int, run \in Nat :
        LET a == [NoAttempt EXCEPT !.phase = "incoming", !.call = c, !.run = run]
        IN  a \in AttemptType /\ a.phase = "incoming" /\ a.call = c /\ a.run = run /\ ~a.suppressed
  /\ \A run \in Nat :
        LET a == [NoAttempt EXCEPT !.phase = "starting", !.run = run]
        IN  a \in AttemptType /\ a.phase = "starting" /\ a.call = 0 /\ a.run = run /\ ~a.suppressed
<1>1. ASSUME NEW b \in AttemptType
      PROVE  LET a == [b EXCEPT !.phase = "finished", !.call = 0]
             IN  a \in AttemptType /\ a.phase = "finished" /\ a.call = 0 /\ a.run = b.run
                 /\ a.suppressed = b.suppressed
  <2> DEFINE a1 == [b EXCEPT !.phase = "finished"]
             a == [a1 EXCEPT !.call = 0]
  <2>1. [b EXCEPT !.phase = "finished", !.call = 0] = a
    BY DEF AttemptType
  <2>2. a1 \in AttemptType /\ a1.phase = "finished" /\ a1.run = b.run /\ a1.suppressed = b.suppressed
    BY PhaseFacts
  <2> HIDE DEF a1
  <2>3. a \in AttemptType /\ a.phase = "finished" /\ a.call = 0 /\ a.run = b.run
        /\ a.suppressed = b.suppressed
    BY <2>2, CallFacts
  <2> HIDE DEF a
  <2> QED BY <2>1, <2>3
<1>2. ASSUME NEW c \in Int, NEW run \in Nat
      PROVE  LET a == [NoAttempt EXCEPT !.phase = "incoming", !.call = c, !.run = run]
             IN  a \in AttemptType /\ a.phase = "incoming" /\ a.call = c /\ a.run = run /\ ~a.suppressed
  <2> DEFINE a1 == [NoAttempt EXCEPT !.phase = "incoming"]
             a2 == [a1 EXCEPT !.call = c]
             a == [a2 EXCEPT !.run = run]
  <2>1. [NoAttempt EXCEPT !.phase = "incoming", !.call = c, !.run = run] = a
    BY DEF NoAttempt
  <2>2. a1 \in AttemptType /\ a1.phase = "incoming" /\ a1.suppressed = NoAttempt.suppressed
    BY UnknownIsSound, PhaseFacts
  <2> HIDE DEF a1
  <2>3. a2 \in AttemptType /\ a2.phase = "incoming" /\ a2.call = c /\ a2.suppressed = NoAttempt.suppressed
    BY <2>2, CallFacts
  <2> HIDE DEF a2
  <2>4. a \in AttemptType /\ a.phase = "incoming" /\ a.call = c /\ a.run = run
        /\ a.suppressed = NoAttempt.suppressed
    BY <2>3, RunFacts
  <2> HIDE DEF a
  <2> QED BY <2>1, <2>4, UnknownIsSound
<1>3. ASSUME NEW run \in Nat
      PROVE  LET a == [NoAttempt EXCEPT !.phase = "starting", !.run = run]
             IN  a \in AttemptType /\ a.phase = "starting" /\ a.call = 0 /\ a.run = run /\ ~a.suppressed
  <2> DEFINE a1 == [NoAttempt EXCEPT !.phase = "starting"]
             a == [a1 EXCEPT !.run = run]
  <2>1. [NoAttempt EXCEPT !.phase = "starting", !.run = run] = a
    BY DEF NoAttempt
  <2>2. a1 \in AttemptType /\ a1.phase = "starting" /\ a1.call = 0 /\ a1.suppressed = NoAttempt.suppressed
    BY UnknownIsSound, PhaseFacts
  <2> HIDE DEF a1
  <2>3. a \in AttemptType /\ a.phase = "starting" /\ a.call = 0 /\ a.run = run
        /\ a.suppressed = NoAttempt.suppressed
    BY <2>2, RunFacts
  <2> HIDE DEF a
  <2> QED BY <2>1, <2>3, UnknownIsSound
<1> QED BY <1>1, <1>2, <1>3

LEMMA ConcludedFacts ==
  ASSUME NEW r \in Requests, NEW o, Sound(r, o), o.attempt.phase # "none"
  PROVE  /\ Moves(r, o, Concluded(o)) /\ o.status # "none" /\ Concluded(o).status = o.status
         /\ Concluded(o).first = o.first
         /\ Concluded(o).attempt.suppressed = o.attempt.suppressed
         /\ Concluded(o).attempt.phase # "none"
<1> DEFINE a == [o.attempt EXCEPT !.phase = "finished", !.call = 0]
           n == Concluded(o)
<1>1. o \in OperationType /\ o.attempt \in AttemptType
  BY DEF Sound, OperationType
<1>2. a \in AttemptType /\ a.phase = "finished" /\ a.call = 0 /\ a.run = o.attempt.run
      /\ a.suppressed = o.attempt.suppressed
  BY <1>1, AttemptFacts
<1>3. n = [o EXCEPT !.attempt = a]
  <2>1. n = [o EXCEPT !.attempt = [[@ EXCEPT !.phase = "finished"] EXCEPT !.call = 0]]
    BY <1>1 DEF Concluded, OperationType, AttemptType
  <2> QED BY <2>1, <1>1 DEF AttemptType
<1> HIDE DEF a, n
<1>4. /\ n \in OperationType /\ n.attempt = a /\ n.status = o.status /\ n.first = o.first
      /\ n.asked = o.asked /\ n.completed = o.completed
  BY <1>1, <1>2, <1>3 DEF OperationType
<1>5. o.status # "none"
  BY UnknownIsSound DEF Sound
<1>6. Sound(r, n)
  BY <1>4, <1>5 DEF Sound
<1>7. Onward(o.attempt, n.attempt) /\ Quiet(o, n) /\ (Made(o) => Made(n))
  BY <1>2, <1>4 DEF Onward, Quiet, Made
<1>8. Moves(r, o, n)
  BY <1>6, <1>7 DEF Moves
<1> QED BY <1>2, <1>4, <1>5, <1>8 DEF n

\* The end of an attempt leaves an open question with its message, unless a text came in.
LEMMA FinishAttemptFacts ==
  ASSUME NEW r \in Requests, NEW o, Sound(r, o), o.attempt.phase # "none"
  PROVE  Moves(r, o, FinishAttempt(o)) /\ Made(FinishAttempt(o))
<1> DEFINE k == Concluded(o)
           c == Refresh(k)
           n == FinishAttempt(o)
           reserves == c.status = "open" /\ c.first = "none" /\ ~c.attempt.suppressed
<1>1. /\ Moves(r, o, k) /\ k.status # "none" /\ k.first = o.first
      /\ k.attempt.suppressed = o.attempt.suppressed /\ Sound(r, k)
  BY ConcludedFacts DEF Moves
<1>2. n = IF reserves THEN [c EXCEPT !.first = "reserved"] ELSE c
  BY DEF FinishAttempt
<1> HIDE DEF k
<1>3. Keeps(r, k, c) /\ StaysShut(k, c)
  BY <1>1, RefreshFacts
<1> HIDE DEF c
<1>4. Sound(r, c) /\ Onward(o.attempt, c.attempt) /\ c.first = o.first
      /\ c.attempt.suppressed = o.attempt.suppressed /\ c.status # "none"
  <2>1. c.attempt = k.attempt /\ c.first = k.first /\ Sound(r, c) /\ c.status # "none"
    BY <1>1, <1>3 DEF Keeps
  <2> QED BY <1>1, <2>1 DEF Moves
<1>5. CASE reserves
  <2>1. n = [c EXCEPT !.first = "reserved"]
    BY <1>2, <1>5
  <2>2. n \in OperationType /\ n.first = "reserved" /\ n.attempt = c.attempt /\ n.status = c.status
        /\ n.asked = c.asked /\ n.completed = c.completed
    BY <1>4, <2>1 DEF OperationType, Sound
  <2>3. ~o.attempt.suppressed
    BY <1>4, <1>5
  <2> HIDE DEF n
  <2>4. Sound(r, n)
    BY <1>4, <2>2 DEF Sound
  <2>5. Onward(o.attempt, n.attempt) /\ Quiet(o, n) /\ Made(n)
    BY <1>4, <2>2, <2>3 DEF Quiet, Made
  <2>6. Moves(r, o, n) /\ Made(n)
    BY <2>4, <2>5 DEF Moves
  <2> QED BY <2>6 DEF n
<1>6. CASE ~reserves
  <2>1. n = c
    BY <1>2, <1>6
  <2>2. Made(c)
    BY <1>6 DEF Made
  <2>3. Quiet(o, c)
    BY <1>4 DEF Quiet
  <2> HIDE DEF n
  <2>4. Moves(r, o, n) /\ Made(n)
    BY <1>4, <2>1, <2>2, <2>3 DEF Moves
  <2> QED BY <2>4 DEF n
<1> QED BY <1>5, <1>6

\* A new attempt belongs to this run.
LEMMA NewAttemptFacts ==
  ASSUME NEW r \in Requests, NEW o, Sound(r, o), o.status # "none", count.crashes \in Nat,
         NEW a \in AttemptType, a.phase \in {"starting", "incoming"}, ~a.suppressed,
         a.run = count.crashes, a.call = 0 \/ (session.kind # "none" /\ a.call = session.call),
         NEW n, n.attempt = a, n \in OperationType, n.status = o.status, n.asked = o.asked,
         n.completed = o.completed, n.first \in {o.first, "none"}
  PROVE  Moves(r, o, n) /\ Made(n) /\ n.attempt.phase # "none" /\ n.attempt.run = count.crashes
<1>2. Sound(r, n)
  BY DEF Sound
<1>3. Onward(o.attempt, n.attempt) /\ Quiet(o, n) /\ Made(n)
  BY DEF Onward, Quiet, Made
<1> QED BY <1>2, <1>3 DEF Moves

LEMMA ReserveFacts ==
  ASSUME NEW r \in Requests, NEW o, Sound(r, o), o.status # "none", count.crashes \in Nat
  PROVE  /\ Moves(r, o, Reserve(o)) /\ Made(Reserve(o)) /\ Reserve(o).attempt.phase # "none"
         /\ Reserve(o).attempt.run = count.crashes /\ Reserve(o).attempt.call = 0
         /\ Reserve(o).first = o.first
<1> DEFINE a == [NoAttempt EXCEPT !.phase = "starting", !.run = count.crashes]
           n == Reserve(o)
<1>1. a \in AttemptType /\ a.phase = "starting" /\ a.call = 0 /\ a.run = count.crashes /\ ~a.suppressed
  BY AttemptFacts
<1>2. n = [o EXCEPT !.attempt = a]
  BY DEF Reserve
<1> HIDE DEF a, n
<1>3. n \in OperationType /\ n.attempt = a /\ n.status = o.status /\ n.asked = o.asked
      /\ n.completed = o.completed /\ n.first = o.first
  BY <1>1, <1>2 DEF OperationType, Sound
<1>4. Moves(r, o, n) /\ Made(n) /\ n.attempt.phase # "none" /\ n.attempt.run = count.crashes
      /\ n.attempt.call = 0 /\ n.first = o.first
  BY <1>1, <1>3, NewAttemptFacts
<1> QED BY <1>4 DEF n

LEMMA BeginIncomingFacts ==
  ASSUME NEW r \in Requests, NEW o, Sound(r, o), o.status # "none", count.crashes \in Nat,
         session.kind # "none", session.call \in Int
  PROVE  LET n == BeginIncoming(o, session.call)
         IN  /\ Moves(r, o, n) /\ n.attempt.phase # "none"
             /\ (n.attempt.run = count.crashes
                 \/ (n.attempt.run = o.attempt.run /\ o.attempt.call = session.call))
<1> DEFINE a == [NoAttempt EXCEPT !.phase = "incoming", !.call = session.call, !.run = count.crashes]
           n == BeginIncoming(o, session.call)
<1>1. CASE o.attempt.phase # "none" /\ o.attempt.call = session.call
  <2>1. n = o
    BY <1>1 DEF BeginIncoming
  <2>2. Moves(r, o, o)
    BY SameKeeps, KeptMoves
  <2> HIDE DEF n
  <2>3. Moves(r, o, n) /\ n.attempt.phase # "none" /\ n.attempt.run = o.attempt.run
        /\ o.attempt.call = session.call
    BY <1>1, <2>1, <2>2
  <2> QED BY <2>3 DEF n
<1>2. CASE ~(o.attempt.phase # "none" /\ o.attempt.call = session.call)
  <2>1. a \in AttemptType /\ a.phase = "incoming" /\ a.call = session.call /\ a.run = count.crashes
        /\ ~a.suppressed
    BY AttemptFacts
  <2>2. n = [o EXCEPT !.attempt = a, !.first = "none"]
    BY <1>2 DEF BeginIncoming
  <2> HIDE DEF a, n
  <2>3. n \in OperationType /\ n.attempt = a /\ n.status = o.status /\ n.asked = o.asked
        /\ n.completed = o.completed /\ n.first = "none"
    BY <2>1, <2>2 DEF OperationType, Sound
  <2>4. Moves(r, o, n) /\ n.attempt.phase # "none" /\ n.attempt.run = count.crashes
    BY <2>1, <2>3, NewAttemptFacts
  <2> QED BY <2>4 DEF n
<1> QED BY <1>1, <1>2

-----------------------------------------------------------------------------
(* The operations over the worker's jobs.                                  *)

AllMove(O, N) == N \in [Requests -> OperationType] /\ \A r \in Requests : Moves(r, O[r], N[r])

LEMMA AllMoveSound ==
  ASSUME NEW O, NEW N, AllMove(O, N)
  PROVE  Operations(N)
  BY DEF AllMove, Operations, Moves

LEMMA ReadMoves ==
  ASSUME NEW O, Operations(O), NEW N, AllKeep(O, N)
  PROVE  AllMove(O, N)
<1>1. ASSUME NEW r \in Requests PROVE Moves(r, O[r], N[r])
  <2>1. Sound(r, O[r]) /\ Keeps(r, O[r], N[r]) /\ StaysShut(O[r], N[r])
    BY DEF Operations, AllKeep
  <2> QED BY <2>1, KeptMoves
<1> QED BY <1>1 DEF AllMove, AllKeep

LEMMA SameMoves ==
  ASSUME NEW O, Operations(O)
  PROVE  AllKeep(O, O) /\ AllMove(O, O)
<1>1. AllKeep(O, O)
  BY SameKeeps DEF AllKeep, Operations
<1> QED BY <1>1, ReadMoves

\* What is found in T3, then a change of each.
LEMMA ReadThenAllMove ==
  ASSUME NEW O, Operations(O), NEW K, AllKeep(O, K), NEW N, AllMove(K, N)
  PROVE  AllMove(O, N)
<1>1. ASSUME NEW r \in Requests PROVE Moves(r, O[r], N[r])
  <2>1. Sound(r, O[r]) /\ Keeps(r, O[r], K[r]) /\ StaysShut(O[r], K[r]) /\ Moves(r, K[r], N[r])
    BY DEF Operations, AllKeep, AllMove
  <2> QED BY <2>1, ReadThenMoves
<1> QED BY <1>1 DEF AllMove

\* What is found in T3, then a change of one.
LEMMA OneMoves ==
  ASSUME NEW K, Operations(K), NEW q \in Requests, NEW n, Moves(q, K[q], n)
  PROVE  AllMove(K, [K EXCEPT ![q] = n])
<1>1. K \in [Requests -> OperationType] /\ n \in OperationType
  BY DEF Operations, Moves, Sound
<1>2. ASSUME NEW r \in Requests, r # q PROVE Moves(r, K[r], K[r])
  BY SameKeeps, KeptMoves DEF Operations
<1> QED BY <1>1, <1>2 DEF AllMove

LEMMA BegunIsKnown == \A r \in Requests : \A o : (Sound(r, o) /\ o.attempt.phase # "none") => o.status # "none"
  BY UnknownIsSound DEF Sound

LEMMA FoundFacts ==
  ASSUME Operations(ops), NEW due \in SUBSET Requests
  PROVE  /\ AllKeep(ops, Discover(ops, due)) /\ Operations(Discover(ops, due))
         /\ AllKeep(ops, OpenOperations(Discover(ops, due)))
         /\ Operations(OpenOperations(Discover(ops, due)))
         /\ AllKeep(Discover(ops, due), OpenOperations(Discover(ops, due)))
<1> DEFINE found == Discover(ops, due)
           known == OpenOperations(found)
<1>1. AllKeep(ops, found)
  BY DiscoverFacts
<1>2. Operations(found)
  BY <1>1, AllKeepFacts
<1> HIDE DEF found
<1>3. AllKeep(found, known)
  BY <1>2, OpenOperationsFacts
<1> HIDE DEF known
<1>4. Operations(known) /\ AllKeep(ops, known)
  BY <1>1, <1>3, AllKeepFacts
<1> QED BY <1>1, <1>2, <1>3, <1>4 DEF found, known

\* A scan leaves the operations with the attempt it reserved, if any, and in the first
\* of a run with what is owed.
LEMMA ScanSucceedsOps ==
  ASSUME Operations(ops), World, NEW i, ScanSucceeds(i)
  PROVE  /\ AllMove(ops, ops') /\ recovered' = TRUE
         /\ ~recovered => \A r \in Requests : Made(ops'[r])
         /\ \E r \in {None} \cup Requests :
               /\ Returns(i, r)
               /\ r # None => (/\ ~Begun(ops, r) /\ Begun(ops', r)
                               /\ ops'[r].attempt.run = count.crashes)
<1>1. PICK due \in SUBSET Pending :
        LET found == OpenOperations(Discover(ops, due))
            restored == [r \in Requests |-> IF ~recovered /\ r \in Interrupted(found)
                                            THEN FinishAttempt(found[r]) ELSE found[r]]
        IN  /\ recovered' = TRUE
            /\ \E r \in {None} \cup IF pending = 0 THEN Reservable(restored) ELSE {} :
                 /\ Returns(i, r)
                 /\ ops' = IF r = None THEN restored ELSE [restored EXCEPT ![r] = Reserve(restored[r])]
  BY DEF ScanSucceeds
<1> DEFINE found == OpenOperations(Discover(ops, due))
           restored == [r \in Requests |-> IF ~recovered /\ r \in Interrupted(found)
                                           THEN FinishAttempt(found[r]) ELSE found[r]]
<1>2. AllKeep(ops, found) /\ Operations(found)
  BY FoundFacts DEF Pending
<1>3. PICK r \in {None} \cup Requests :
        /\ Returns(i, r) /\ (r # None => r \in Reservable(restored))
        /\ ops' = IF r = None THEN restored ELSE [restored EXCEPT ![r] = Reserve(restored[r])]
  BY <1>1 DEF Reservable
<1>4. recovered' = TRUE
  BY <1>1
<1> HIDE DEF found
<1>5. ASSUME NEW q \in Requests
      PROVE  Moves(q, found[q], restored[q]) /\ (~recovered => Made(restored[q]))
  <2>1. Sound(q, found[q])
    BY <1>2 DEF Operations
  <2>2. CASE ~recovered /\ q \in Interrupted(found)
    <3>1. restored[q] = FinishAttempt(found[q]) /\ found[q].attempt.phase # "none"
      BY <2>2 DEF Interrupted
    <3> HIDE DEF restored
    <3> QED BY <2>1, <3>1, FinishAttemptFacts
  <2>3. CASE ~(~recovered /\ q \in Interrupted(found))
    <3>1. restored[q] = found[q]
      BY <2>3
    <3>2. ~recovered => Made(found[q])
      BY <2>3 DEF Interrupted, Made, Contactable
    <3> HIDE DEF restored
    <3> QED BY <2>1, <3>1, <3>2, SameKeeps, KeptMoves
  <2> QED BY <2>2, <2>3
<1>6. restored \in [Requests -> OperationType]
  <2>1. restored = [q \in Requests |-> restored[q]]
    OBVIOUS
  <2> HIDE DEF restored
  <2> QED BY <1>5, <2>1 DEF Moves, Sound
<1> HIDE DEF restored
<1>7. AllMove(found, restored) /\ Operations(restored)
  BY <1>5, <1>6, AllMoveSound DEF AllMove
<1>8. AllMove(ops, restored)
  BY <1>2, <1>7, ReadThenAllMove
<1>9. CASE r = None
  BY <1>3, <1>4, <1>5, <1>8, <1>9
<1>10. CASE r # None
  <2>1. r \in Requests /\ restored[r].attempt.phase = "none" /\ restored[r].status # "none"
    BY <1>3, <1>10 DEF Reservable
  <2>2. /\ Moves(r, restored[r], Reserve(restored[r])) /\ Made(Reserve(restored[r]))
        /\ Reserve(restored[r]).attempt.phase # "none"
        /\ Reserve(restored[r]).attempt.run = count.crashes /\ Reserve(restored[r]).attempt.call = 0
        /\ Reserve(restored[r]).first = restored[r].first
    BY <1>7, <2>1, ReserveFacts DEF Operations, World
  <2> DEFINE n == Reserve(restored[r])
  <2>3. ops' = [restored EXCEPT ![r] = n]
    BY <1>3, <1>10
  <2> HIDE DEF n
  <2>4. ops'[r] = n /\ \A q \in Requests : q # r => ops'[q] = restored[q]
    BY <1>6, <2>1, <2>3
  <2>5. ASSUME NEW q \in Requests
        PROVE  Moves(q, found[q], ops'[q]) /\ (~recovered => Made(ops'[q]))
    <3>1. CASE q # r
      BY <1>5, <2>4, <3>1
    <3>2. CASE q = r
      <4>1. Onward(found[r].attempt, n.attempt) /\ Quiet(found[r], n) /\ Sound(r, n) /\ Made(n)
        <5>1. Moves(r, found[r], restored[r]) /\ restored[r].attempt.phase = "none"
          BY <1>5, <2>1
        <5>2. Moves(r, restored[r], n) /\ Made(n) /\ n.attempt.phase # "none" /\ n.attempt.run = count.crashes
          BY <2>2 DEF n
        <5>3. found[r].attempt.phase = "none"
          BY <5>1 DEF Moves, Onward
        <5>4. n.attempt.call = 0 /\ n.first = restored[r].first
          BY <2>2 DEF n
        <5>5. Quiet(found[r], n)
          BY <5>1, <5>4 DEF Moves, Quiet
        <5> QED BY <5>2, <5>3, <5>4, <5>5 DEF Moves, Onward
      <4> QED BY <2>4, <3>2, <4>1 DEF Moves
    <3> QED BY <3>1, <3>2
  <2>6. ops' \in [Requests -> OperationType]
    BY <1>6, <2>2, <2>3 DEF Moves, Sound, n
  <2>7. AllMove(ops, ops')
    BY <1>2, <2>5, <2>6, ReadThenAllMove DEF AllMove
  <2>8. ~Begun(ops, r)
    BY <1>8, <2>1 DEF AllMove, Moves, Onward, Begun
  <2>9. Begun(ops', r) /\ ops'[r].attempt.run = count.crashes
    BY <2>2, <2>4 DEF Begun, n
  <2> QED BY <1>3, <1>4, <2>5, <2>7, <2>8, <2>9
<1> QED BY <1>9, <1>10

LEMMA ScanFailsOps ==
  ASSUME Operations(ops), NEW i, ScanFails(i)
  PROVE  AllMove(ops, ops') /\ Returns(i, None) /\ UNCHANGED recovered
<1>1. PICK due \in SUBSET Pending :
         LET found == Discover(ops, due)
         IN  \/ ops' = found
             \/ \E part \in SUBSET Requests :
                  /\ part \subseteq Interrupted(OpenOperations(found))
                  /\ ops' = [r \in Requests |->
                               IF r \in part THEN FinishAttempt(OpenOperations(found)[r])
                               ELSE found[r]]
  <2>1. PICK due \in SUBSET Pending :
          LET found == Discover(ops, due)
          IN  \/ /\ Unreadable(found)
                 /\ ops' = found /\ UNCHANGED count
              \/ /\ Fails
                 /\ \E part \in SUBSET IF recovered \/ Unreadable(found) THEN {}
                                       ELSE Interrupted(OpenOperations(found)) :
                      ops' = [r \in Requests |->
                                IF r \in part THEN FinishAttempt(OpenOperations(found)[r])
                                ELSE found[r]]
    BY DEF ScanFails
  <2>2. Interrupted(OpenOperations(Discover(ops, due))) \subseteq Requests
    BY DEF Interrupted
  <2> QED BY <2>1, <2>2
<1> DEFINE found == Discover(ops, due)
           known == OpenOperations(found)
<1>2. /\ AllKeep(ops, found) /\ Operations(found) /\ Operations(known) /\ AllKeep(found, known)
  BY FoundFacts DEF Pending
<1>3. CASE ops' = found
  BY <1>2, <1>3, ReadMoves DEF ScanFails
<1>4. ASSUME NEW part \in SUBSET Requests, part \subseteq Interrupted(known),
             ops' = [r \in Requests |-> IF r \in part THEN FinishAttempt(known[r]) ELSE found[r]]
      PROVE  AllMove(ops, ops')
  <2> HIDE DEF found, known
  <2>1. ASSUME NEW r \in Requests PROVE Moves(r, found[r], ops'[r])
    <3>1. /\ Sound(r, found[r]) /\ Keeps(r, found[r], known[r]) /\ StaysShut(found[r], known[r])
          /\ Sound(r, known[r])
      BY <1>2 DEF Operations, AllKeep
    <3>2. CASE r \in part
      <4>1. ops'[r] = FinishAttempt(known[r]) /\ known[r].attempt.phase # "none"
        BY <1>4, <3>2 DEF Interrupted
      <4> QED BY <3>1, <4>1, FinishAttemptFacts, ReadThenMoves
    <3>3. CASE r \notin part
      <4>1. ops'[r] = found[r]
        BY <1>4, <3>3
      <4> QED BY <3>1, <4>1, SameKeeps, KeptMoves
    <3> QED BY <3>2, <3>3
  <2>2. ops' \in [Requests -> OperationType]
    <3>1. ops' = [r \in Requests |-> ops'[r]]
      BY <1>4
    <3> QED BY <2>1, <3>1 DEF Moves, Sound
  <2> QED BY <1>2, <2>1, <2>2, ReadThenAllMove DEF AllMove
<1> QED BY <1>1, <1>3, <1>4 DEF ScanFails

LEMMA ValidateOps ==
  ASSUME IInv, NEW i \in 1..Len(jobs), Validate(i)
  PROVE  /\ AllMove(ops, ops') /\ UNCHANGED recovered
         /\ \E r \in {None, jobs[i].op} : Returns(i, r)
<1> DEFINE q == jobs[i].op
<1>1. q \in Requests /\ Begun(ops, q)
  BY DEF IInv, Queue, Fits, Reservations, Holds, Validate, Working
<1>2. Operations(ops) /\ Sound(q, ops[q]) /\ ops[q].status # "none"
  BY <1>1, BegunIsKnown DEF IInv, Operations, Begun
<1>3. AllMove(ops, ops')
  <2>1. CASE UNCHANGED ops
    BY <1>2, <2>1, SameMoves
  <2>2. CASE ops' = [ops EXCEPT ![q] = Refresh(ops[q])]
    <3>1. Moves(q, ops[q], Refresh(ops[q]))
      BY <1>1, <1>2, RefreshFacts, KeptMoves
    <3> QED BY <1>1, <1>2, <2>2, <3>1, OneMoves
  <2> QED BY <2>1, <2>2 DEF Validate
<1>4. \E r \in {None, jobs[i].op} : Returns(i, r)
  BY DEF Validate
<1> QED BY <1>3, <1>4 DEF Validate

\* The reply to a text leaves no attempt of the operation it is about to be made up for.
LEMMA MessageOps ==
  ASSUME Operations(ops), NEW i, Message(i)
  PROVE  AllMove(ops, ops') /\ Returns(i, None) /\ UNCHANGED recovered
<1> DEFINE found == Discover(ops, Pending)
           known == OpenOperations(found)
           noted(r) == [known[r] EXCEPT !.attempt.suppressed = known[r].attempt.phase # "none"]
<1>1. \/ ops' = found \/ ops' = known
      \/ \E r \in {q \in Requests : known[q].status # "none"} :
           \E out \in Respond(noted(r)) : ops' = [known EXCEPT ![r] = out.op]
  BY DEF Message
<1>2. /\ AllKeep(ops, found) /\ Operations(found) /\ Operations(known) /\ AllKeep(ops, known)
  BY FoundFacts DEF Pending
<1> HIDE DEF found, known
<1>3. CASE ops' = found \/ ops' = known
  BY <1>2, <1>3, ReadMoves DEF Message
<1>4. ASSUME NEW r \in Requests, known[r].status # "none", NEW out \in Respond(noted(r)),
             ops' = [known EXCEPT ![r] = out.op]
      PROVE  AllMove(ops, ops')
  <2> DEFINE o == known[r]
             b == o.attempt.phase # "none"
             a == [o.attempt EXCEPT !.suppressed = b]
             n == noted(r)
  <2>1. Sound(r, o) /\ o.attempt \in AttemptType /\ o \in OperationType
    BY <1>2 DEF Operations, Sound, OperationType
  <2> HIDE DEF o
  <2>2. b \in BOOLEAN
    OBVIOUS
  <2>3. n = [o EXCEPT !.attempt = a]
    BY <2>1 DEF OperationType, o
  <2>4. b <=> (o.attempt.phase # "none")
    OBVIOUS
  <2> HIDE DEF b, n
  <2>5. /\ a \in AttemptType /\ a.phase = o.attempt.phase /\ a.run = o.attempt.run
        /\ a.call = o.attempt.call /\ a.suppressed = b
    BY <2>1, <2>2 DEF AttemptType
  <2> HIDE DEF a
  <2>6. /\ n \in OperationType /\ n.attempt = a /\ n.status = o.status /\ n.asked = o.asked
        /\ n.completed = o.completed /\ n.first = o.first
    BY <2>1, <2>3, <2>5 DEF OperationType
  <2>7. o.status # "none"
    BY <1>4 DEF o
  <2>8. Sound(r, n)
    BY <2>1, <2>6, <2>7 DEF Sound
  <2>9. Keeps(r, n, out.op)
    <3>1. out \in Respond(n)
      BY <1>4 DEF n, o
    <3> QED BY <2>6, <2>7, <2>8, <3>1, RespondFacts
  <2>10. Sound(r, out.op) /\ out.op.attempt = a /\ out.op.first = o.first
    BY <2>6, <2>9 DEF Keeps
  <2>11. Onward(o.attempt, out.op.attempt) /\ Quiet(o, out.op)
    BY <2>5, <2>10 DEF Onward, Quiet
  <2>12. Made(out.op)
    BY <2>4, <2>5, <2>10 DEF Made
  <2>13. Moves(r, known[r], out.op)
    BY <2>10, <2>11, <2>12 DEF Moves, o
  <2>14. AllMove(known, ops')
    BY <1>2, <1>4, <2>13, OneMoves
  <2> QED BY <1>2, <2>14, ReadThenAllMove
<1>5. AllMove(ops, ops')
  <2> HIDE DEF noted
  <2> QED BY <1>1, <1>2, <1>3, <1>4
<1> QED BY <1>5 DEF Message

LEMMA FinishOps ==
  ASSUME IInv, NEW i \in 1..Len(jobs), Finish(i)
  PROVE  AllMove(ops, ops') /\ Returns(i, None) /\ UNCHANGED recovered
<1> DEFINE q == jobs[i].op
<1>1. q \in Requests /\ Begun(ops, q)
  BY DEF IInv, Queue, Fits, Finish, Working
<1>2. Operations(ops) /\ Sound(q, ops[q]) /\ ops[q].attempt.phase # "none"
  BY <1>1 DEF IInv, Operations, Begun
<1>3. \/ ops' = [ops EXCEPT ![q] = FinishAttempt(ops[q])]
      \/ ops' = [ops EXCEPT ![q] = Concluded(ops[q])]
  BY DEF Finish
<1>4. Moves(q, ops[q], FinishAttempt(ops[q])) /\ Moves(q, ops[q], Concluded(ops[q]))
  BY <1>1, <1>2, FinishAttemptFacts, ConcludedFacts
<1> HIDE DEF q
<1> QED BY <1>1, <1>2, <1>3, <1>4, OneMoves DEF Finish

-----------------------------------------------------------------------------
(* The operations over a voice turn.                                       *)

\* The operation of the call is one whose attempt this run began, and so is the one the
\* call comes to be about.
LEMMA ConverseOps ==
  ASSUME IInv, Converse
  PROVE  /\ AllMove(ops, ops')
         /\ \/ session' = session
            \/ \E r \in Requests \cup {None} :
                 /\ session' = [session EXCEPT !.op = r]
                 /\ r # None => Begun(ops', r) /\ ops'[r].attempt.run = count.crashes
<1> DEFINE found == IF session.op = None THEN Discover(ops, Pending) ELSE ops
           known == OpenOperations(found)
<1>1. /\ Operations(ops) /\ AllKeep(ops, found) /\ Operations(found) /\ Operations(known) /\ AllKeep(ops, known)
  <2>1. Operations(ops)
    BY DEF IInv
  <2>2. CASE session.op = None
    <3>1. found = Discover(ops, Pending)
      BY <2>2
    <3> QED BY <2>1, <3>1, FoundFacts DEF Pending
  <2>3. CASE session.op # None
    <3>1. found = ops
      BY <2>3
    <3>2. AllKeep(ops, OpenOperations(ops)) /\ Operations(OpenOperations(ops))
      BY <2>1, OpenOperationsFacts, AllKeepFacts
    <3> QED BY <2>1, <3>1, <3>2, SameMoves
  <2> QED BY <2>2, <2>3
<1>2. \/ ops' = found /\ UNCHANGED session
      \/ ops' = known /\ UNCHANGED session
      \/ /\ session.op # None
         /\ known[session.op].status \in Contactable
         /\ \E out \in Talk([known[session.op] EXCEPT !.deferred = FALSE]) :
              ops' = [known EXCEPT ![session.op] = out.op]
         /\ UNCHANGED session
      \/ \E r \in {q \in Requests : known[q].status \in Contactable} \cup {None} :
           /\ ops' = IF r = None THEN known
                     ELSE [known EXCEPT ![r] = BeginIncoming(known[r], session.call)]
           /\ session' = [session EXCEPT !.op = r]
  BY DEF Converse
<1> HIDE DEF found, known
<1>3. CASE (ops' = found \/ ops' = known) /\ UNCHANGED session
  BY <1>1, <1>3, ReadMoves
<1>4. ASSUME session.op # None, known[session.op].status \in Contactable,
             NEW out \in Talk([known[session.op] EXCEPT !.deferred = FALSE]),
             ops' = [known EXCEPT ![session.op] = out.op]
      PROVE  AllMove(ops, ops')
  <2> DEFINE r == session.op
             o == known[r]
             p == [o EXCEPT !.deferred = FALSE]
  <2>1. r \in Requests /\ Begun(ops, r) /\ ops[r].attempt.run = count.crashes
    BY <1>4 DEF IInv, World, Calls
  <2>2. Sound(r, o) /\ o.attempt = ops[r].attempt /\ o.status # "none" /\ r \in o.asked
    BY <1>1, <1>4, <2>1 DEF Operations, AllKeep, Keeps, Contactable, Sound
  <2> HIDE DEF o
  <2>3. p \in OperationType /\ p.attempt = o.attempt /\ p.first = o.first /\ p.asked = o.asked
        /\ p.status = o.status
    BY <2>2 DEF Sound, OperationType
  <2> HIDE DEF p
  <2>4. Keeps(r, p, out.op)
    <3>1. out \in Talk(p)
      BY <1>4 DEF p, o
    <3> QED BY <2>1, <2>2, <2>3, <3>1, TalkFacts
  <2>5. Keeps(r, o, out.op)
    BY <2>2, <2>3, <2>4 DEF Keeps
  <2>6. Made(out.op)
    BY <2>1, <2>2, <2>5 DEF Made, Keeps, IInv, World
  <2>7. Moves(r, known[r], out.op)
    BY <2>1, <2>2, <2>5, <2>6, KeptMoves DEF o
  <2>8. AllMove(known, ops')
    BY <1>1, <1>4, <2>1, <2>7, OneMoves
  <2> QED BY <1>1, <2>8, ReadThenAllMove
<1>5. ASSUME NEW r \in Requests, known[r].status \in Contactable,
             ops' = [known EXCEPT ![r] = BeginIncoming(known[r], session.call)]
      PROVE  AllMove(ops, ops') /\ Begun(ops', r) /\ ops'[r].attempt.run = count.crashes
  <2> DEFINE n == BeginIncoming(known[r], session.call)
  <2>1. Sound(r, known[r]) /\ known[r].status # "none" /\ known[r].attempt = ops[r].attempt
    BY <1>1, <1>5 DEF Operations, AllKeep, Keeps, Contactable
  <2>2. session.kind # "none" /\ session.call \in Int /\ count.crashes \in Nat /\ session.call # 0
    BY DEF Converse, IInv, World, Calls
  <2>3. /\ Moves(r, known[r], n) /\ n.attempt.phase # "none"
        /\ (n.attempt.run = count.crashes
            \/ (n.attempt.run = known[r].attempt.run /\ known[r].attempt.call = session.call))
    BY <2>1, <2>2, BeginIncomingFacts
  <2> HIDE DEF n
  <2>4. ops' = [known EXCEPT ![r] = n] /\ known \in [Requests -> OperationType]
    BY <1>1, <1>5 DEF n, Operations
  <2>5. AllMove(known, ops')
    BY <1>1, <2>3, <2>4, OneMoves
  <2>6. ops[r].attempt.run < count.crashes => ops[r].attempt.call # session.call
    BY <2>2 DEF IInv, Calls, UnderWay
  <2>7. ops[r].attempt.run \in Nat /\ ops[r].attempt.run <= count.crashes
    BY DEF IInv, Calls, Operations, OperationType, AttemptType
  <2>8. n.attempt.run = count.crashes
    BY <2>1, <2>2, <2>3, <2>6, <2>7
  <2>9. ops'[r] = n
    BY <2>4
  <2> QED BY <1>1, <2>3, <2>5, <2>8, <2>9, ReadThenAllMove DEF Begun
<1>6. CASE \E r \in {q \in Requests : known[q].status \in Contactable} \cup {None} :
             /\ ops' = IF r = None THEN known
                       ELSE [known EXCEPT ![r] = BeginIncoming(known[r], session.call)]
             /\ session' = [session EXCEPT !.op = r]
  <2>1. PICK r \in {q \in Requests : known[q].status \in Contactable} \cup {None} :
             /\ ops' = IF r = None THEN known
                       ELSE [known EXCEPT ![r] = BeginIncoming(known[r], session.call)]
             /\ session' = [session EXCEPT !.op = r]
    BY <1>6
  <2>2. CASE r = None
    BY <1>1, <2>1, <2>2, ReadMoves DEF IInv
  <2>3. CASE r # None
    BY <1>5, <2>1, <2>3
  <2> QED BY <2>2, <2>3
<1> QED BY <1>2, <1>3, <1>4, <1>6

-----------------------------------------------------------------------------
(* The queue.                                                              *)

\* The queue without its first k jobs.
Remains(k) ==
    /\ k \in {0, 1} /\ k <= Len(jobs) /\ jobs' \in Seq(JobType) /\ Len(jobs') = Len(jobs) - k
    /\ \A i \in 1..Len(jobs') : i + k \in 1..Len(jobs) /\ jobs'[i] = jobs[i + k]

\* The queue without its first k jobs, and a new one behind the others.
Grows(k, new) ==
    /\ k \in {0, 1} /\ k <= Len(jobs) /\ jobs' \in Seq(JobType) /\ Len(jobs') = Len(jobs) - k + 1
    /\ jobs'[Len(jobs')] = new /\ new \in JobType
    /\ \A i \in 1..(Len(jobs') - 1) : i + k \in 1..Len(jobs) /\ jobs'[i] = jobs[i + k]

\* A job of the queue is done, with what came of it.
Yields(i, result) ==
    /\ i \in 1..Len(jobs) /\ jobs' \in Seq(JobType) /\ Len(jobs') = Len(jobs)
    /\ jobs'[i].kind = jobs[i].kind /\ jobs'[i].generation = jobs[i].generation
    /\ jobs'[i].op = result /\ jobs'[i].done
    /\ \A j \in 1..Len(jobs) : j # i => jobs'[j] = jobs[j]

LEMMA SeqFacts ==
  ASSUME NEW S, NEW s \in Seq(S)
  PROVE  /\ Len(s) \in Nat /\ \A i \in 1..Len(s) : s[i] \in S
         /\ s # <<>> => (/\ Tail(s) \in Seq(S) /\ Len(Tail(s)) = Len(s) - 1 /\ Len(s) >= 1
                         /\ Head(s) = s[1] /\ \A i \in 1..(Len(s) - 1) : Tail(s)[i] = s[i + 1])
         /\ \A e \in S : /\ Append(s, e) \in Seq(S) /\ Len(Append(s, e)) = Len(s) + 1
                         /\ \A i \in 1..Len(s) : Append(s, e)[i] = s[i]
                         /\ Append(s, e)[Len(s) + 1] = e
  BY HeadTailProperties, AppendProperties, ElementOfSeq, LenProperties

LEMMA RemainsFacts ==
  ASSUME jobs \in Seq(JobType)
  PROVE  /\ jobs' = jobs => Remains(0)
         /\ (jobs # <<>> /\ jobs' = Tail(jobs)) => Remains(1)
<1>1. Len(jobs) \in Nat
  BY SeqFacts
<1>2. ASSUME jobs' = jobs PROVE Remains(0)
  BY <1>1, <1>2 DEF Remains
<1>3. ASSUME jobs # <<>>, jobs' = Tail(jobs) PROVE Remains(1)
  <2>1. /\ Tail(jobs) \in Seq(JobType) /\ Len(Tail(jobs)) = Len(jobs) - 1 /\ Len(jobs) >= 1
        /\ \A i \in 1..(Len(jobs) - 1) : Tail(jobs)[i] = jobs[i + 1]
    BY <1>3, SeqFacts
  <2> QED BY <1>1, <1>3, <2>1 DEF Remains
<1> QED BY <1>2, <1>3

LEMMA GrowsFacts ==
  ASSUME jobs \in Seq(JobType), NEW new \in JobType
  PROVE  /\ jobs' = Append(jobs, new) => Grows(0, new)
         /\ (jobs # <<>> /\ jobs' = Append(Tail(jobs), new)) => Grows(1, new)
<1>1. Len(jobs) \in Nat
  BY SeqFacts
<1>2. ASSUME jobs' = Append(jobs, new) PROVE Grows(0, new)
  <2>1. /\ jobs' \in Seq(JobType) /\ Len(jobs') = Len(jobs) + 1
        /\ \A i \in 1..Len(jobs) : jobs'[i] = jobs[i]
        /\ jobs'[Len(jobs) + 1] = new
    BY <1>2, SeqFacts
  <2> QED BY <1>1, <2>1 DEF Grows
<1>3. ASSUME jobs # <<>>, jobs' = Append(Tail(jobs), new) PROVE Grows(1, new)
  <2> DEFINE s == Tail(jobs)
  <2>1. /\ s \in Seq(JobType) /\ Len(s) = Len(jobs) - 1 /\ Len(jobs) >= 1
        /\ \A i \in 1..(Len(jobs) - 1) : s[i] = jobs[i + 1]
    BY <1>3, SeqFacts
  <2> HIDE DEF s
  <2>2. /\ Append(s, new) \in Seq(JobType) /\ Len(Append(s, new)) = Len(s) + 1
        /\ \A i \in 1..Len(s) : Append(s, new)[i] = s[i]
        /\ Append(s, new)[Len(s) + 1] = new
    BY <2>1, SeqFacts
  <2>3. jobs' = Append(s, new)
    BY <1>3 DEF s
  <2> QED BY <1>1, <2>1, <2>2, <2>3 DEF Grows
<1> QED BY <1>2, <1>3

LEMMA YieldsFacts ==
  ASSUME jobs \in Seq(JobType), NEW i \in 1..Len(jobs), NEW result \in Nat, Returns(i, result)
  PROVE  Yields(i, result)
<1> DEFINE new == [jobs[i] EXCEPT !.done = TRUE, !.op = result]
<1>1. Len(jobs) \in Nat /\ jobs[i] \in JobType
  BY SeqFacts
<1>2. /\ new \in JobType /\ new.kind = jobs[i].kind /\ new.generation = jobs[i].generation
      /\ new.op = result /\ new.done = TRUE
  BY <1>1 DEF JobType
<1>3. jobs' = [jobs EXCEPT ![i] = new]
  BY <1>1 DEF Returns, JobType
<1> HIDE DEF new
<1>4. jobs' \in Seq(JobType) /\ Len(jobs') = Len(jobs) /\ jobs'[i] = new
      /\ \A j \in 1..Len(jobs) : j # i => jobs'[j] = jobs[j]
  BY <1>1, <1>2, <1>3, ExceptSeq
<1> QED BY <1>2, <1>4 DEF Yields

\* What every step but a crash does.
Steady ==
    /\ AllMove(ops, ops')
    /\ generation \in Nat /\ generation' \in Nat /\ generation <= generation'
    /\ count.rings \in Nat /\ count'.rings \in Nat /\ count.rings <= count'.rings
    /\ count.crashes \in Nat /\ count'.crashes = count.crashes

LEMMA SteadyFits ==
  ASSUME Steady, NEW j, Fits(j, ops, generation, count.rings)
  PROVE  Fits(j, ops', generation', count'.rings)
<1>1. \A r \in Requests : Begun(ops, r) => Begun(ops', r)
  BY DEF Steady, AllMove, Moves, Onward, Begun
<1>2. j.generation \in Nat /\ j.op \in Nat
  BY DEF Fits, JobType
<1>3. j.generation <= generation' /\ (j.kind = "incoming" => j.op > 0 /\ j.op <= count'.rings)
  BY <1>2 DEF Fits, Steady
<1> QED BY <1>1, <1>3 DEF Fits

LEMMA SteadyBegun ==
  ASSUME Steady, NEW r \in Requests, Begun(ops, r)
  PROVE  Begun(ops', r) /\ (ops[r].attempt.run = count.crashes => ops'[r].attempt.run = count'.crashes)
  BY DEF Steady, AllMove, Moves, Onward, Begun

LEMMA RemainsHeld ==
  ASSUME Queue, Reservations, Steady, NEW k, Remains(k)
  PROVE  /\ Queue'
         /\ \A i, j \in 1..Len(jobs'), r \in Requests :
               (Holds(jobs'[i], r) /\ Holds(jobs'[j], r)) => i = j
         /\ \A i \in 1..Len(jobs'), r \in Requests :
               Holds(jobs'[i], r) =>
                 /\ Begun(ops', r) /\ ops'[r].attempt.run = count'.crashes
                 /\ i + k \in 1..Len(jobs) /\ Holds(jobs[i + k], r)
                 /\ \A d \in 1..Len(dials) : dials[d].op # r
<1>1. Len(jobs) \in Nat /\ Len(jobs') \in Nat
  BY SeqFacts DEF Queue, Remains
<1>2. \A i \in 1..Len(jobs') : Fits(jobs'[i], ops', generation', count'.rings)
  BY SteadyFits DEF Remains, Queue
<1>3. \A i, j \in 1..Len(jobs') :
         (i < j /\ jobs'[j].kind = "text") => jobs'[i].generation < jobs'[j].generation
  <2>1. ASSUME NEW i \in 1..Len(jobs'), NEW j \in 1..Len(jobs'), i < j, jobs'[j].kind = "text"
        PROVE  jobs'[i].generation < jobs'[j].generation
    <3>1. /\ i + k \in 1..Len(jobs) /\ j + k \in 1..Len(jobs) /\ i + k < j + k
          /\ jobs'[i] = jobs[i + k] /\ jobs'[j] = jobs[j + k]
      BY <2>1 DEF Remains
    <3> QED BY <2>1, <3>1 DEF Queue
  <2> QED BY <2>1
<1>4. Queue'
  BY <1>2, <1>3 DEF Queue, Remains
<1>5. \A i, j \in 1..Len(jobs'), r \in Requests :
         (Holds(jobs'[i], r) /\ Holds(jobs'[j], r)) => i = j
  <2>1. ASSUME NEW i \in 1..Len(jobs'), NEW j \in 1..Len(jobs'), NEW r \in Requests,
               Holds(jobs'[i], r), Holds(jobs'[j], r)
        PROVE  i = j
    <3>1. /\ i + k \in 1..Len(jobs) /\ j + k \in 1..Len(jobs) /\ k \in {0, 1}
          /\ jobs'[i] = jobs[i + k] /\ jobs'[j] = jobs[j + k]
      BY <2>1 DEF Remains
    <3>2. i + k = j + k
      BY <2>1, <3>1 DEF Reservations
    <3> QED BY <3>1, <3>2
  <2> QED BY <2>1
<1>6. ASSUME NEW i \in 1..Len(jobs'), NEW r \in Requests, Holds(jobs'[i], r)
      PROVE  /\ Begun(ops', r) /\ ops'[r].attempt.run = count'.crashes
             /\ i + k \in 1..Len(jobs) /\ Holds(jobs[i + k], r)
             /\ \A d \in 1..Len(dials) : dials[d].op # r
  <2>1. i + k \in 1..Len(jobs) /\ Holds(jobs[i + k], r)
    BY <1>6 DEF Remains
  <2> QED BY <2>1, SteadyBegun DEF Reservations
<1> QED BY <1>4, <1>5, <1>6

LEMMA DialedStay ==
  ASSUME World, Reservations, Steady
  PROVE  \A d \in 1..Len(dials) : Begun(ops', dials[d].op)
<1> SUFFICES ASSUME NEW d \in 1..Len(dials) PROVE Begun(ops', dials[d].op)
  OBVIOUS
<1>1. dials[d] \in [op : Requests, request : Requests]
  BY ElementOfSeq DEF World
<1>2. Begun(ops, dials[d].op) /\ dials[d].op \in Requests
  BY <1>1 DEF Reservations
<1> QED BY <1>2, SteadyBegun

LEMMA RemainsQueue ==
  ASSUME World, Queue, Reservations, Steady, dials' = dials, NEW k, Remains(k)
  PROVE  Queue' /\ Reservations'
<1>1. DialedOnce'
  BY DEF Reservations, DialedOnce
<1>2. /\ Queue'
      /\ \A i, j \in 1..Len(jobs'), r \in Requests :
            (Holds(jobs'[i], r) /\ Holds(jobs'[j], r)) => i = j
      /\ \A i \in 1..Len(jobs'), r \in Requests :
            Holds(jobs'[i], r) =>
              /\ Begun(ops', r) /\ ops'[r].attempt.run = count'.crashes
              /\ \A d \in 1..Len(dials) : dials[d].op # r
  BY RemainsHeld
<1>3. \A d \in 1..Len(dials) : Begun(ops', dials[d].op)
  BY DialedStay
<1> QED BY <1>1, <1>2, <1>3 DEF Reservations, Holds, Begun

\* A reservation may be held by a job: made in this run, and not dialed yet.
Reserved(r) ==
    /\ Begun(ops', r) /\ ops'[r].attempt.run = count'.crashes
    /\ \A d \in 1..Len(dials) : dials[d].op # r

LEMMA GrowsQueue ==
  ASSUME World, Queue, Reservations, Steady, dials' = dials, NEW k, NEW new, Grows(k, new),
         Fits(new, ops', generation', count'.rings),
         new.kind = "text" => \A i \in 1..Len(jobs) : jobs[i].generation < new.generation,
         \A r \in Requests :
            Holds(new, r) => Reserved(r) /\ \A i \in (1 + k)..Len(jobs) : ~Holds(jobs[i], r)
  PROVE  Queue' /\ Reservations'
<1>1. Len(jobs) \in Nat /\ Len(jobs') \in Nat /\ jobs'[Len(jobs')] = new /\ k \in {0, 1}
  BY SeqFacts DEF Queue, Grows
<1>2. ASSUME NEW i \in 1..Len(jobs')
      PROVE  \/ i = Len(jobs') /\ jobs'[i] = new
             \/ i < Len(jobs') /\ i + k \in 1..Len(jobs) /\ i + k >= 1 + k /\ jobs'[i] = jobs[i + k]
  BY <1>1 DEF Grows
<1>3. \A i \in 1..Len(jobs') : Fits(jobs'[i], ops', generation', count'.rings)
  BY <1>2, SteadyFits DEF Queue
<1>4. \A i, j \in 1..Len(jobs') :
         (i < j /\ jobs'[j].kind = "text") => jobs'[i].generation < jobs'[j].generation
  <2>1. ASSUME NEW i \in 1..Len(jobs'), NEW j \in 1..Len(jobs'), i < j, jobs'[j].kind = "text"
        PROVE  jobs'[i].generation < jobs'[j].generation
    <3>1. i < Len(jobs') /\ i + k \in 1..Len(jobs) /\ jobs'[i] = jobs[i + k]
      BY <1>1, <1>2, <2>1
    <3>2. CASE j = Len(jobs')
      BY <1>1, <2>1, <3>1, <3>2
    <3>3. CASE j # Len(jobs')
      <4>1. j + k \in 1..Len(jobs) /\ i + k < j + k /\ jobs'[j] = jobs[j + k]
        BY <1>1, <1>2, <2>1, <3>3
      <4> QED BY <2>1, <3>1, <4>1 DEF Queue
    <3> QED BY <3>2, <3>3
  <2> QED BY <2>1
<1>5. Queue'
  BY <1>3, <1>4 DEF Queue, Grows
<1>6. \A i, j \in 1..Len(jobs'), r \in Requests :
         (Holds(jobs'[i], r) /\ Holds(jobs'[j], r)) => i = j
  <2>1. ASSUME NEW i \in 1..Len(jobs'), NEW j \in 1..Len(jobs'), NEW r \in Requests,
               Holds(jobs'[i], r), Holds(jobs'[j], r)
        PROVE  i = j
    <3>1. CASE i = Len(jobs') /\ j = Len(jobs')
      BY <3>1
    <3>2. CASE i = Len(jobs') /\ j # Len(jobs')
      <4>1. j + k \in (1 + k)..Len(jobs) /\ Holds(jobs[j + k], r) /\ Holds(new, r)
        BY <1>1, <1>2, <2>1, <3>2
      <4> QED BY <4>1
    <3>3. CASE i # Len(jobs') /\ j = Len(jobs')
      <4>1. i + k \in (1 + k)..Len(jobs) /\ Holds(jobs[i + k], r) /\ Holds(new, r)
        BY <1>1, <1>2, <2>1, <3>3
      <4> QED BY <4>1
    <3>4. CASE i # Len(jobs') /\ j # Len(jobs')
      <4>1. /\ i + k \in 1..Len(jobs) /\ j + k \in 1..Len(jobs)
            /\ jobs'[i] = jobs[i + k] /\ jobs'[j] = jobs[j + k]
        BY <1>1, <1>2, <2>1, <3>4
      <4>2. i + k = j + k
        BY <2>1, <4>1 DEF Reservations
      <4> QED BY <1>1, <4>2
    <3> QED BY <3>1, <3>2, <3>3, <3>4
  <2> QED BY <2>1
<1>7. \A i \in 1..Len(jobs'), r \in Requests :
         Holds(jobs'[i], r) => /\ Begun(ops', r) /\ ops'[r].attempt.run = count'.crashes
                               /\ \A d \in 1..Len(dials') : dials'[d].op # r
  <2>1. ASSUME NEW i \in 1..Len(jobs'), NEW r \in Requests, Holds(jobs'[i], r) PROVE Reserved(r)
    <3>1. CASE jobs'[i] = new
      BY <2>1, <3>1
    <3>2. CASE i + k \in 1..Len(jobs) /\ jobs'[i] = jobs[i + k]
      BY <2>1, <3>2, SteadyBegun DEF Reservations, Reserved
    <3> QED BY <1>2, <3>1, <3>2
  <2> QED BY <2>1 DEF Reserved
<1>8. \A d \in 1..Len(dials') : Begun(ops', dials'[d].op)
  BY DialedStay
<1>9. DialedOnce'
  BY DEF Reservations, DialedOnce
<1> QED BY <1>5, <1>6, <1>7, <1>8, <1>9 DEF Reservations, Holds, Begun

LEMMA YieldsQueue ==
  ASSUME World, Queue, Reservations, Steady, dials' = dials, NEW i, NEW result, Yields(i, result),
         Fits(jobs'[i], ops', generation', count'.rings),
         \A r \in Requests :
            Holds(jobs'[i], r) =>
              \/ Holds(jobs[i], r)
              \/ Reserved(r) /\ \A j \in 1..Len(jobs) : ~Holds(jobs[j], r)
  PROVE  Queue' /\ Reservations'
<1>1. \A j \in 1..Len(jobs') : Fits(jobs'[j], ops', generation', count'.rings)
  <2>1. ASSUME NEW j \in 1..Len(jobs'), j # i PROVE Fits(jobs'[j], ops', generation', count'.rings)
    <3>1. j \in 1..Len(jobs) /\ jobs'[j] = jobs[j]
      BY <2>1 DEF Yields
    <3> QED BY <3>1, SteadyFits DEF Queue
  <2> QED BY <2>1
<1>2. \A j \in 1..Len(jobs') : j \in 1..Len(jobs) /\ jobs'[j].kind = jobs[j].kind
                               /\ jobs'[j].generation = jobs[j].generation
  BY DEF Yields
<1>3. Queue'
  <2>1. jobs' \in Seq(JobType)
    BY DEF Yields
  <2>2. ASSUME NEW m \in 1..Len(jobs'), NEW j \in 1..Len(jobs'), m < j, jobs'[j].kind = "text"
        PROVE  jobs'[m].generation < jobs'[j].generation
    BY <1>2, <2>2 DEF Queue
  <2> QED BY <1>1, <2>1, <2>2 DEF Queue
<1>4. \A m, j \in 1..Len(jobs'), r \in Requests :
         (Holds(jobs'[m], r) /\ Holds(jobs'[j], r)) => m = j
  <2>1. ASSUME NEW m \in 1..Len(jobs'), NEW j \in 1..Len(jobs'), NEW r \in Requests,
               Holds(jobs'[m], r), Holds(jobs'[j], r), m # j
        PROVE  FALSE
    <3>1. m \in 1..Len(jobs) /\ j \in 1..Len(jobs)
      BY <1>2, <2>1
    <3>2. CASE m # i /\ j # i
      BY <2>1, <3>1, <3>2 DEF Yields, Reservations
    <3>3. CASE m = i
      <4>1. Holds(jobs[j], r)
        BY <2>1, <3>1, <3>3 DEF Yields
      <4> QED BY <2>1, <3>1, <3>3, <4>1 DEF Reservations
    <3>4. CASE j = i
      <4>1. Holds(jobs[m], r)
        BY <2>1, <3>1, <3>4 DEF Yields
      <4> QED BY <2>1, <3>1, <3>4, <4>1 DEF Reservations
    <3> QED BY <3>2, <3>3, <3>4
  <2> QED BY <2>1
<1>5. ASSUME NEW j \in 1..Len(jobs'), NEW r \in Requests, Holds(jobs'[j], r) PROVE Reserved(r)
  <2>1. \/ j \in 1..Len(jobs) /\ Holds(jobs[j], r)
        \/ Reserved(r)
    BY <1>2, <1>5 DEF Yields
  <2> QED BY <2>1, SteadyBegun DEF Reservations, Reserved
<1>6. \A d \in 1..Len(dials') : Begun(ops', dials'[d].op)
  BY DialedStay
<1>7. DialedOnce'
  BY DEF Reservations, DialedOnce
<1> QED BY <1>3, <1>4, <1>5, <1>6, <1>7 DEF Reservations, Reserved, Holds, Begun

-----------------------------------------------------------------------------
(* The call.                                                               *)

\* The part of Calls about the session.
InCall ==
    /\ session.kind # "none" =>
          session.call # 0 /\ -Len(dials) <= session.call /\ session.call <= count.rings
    /\ session.op # None =>
          session.kind # "none" /\ Begun(ops, session.op) /\ ops[session.op].attempt.run = count.crashes

\* A call that is under way was, or its number is a new one.
LEMMA CallsStep ==
  ASSUME Operations(ops), World, World', Calls, Steady, Len(dials) <= Len(dials'),
         \A c \in UnderWay' : c = 0 \/ c \in UnderWay \/ c > count.rings \/ c < -Len(dials),
         pending' <= count'.rings, InCall'
  PROVE  Calls'
<1>1. Len(dials) \in Nat /\ Len(dials') \in Nat
  BY LenProperties DEF World
<1>2. ASSUME NEW r \in Requests
      PROVE  LET a == ops'[r].attempt
             IN  /\ a.run <= count'.crashes /\ -Len(dials') <= a.call /\ a.call <= count'.rings
                 /\ (a.run < count'.crashes /\ a.call # 0) => a.call \notin UnderWay'
  <2> DEFINE a == ops[r].attempt
             b == ops'[r].attempt
  <2>1. /\ a.run <= count.crashes /\ -Len(dials) <= a.call /\ a.call <= count.rings
        /\ (a.run < count.crashes /\ a.call # 0) => a.call \notin UnderWay
    BY DEF Calls
  <2>2. a.run \in Nat /\ a.call \in Int /\ b.run \in Nat /\ b.call \in Int
    BY DEF Steady, AllMove, Operations, OperationType, AttemptType
  <2>3. Onward(a, b)
    BY DEF Steady, AllMove, Moves
  <2> HIDE DEF a, b
  <2>4. CASE b.run = a.run /\ b.call \in {0, a.call}
    <3>1. b.run <= count'.crashes /\ -Len(dials') <= b.call /\ b.call <= count'.rings
      BY <1>1, <2>1, <2>2, <2>4 DEF Steady
    <3>2. (b.run < count'.crashes /\ b.call # 0) => b.call \notin UnderWay'
      BY <1>1, <2>1, <2>2, <2>4 DEF Steady
    <3> QED BY <3>1, <3>2 DEF b
  <2>5. CASE b.run = count.crashes /\ (b.call = 0 \/ (session.kind # "none" /\ b.call = session.call))
    <3>1. b.run <= count'.crashes /\ ~(b.run < count'.crashes)
      BY <2>5 DEF Steady
    <3>2. -Len(dials) <= b.call /\ b.call <= count.rings
      BY <1>1, <2>5 DEF Calls, Steady
    <3>3. -Len(dials') <= b.call /\ b.call <= count'.rings
      BY <1>1, <2>2, <3>2 DEF Steady
    <3> QED BY <3>1, <3>3 DEF b
  <2> QED BY <2>3, <2>4, <2>5 DEF Onward
<1> QED BY <1>2 DEF Calls, InCall

\* The call stays what it was, or is put away.
LEMMA InCallKept ==
  ASSUME World, Calls, Steady, Len(dials) <= Len(dials'), session'.kind = session.kind,
         session'.call = session.call, session'.op \in {None, session.op}
  PROVE  InCall'
<1>1. Len(dials) \in Nat /\ Len(dials') \in Nat /\ session.call \in Int
  BY LenProperties DEF World, Steady
<1>2. session.kind # "none" =>
        session.call # 0 /\ -Len(dials') <= session.call /\ session.call <= count'.rings
  BY <1>1 DEF Calls, Steady
<1>3. session.op # None =>
        session.kind # "none" /\ Begun(ops', session.op) /\ ops'[session.op].attempt.run = count'.crashes
  BY SteadyBegun DEF Calls, World
<1> QED BY <1>2, <1>3 DEF InCall, Begun

LEMMA PendingIsUnderWay == pending \in Int => pending \in UnderWay
  BY DEF UnderWay

\* No new call, and no new job about one.
LEMMA UnderWayKept ==
  ASSUME pending' \in {0, pending}, session'.kind # "none" => session' = session \/
            (session.kind # "none" /\ session'.call = session.call),
         \A i \in 1..Len(jobs') :
            jobs'[i].kind = "incoming" =>
              \E j \in 1..Len(jobs) : jobs[j].kind = "incoming" /\ jobs[j].op = jobs'[i].op
  PROVE  \A c \in UnderWay' : c = 0 \/ c \in UnderWay
<1> SUFFICES ASSUME NEW c \in UnderWay' PROVE c = 0 \/ c \in UnderWay
  OBVIOUS
<1>1. \/ c = pending'
      \/ session'.kind # "none" /\ c = session'.call
      \/ \E i \in 1..Len(jobs') : jobs'[i].kind = "incoming" /\ c = jobs'[i].op
  BY DEF UnderWay
<1>2. CASE c = pending'
  <2>1. c \in Int
    BY DEF UnderWay
  <2>2. c = 0 \/ c = pending
    BY <1>2
  <2> QED BY <2>1, <2>2, PendingIsUnderWay
<1>3. CASE session'.kind # "none" /\ c = session'.call
  BY <1>3 DEF UnderWay
<1>4. CASE \E i \in 1..Len(jobs') : jobs'[i].kind = "incoming" /\ c = jobs'[i].op
  <2>1. \E j \in 1..Len(jobs) : jobs[j].kind = "incoming" /\ c = jobs[j].op
    BY <1>4
  <2> QED BY <2>1 DEF UnderWay
<1> QED BY <1>1, <1>2, <1>3, <1>4

LEMMA RemainsUnderWay ==
  ASSUME NEW k, Remains(k)
  PROVE  \A i \in 1..Len(jobs') :
            jobs'[i].kind = "incoming" =>
              \E j \in 1..Len(jobs) : jobs[j].kind = "incoming" /\ jobs[j].op = jobs'[i].op
  BY DEF Remains

LEMMA GrowsUnderWay ==
  ASSUME Queue, NEW k, NEW new, Grows(k, new), new.kind # "incoming"
  PROVE  \A i \in 1..Len(jobs') :
            jobs'[i].kind = "incoming" =>
              \E j \in 1..Len(jobs) : jobs[j].kind = "incoming" /\ jobs[j].op = jobs'[i].op
<1>1. Len(jobs') \in Nat
  BY SeqFacts DEF Grows
<1> QED BY <1>1 DEF Grows

-----------------------------------------------------------------------------
(* Steps.                                                                  *)

Bounds == {"rings", "followups", "failures", "losses", "crashes"}

LEMMA UseFacts ==
  ASSUME World, NEW b \in Bounds, Use(b)
  PROVE  /\ count' \in [Bounds -> Nat] /\ count'[b] = count[b] + 1
         /\ \A c \in Bounds : c # b => count'[c] = count[c]
  BY DEF World, Use, Bounds

LEMMA CountFacts ==
  ASSUME World, UNCHANGED count \/ \E b \in {"followups", "failures", "losses"} : Use(b)
  PROVE  /\ count' \in [Bounds -> Nat] /\ count'.rings = count.rings /\ count'.crashes = count.crashes
         /\ count.rings \in Nat /\ count.crashes \in Nat
<1>1. count \in [Bounds -> Nat] /\ count.rings \in Nat /\ count.crashes \in Nat
  BY DEF World, Bounds
<1>2. CASE UNCHANGED count
  BY <1>1, <1>2
<1>3. ASSUME NEW b \in {"followups", "failures", "losses"}, Use(b)
      PROVE  count' \in [Bounds -> Nat] /\ count'.rings = count.rings /\ count'.crashes = count.crashes
  BY <1>3, UseFacts DEF Bounds
<1> QED BY <1>1, <1>2, <1>3

\* The parts of the invariant together.
LEMMA Assemble ==
  ASSUME IInv, Steady, World', Queue', Reservations', Calls',
         (recovered' => recovered) \/ (\A r \in Requests : Made(ops'[r]))
  PROVE  IInv'
<1>1. Operations(ops')
  BY AllMoveSound DEF Steady
<1>2. RestartMadeUp'
  <2>1. ASSUME recovered', NEW r \in Requests PROVE Made(ops'[r])
    <3>1. CASE recovered
      <4>1. Made(ops[r])
        BY <3>1 DEF IInv, RestartMadeUp, Made
      <4> QED BY <4>1 DEF Steady, AllMove, Moves
    <3> QED BY <2>1, <3>1
  <2> QED BY <2>1 DEF RestartMadeUp, Made, Steady
<1> QED BY <1>1, <1>2 DEF IInv, Operations, Sound

\* A job of the worker ends.
LEMMA JobReturns ==
  ASSUME IInv, NEW i \in 1..Len(jobs), NEW result \in Nat, Returns(i, result),
         AllMove(ops, ops'), recovered' \in BOOLEAN,
         (recovered' => recovered) \/ (\A r \in Requests : Made(ops'[r])),
         ask' \in [Requests -> {"unasked", "open", "closed"}],
         UNCHANGED count \/ \E b \in {"followups", "failures", "losses"} : Use(b),
         jobs[i].kind = "scan" => result \in Requests \cup {None},
         jobs[i].kind = "validate" => result \in {None, jobs[i].op},
         jobs[i].kind = "incoming" => result = jobs[i].op,
         (jobs[i].kind = "scan" /\ result # None) =>
            ~Begun(ops, result) /\ Begun(ops', result) /\ ops'[result].attempt.run = count.crashes
  PROVE  IInv'
<1>1. World /\ Queue /\ Reservations /\ Calls /\ Operations(ops)
  BY DEF IInv
<1>2. /\ count' \in [Bounds -> Nat] /\ count'.rings = count.rings /\ count'.crashes = count.crashes
      /\ count.rings \in Nat /\ count.crashes \in Nat
  BY <1>1, CountFacts
<1>3. UNCHANGED <<threads, session, pending, cancelled, generation, dials>>
  BY DEF Returns, loopVars
<1>4. World'
  BY <1>1, <1>2, <1>3 DEF World, Bounds
<1>5. Steady
  BY <1>1, <1>2, <1>3 DEF Steady, World
<1>6. Yields(i, result)
  BY <1>1, YieldsFacts DEF Queue
<1>7. Fits(jobs'[i], ops', generation', count'.rings)
  <2>1. Fits(jobs[i], ops, generation, count.rings)
    BY <1>1 DEF Queue
  <2>2. /\ jobs'[i].kind = jobs[i].kind /\ jobs'[i].generation = jobs[i].generation
        /\ jobs'[i].op = result /\ jobs'[i].done /\ jobs'[i] \in JobType
    BY <1>6, ElementOfSeq DEF Yields
  <2> QED BY <1>2, <1>3, <2>1, <2>2 DEF Fits
<1>8. ASSUME NEW r \in Requests, Holds(jobs'[i], r), ~Holds(jobs[i], r)
      PROVE  Reserved(r) /\ \A j \in 1..Len(jobs) : ~Holds(jobs[j], r)
  <2>1. jobs'[i].kind = jobs[i].kind /\ jobs'[i].op = result
    BY <1>6 DEF Yields
  <2>2. jobs[i].kind = "scan" /\ r = result /\ r # None
    BY <1>8, <2>1 DEF Holds, Requests, None
  <2>3. ~Begun(ops, r) /\ Begun(ops', r) /\ ops'[r].attempt.run = count'.crashes
    BY <1>2, <2>2
  <2>4. \A j \in 1..Len(jobs) : ~Holds(jobs[j], r)
    BY <1>1, <2>3 DEF Reservations
  <2>5. \A d \in 1..Len(dials) : dials[d].op # r
    BY <1>1, <2>3 DEF Reservations
  <2> QED BY <2>3, <2>4, <2>5 DEF Reserved
<1>9. Queue' /\ Reservations'
  BY <1>1, <1>3, <1>5, <1>6, <1>7, <1>8, YieldsQueue
<1>10. \A c \in UnderWay' : c = 0 \/ c \in UnderWay
  <2>1. ASSUME NEW m \in 1..Len(jobs'), jobs'[m].kind = "incoming"
        PROVE  m \in 1..Len(jobs) /\ jobs[m].kind = "incoming" /\ jobs[m].op = jobs'[m].op
    BY <1>6, <2>1 DEF Yields
  <2> QED BY <1>3, <2>1, UnderWayKept
<1>11. InCall'
  <2>1. Len(dials) \in Nat
    BY <1>1, LenProperties DEF World
  <2> QED BY <1>1, <1>3, <1>5, <2>1, InCallKept
<1>12. Calls'
  <2>1. Len(dials) \in Nat
    BY <1>1, LenProperties DEF World
  <2>2. pending' <= count'.rings
    BY <1>1, <1>2, <1>3 DEF Calls
  <2> QED BY <1>1, <1>3, <1>4, <1>5, <1>10, <1>11, <2>1, <2>2, CallsStep
<1> QED BY <1>4, <1>5, <1>9, <1>12, Assemble

LEMMA WorkerStep ==
  ASSUME IInv, Worker
  PROVE  IInv' /\ AllMove(ops, ops')
<1>1. PICK i \in 1..Len(jobs) :
        \/ ScanSucceeds(i) \/ ScanFails(i) \/ Validate(i) \/ Message(i) \/ Finish(i)
        \/ RememberCall(i)
  BY DEF Worker
<1>2. Operations(ops) /\ World /\ Queue
  BY DEF IInv
<1>3. jobs[i] \in JobType /\ Fits(jobs[i], ops, generation, count.rings)
  BY <1>2 DEF Queue, Fits
<1>4. ask \in [Requests -> {"unasked", "open", "closed"}] /\ recovered \in BOOLEAN
  BY <1>2 DEF World
<1>5. Fails => \E b \in {"followups", "failures", "losses"} : Use(b)
  BY DEF Fails
<1>6. CASE ScanSucceeds(i)
  <2>1. jobs[i].kind = "scan" /\ ask' = ask /\ UNCHANGED count
    BY <1>6 DEF ScanSucceeds, Working
  <2>2. /\ AllMove(ops, ops') /\ recovered' = TRUE
        /\ ~recovered => \A r \in Requests : Made(ops'[r])
    BY <1>2, <1>6, ScanSucceedsOps
  <2>3. PICK r \in {None} \cup Requests :
          /\ Returns(i, r)
          /\ r # None => (/\ ~Begun(ops, r) /\ Begun(ops', r) /\ ops'[r].attempt.run = count.crashes)
    BY <1>2, <1>6, ScanSucceedsOps
  <2>4. r \in Nat
    BY DEF None, Requests
  <2> QED BY <1>4, <2>1, <2>2, <2>3, <2>4, JobReturns
<1>7. CASE ScanFails(i)
  <2>1. AllMove(ops, ops') /\ Returns(i, None) /\ UNCHANGED recovered
    BY <1>2, <1>7, ScanFailsOps
  <2>2. jobs[i].kind = "scan" /\ ask' = ask
    BY <1>7 DEF ScanFails, Working
  <2>3. UNCHANGED count \/ Fails
    BY <1>7 DEF ScanFails
  <2>4. None \in Nat
    BY DEF None
  <2> QED BY <1>4, <1>5, <2>1, <2>2, <2>3, <2>4, JobReturns
<1>8. CASE Validate(i)
  <2>1. /\ AllMove(ops, ops') /\ UNCHANGED recovered
        /\ \E r \in {None, jobs[i].op} : Returns(i, r)
    BY <1>8, ValidateOps
  <2>2. PICK r \in {None, jobs[i].op} : Returns(i, r)
    BY <2>1
  <2>3. jobs[i].kind = "validate" /\ ask' = ask /\ (UNCHANGED count \/ Fails)
    BY <1>8 DEF Validate, Working
  <2>4. r \in Nat
    BY <1>3 DEF None, JobType
  <2> QED BY <1>4, <1>5, <2>1, <2>2, <2>3, <2>4, JobReturns
<1>9. CASE Message(i)
  <2>1. AllMove(ops, ops') /\ Returns(i, None) /\ UNCHANGED recovered
    BY <1>2, <1>9, MessageOps
  <2>2. jobs[i].kind = "text" /\ (UNCHANGED count \/ Fails)
    BY <1>9 DEF Message, Working
  <2>3. ask' \in [Requests -> {"unasked", "open", "closed"}]
    <3>1. UNCHANGED ask \/ \E S : Answered(S)
      BY <1>9 DEF Message
    <3> QED BY <1>4, <3>1 DEF Answered
  <2>4. None \in Nat
    BY DEF None
  <2> QED BY <1>4, <1>5, <2>1, <2>2, <2>3, <2>4, JobReturns
<1>10. CASE Finish(i)
  <2>1. AllMove(ops, ops') /\ Returns(i, None) /\ UNCHANGED recovered
    BY <1>10, FinishOps
  <2>2. jobs[i].kind = "finish" /\ ask' = ask /\ (UNCHANGED count \/ Fails)
    BY <1>10 DEF Finish, Working
  <2>3. None \in Nat
    BY DEF None
  <2> QED BY <1>4, <1>5, <2>1, <2>2, <2>3, JobReturns
<1>11. CASE RememberCall(i)
  <2>1. Returns(i, jobs[i].op) /\ jobs[i].kind = "incoming" /\ UNCHANGED <<ops, ask, recovered, count>>
    BY <1>11 DEF RememberCall, Working
  <2>2. AllMove(ops, ops')
    BY <1>2, <2>1, SameMoves
  <2>3. jobs[i].op \in Nat
    BY <1>3 DEF JobType
  <2> QED BY <1>4, <2>1, <2>2, <2>3, JobReturns
<1> QED BY <1>1, <1>6, <1>7, <1>8, <1>9, <1>10, <1>11

\* A step of the main loop, of the voice or of T3 that takes no job up and places no call.
LEMMA CallGoesOn ==
  ASSUME IInv, Steady, World', Queue', Reservations', dials' = dials, (recovered' => recovered),
         pending' <= count'.rings, InCall',
         \A c \in UnderWay' : c = 0 \/ c \in UnderWay \/ c > count.rings
  PROVE  IInv'
<1>1. Len(dials) \in Nat
  BY LenProperties DEF IInv, World
<1>2. Calls'
  BY <1>1, CallsStep DEF IInv
<1> QED BY <1>2, Assemble

\* A step that leaves the operations and the runs as they are.
LEMMA OpsStay ==
  ASSUME IInv, ops' = ops
  PROVE  AllMove(ops, ops')
  BY SameMoves DEF IInv

LEMMA VoiceStep ==
  ASSUME IInv, Voice
  PROVE  IInv' /\ AllMove(ops, ops')
<1>1. Operations(ops) /\ World /\ Queue /\ Reservations /\ Calls
  BY DEF IInv
<1>2. PICK r \in Requests \cup {None} :
        /\ session' = [session EXCEPT !.op = r]
        /\ AllMove(ops, ops')
        /\ r # None => /\ session.kind # "none" /\ Begun(ops', r)
                       /\ ops'[r].attempt.run = count.crashes
  <2>1. CASE Followup
    <3>1. session' = [session EXCEPT !.op = None] /\ ops' = ops
      BY <2>1 DEF Followup
    <3> QED BY <3>1, OpsStay
  <2>2. CASE Converse
    <3>1. /\ AllMove(ops, ops')
          /\ \/ session' = session
             \/ \E q \in Requests \cup {None} :
                  /\ session' = [session EXCEPT !.op = q]
                  /\ q # None => Begun(ops', q) /\ ops'[q].attempt.run = count.crashes
      BY <2>2, ConverseOps
    <3>2. CASE session' = session
      <4>1. session' = [session EXCEPT !.op = session.op] /\ session.op \in Requests \cup {None}
        BY <1>1, <3>2 DEF World
      <4>2. session.op # None => /\ session.kind # "none" /\ Begun(ops, session.op)
                                 /\ ops[session.op].attempt.run = count.crashes
        BY <1>1 DEF Calls
      <4>3. session.op # None => Begun(ops', session.op) /\ ops'[session.op].attempt.run = count.crashes
        BY <3>1, <4>1, <4>2 DEF AllMove, Moves, Onward, Begun
      <4> QED BY <3>1, <4>1, <4>2, <4>3
    <3>3. session.kind # "none"
      BY <2>2 DEF Converse
    <3> QED BY <3>1, <3>2, <3>3
  <2> QED BY <2>1, <2>2 DEF Voice
<1>3. /\ UNCHANGED <<threads, jobs, pending, cancelled, generation, recovered, dials>>
      /\ UNCHANGED count \/ Use("followups")
  BY DEF Voice, Followup, Converse, t3Vars
<1>4. /\ count' \in [Bounds -> Nat] /\ count'.rings = count.rings /\ count'.crashes = count.crashes
      /\ count.rings \in Nat /\ count.crashes \in Nat
  BY <1>1, <1>3, CountFacts
<1>5. /\ session' \in [kind : {"none", "out", "in"}, call : Int, op : Requests \cup {None}, over : BOOLEAN]
      /\ session'.kind = session.kind /\ session'.call = session.call /\ session'.op = r
  BY <1>1, <1>2 DEF World
<1>6. ask' \in [Requests -> {"unasked", "open", "closed"}]
  <2>1. UNCHANGED ask \/ \E S : Answered(S)
    BY DEF Voice, Followup, Converse, t3Vars
  <2> QED BY <1>1, <2>1 DEF Answered, World
<1>7. World'
  BY <1>1, <1>3, <1>4, <1>5, <1>6 DEF World, Bounds
<1>8. Steady
  BY <1>1, <1>2, <1>3, <1>4 DEF Steady, World
<1>9. Remains(0)
  BY <1>1, <1>3, RemainsFacts DEF Queue
<1>10. Queue' /\ Reservations'
  BY <1>1, <1>3, <1>8, <1>9, RemainsQueue
<1>11. InCall'
  BY <1>1, <1>2, <1>3, <1>4, <1>5 DEF InCall, Calls, Begun
<1>12. \A c \in UnderWay' : c = 0 \/ c \in UnderWay
  BY <1>3, <1>5, <1>9, RemainsUnderWay, UnderWayKept
<1>13. pending' <= count'.rings
  BY <1>1, <1>3, <1>4 DEF Calls
<1> QED BY <1>2, <1>3, <1>7, <1>8, <1>10, <1>11, <1>12, <1>13, CallGoesOn

-----------------------------------------------------------------------------
(* Steps of the main loop.                                                 *)

\* A step that changes neither the operations nor the bounds.
LEMMA StillSteady ==
  ASSUME IInv, ops' = ops, generation' = generation, UNCHANGED count
  PROVE  Steady
  BY OpsStay DEF Steady, IInv, World

LEMMA JobFacts ==
  ASSUME World, NEW kind \in {"scan", "validate", "text", "finish", "incoming"}, NEW op \in Nat
  PROVE  /\ Job(kind, op) \in JobType /\ Job(kind, op).kind = kind /\ Job(kind, op).op = op
         /\ Job(kind, op).generation = generation /\ Job(kind, op).done = FALSE
  BY DEF Job, JobType, World

LEMMA TextArrivesStep ==
  ASSUME IInv, TextArrives
  PROVE  IInv'
<1>1. Operations(ops) /\ World /\ Queue /\ Reservations /\ Calls
  BY DEF IInv
<1>2. /\ generation' = generation + 1 /\ generation \in Nat
      /\ session' = [session EXCEPT !.over = session.kind # "none"]
      /\ UNCHANGED <<ops, ask, threads, pending, cancelled, recovered, dials, count>>
  BY <1>1 DEF TextArrives, t3Vars, World
<1> DEFINE over == session.kind # "none"
           new == [Job("text", None) EXCEPT !.generation = generation']
<1>3. over \in BOOLEAN /\ session' = [session EXCEPT !.over = over]
  BY <1>2
<1> HIDE DEF over
<1>4. /\ session' \in [kind : {"none", "out", "in"}, call : Int, op : Requests \cup {None}, over : BOOLEAN]
      /\ session'.kind = session.kind /\ session'.call = session.call /\ session'.op = session.op
  BY <1>1, <1>3 DEF World
<1>5. /\ new \in JobType /\ new.kind = "text" /\ new.op = None /\ new.generation = generation + 1
      /\ new.done = FALSE
  <2>1. /\ Job("text", None) \in JobType /\ Job("text", None).kind = "text"
        /\ Job("text", None).op = None /\ Job("text", None).done = FALSE
    BY <1>1, JobFacts DEF None
  <2> QED BY <1>2, <2>1 DEF JobType
<1>6. jobs' = Append(jobs, new)
  BY DEF TextArrives
<1> HIDE DEF new
<1>7. World'
  BY <1>1, <1>2, <1>4 DEF World
<1>8. Steady
  <2>1. AllMove(ops, ops')
    BY <1>2, OpsStay
  <2> QED BY <1>1, <1>2, <2>1 DEF Steady, World
<1>9. Grows(0, new)
  BY <1>1, <1>5, <1>6, GrowsFacts DEF Queue
<1>10. Fits(new, ops', generation', count'.rings)
  BY <1>2, <1>5 DEF Fits
<1>11. \A i \in 1..Len(jobs) : jobs[i].generation < new.generation
  BY <1>1, <1>2, <1>5 DEF Queue, Fits, JobType
<1>12. \A r \in Requests : ~Holds(new, r)
  BY <1>5 DEF Holds
<1>13. Queue' /\ Reservations'
  BY <1>1, <1>2, <1>8, <1>9, <1>10, <1>11, <1>12, GrowsQueue
<1>14. InCall'
  <2>1. Len(dials) \in Nat
    BY <1>1, LenProperties DEF World
  <2> QED BY <1>1, <1>2, <1>4, <1>8, <2>1, InCallKept
<1>15. \A c \in UnderWay' : c = 0 \/ c \in UnderWay
  BY <1>1, <1>2, <1>4, <1>5, <1>9, GrowsUnderWay, UnderWayKept
<1>16. pending' <= count'.rings
  BY <1>1, <1>2 DEF Calls
<1> QED BY <1>2, <1>7, <1>8, <1>13, <1>14, <1>15, <1>16, CallGoesOn

\* Incoming calls, and the ends of calls.
LEMMA CallsComeAndGo ==
  ASSUME IInv, CallRings \/ CallerGivesUp \/ CallEnds
  PROVE  IInv'
<1>1. Operations(ops) /\ World /\ Queue /\ Reservations /\ Calls
  BY DEF IInv
<1>2. UNCHANGED <<ops, ask, threads, jobs, generation, recovered, dials>>
  BY DEF CallRings, CallerGivesUp, CallEnds, t3Vars
<1>3. /\ count' \in [Bounds -> Nat] /\ count'.crashes = count.crashes /\ count.crashes \in Nat
      /\ count.rings \in Nat /\ count'.rings \in {count.rings, count.rings + 1}
      /\ pending' \in {0, pending, count'.rings} /\ (pending' # 0 => (pending' = pending \/ pending' > count.rings))
  <2>1. count \in [Bounds -> Nat] /\ count.rings \in Nat /\ count.crashes \in Nat
    BY <1>1 DEF World, Bounds
  <2>2. CASE CallRings
    <3>1. /\ count' \in [Bounds -> Nat] /\ count'.rings = count.rings + 1
          /\ count'.crashes = count.crashes
      BY <1>1, <2>2, UseFacts DEF CallRings, Bounds
    <3>2. pending' = pending \/ pending' = count'.rings
      BY <2>2 DEF CallRings
    <3> QED BY <2>1, <3>1, <3>2
  <2>3. CASE CallerGivesUp \/ CallEnds
    <3>1. UNCHANGED count /\ pending' \in {0, pending}
      BY <2>3 DEF CallerGivesUp, CallEnds
    <3> QED BY <2>1, <3>1
  <2> QED BY <2>2, <2>3
<1>4. /\ session' \in [kind : {"none", "out", "in"}, call : Int, op : Requests \cup {None}, over : BOOLEAN]
      /\ session'.kind = session.kind /\ session'.call = session.call /\ session'.op = session.op
  <2>1. session' = session \/ session' = [session EXCEPT !.over = TRUE]
    BY DEF CallRings, CallerGivesUp, CallEnds
  <2>2. CASE session' = [session EXCEPT !.over = TRUE]
    BY <1>1, <2>2 DEF World
  <2> QED BY <1>1, <2>1, <2>2 DEF World
<1>5. cancelled' \subseteq Nat
  <2>1. cancelled' = cancelled \/ \E n \in Nat : cancelled' = cancelled \cup {n}
    BY DEF CallRings, CallerGivesUp, CallEnds
  <2>2. cancelled \subseteq Nat
    BY <1>1 DEF World
  <2> QED BY <2>1, <2>2
<1>6. pending' \in Nat /\ pending' <= count'.rings
  BY <1>1, <1>3 DEF Calls, World, Bounds
<1>7. World'
  BY <1>1, <1>2, <1>3, <1>4, <1>5, <1>6 DEF World, Bounds
<1>8. Steady
  <2>1. AllMove(ops, ops')
    BY <1>2, OpsStay
  <2> QED BY <1>1, <1>2, <1>3, <2>1 DEF Steady, World
<1>9. Remains(0)
  BY <1>1, <1>2, RemainsFacts DEF Queue
<1>10. Queue' /\ Reservations'
  BY <1>1, <1>2, <1>8, <1>9, RemainsQueue
<1>11. InCall'
  <2>1. Len(dials) \in Nat
    BY <1>1, LenProperties DEF World
  <2> QED BY <1>1, <1>2, <1>4, <1>8, <2>1, InCallKept
<1>12. \A c \in UnderWay' : c = 0 \/ c \in UnderWay \/ c > count.rings
  BY <1>2, <1>3, <1>4 DEF UnderWay
<1> QED BY <1>2, <1>6, <1>7, <1>8, <1>10, <1>11, <1>12, CallGoesOn

\* A finished job is taken and nothing comes of it.
LEMMA JobTaken ==
  ASSUME IInv, jobs # <<>>, jobs' = Tail(jobs), UNCHANGED <<ops, t3Vars, loopVars, recovered, dials, count>>
  PROVE  IInv'
<1>1. Operations(ops) /\ World /\ Queue /\ Reservations /\ Calls
  BY DEF IInv
<1>2. UNCHANGED <<ops, ask, threads, session, pending, cancelled, generation, recovered, dials, count>>
  BY DEF t3Vars, loopVars
<1>3. World' /\ Steady
  BY <1>1, <1>2, StillSteady DEF World
<1>4. Remains(1)
  BY <1>1, RemainsFacts DEF Queue
<1>5. Queue' /\ Reservations'
  BY <1>1, <1>2, <1>3, <1>4, RemainsQueue
<1>6. InCall'
  <2>1. Len(dials) \in Nat
    BY <1>1, LenProperties DEF World
  <2> QED BY <1>1, <1>2, <1>3, <2>1, InCallKept
<1>7. \A c \in UnderWay' : c = 0 \/ c \in UnderWay
  BY <1>2, <1>4, RemainsUnderWay, UnderWayKept
<1>8. pending' <= count'.rings
  BY <1>1, <1>2 DEF Calls
<1> QED BY <1>2, <1>3, <1>5, <1>6, <1>7, <1>8, CallGoesOn

\* The queue grows at its end, perhaps over the job just taken; no text and no call is new.
LEMMA JobSubmitted ==
  ASSUME IInv, NEW k \in {0, 1}, NEW what \in {"scan", "validate", "finish"}, NEW r0 \in Nat,
         Grows(k, Job(what, r0)), UNCHANGED <<ops, t3Vars, recovered, dials, count>>,
         UNCHANGED <<pending, cancelled, generation>>, session' \in {session, NoSession},
         what = "scan" => r0 = None,
         what = "finish" => r0 \in Requests /\ Begun(ops, r0),
         what = "validate" => r0 \in Requests /\ k = 1 /\ Holds(jobs[1], r0)
  PROVE  IInv'
<1>1. Operations(ops) /\ World /\ Queue /\ Reservations /\ Calls
  BY DEF IInv
<1>2. UNCHANGED <<ops, ask, threads, pending, cancelled, generation, recovered, dials, count>>
  BY DEF t3Vars
<1> DEFINE new == Job(what, r0)
<1>3. new \in JobType /\ new.kind = what /\ new.op = r0 /\ new.generation = generation /\ new.done = FALSE
  <2>1. what \in {"scan", "validate", "text", "finish", "incoming"}
    OBVIOUS
  <2>2. World
    BY <1>1
  <2>3. new \in JobType
    BY <2>1, <2>2, JobFacts
  <2>4. new.kind = what /\ new.op = r0 /\ new.generation = generation /\ new.done = FALSE
    BY DEF Job
  <2> QED BY <2>3, <2>4
<1> HIDE DEF new
<1>4. /\ NoSession \in [kind : {"none", "out", "in"}, call : Int, op : Requests \cup {None}, over : BOOLEAN]
      /\ NoSession.kind = "none" /\ NoSession.op = None
  BY DEF NoSession
<1>5. World'
  BY <1>1, <1>2, <1>4 DEF World
<1>6. Steady
  BY <1>2, StillSteady
<1>7. Fits(new, ops', generation', count'.rings)
  BY <1>1, <1>2, <1>3 DEF Fits, World, None
<1>8. ASSUME NEW r \in Requests, Holds(new, r)
      PROVE  Reserved(r) /\ \A i \in (1 + k)..Len(jobs) : ~Holds(jobs[i], r)
  <2>1. r0 = r /\ what = "validate"
    BY <1>3, <1>8 DEF Holds, Requests, None
  <2>2. Len(jobs) \in Nat /\ 1 <= Len(jobs)
    BY <1>1, <2>1, SeqFacts DEF Queue, Grows
  <2>3. Reserved(r)
    BY <1>1, <1>2, <2>1, <2>2 DEF Reservations, Reserved
  <2>4. \A i \in 2..Len(jobs) : ~Holds(jobs[i], r)
    BY <1>1, <2>1, <2>2 DEF Reservations
  <2> QED BY <2>1, <2>3, <2>4
<1>9. Queue' /\ Reservations'
  <2>1. Grows(k, new) /\ new.kind # "text"
    BY <1>3 DEF new
  <2> QED BY <1>1, <1>2, <1>6, <1>7, <1>8, <2>1, GrowsQueue
<1>10. InCall'
  <2>1. Len(dials) \in Nat
    BY <1>1, LenProperties DEF World
  <2>2. CASE session' = session
    BY <1>1, <1>2, <1>6, <2>1, <2>2, InCallKept
  <2>3. CASE session' = NoSession
    BY <1>4, <2>3 DEF InCall
  <2> QED BY <2>2, <2>3
<1>11. \A c \in UnderWay' : c = 0 \/ c \in UnderWay
  <2>1. Grows(k, new) /\ new.kind # "incoming"
    BY <1>3 DEF new
  <2> QED BY <1>1, <1>2, <1>4, <2>1, GrowsUnderWay, UnderWayKept
<1>12. pending' <= count'.rings
  BY <1>1, <1>2 DEF Calls
<1> QED BY <1>2, <1>5, <1>6, <1>9, <1>10, <1>11, <1>12, CallGoesOn

LEMMA HeadFacts ==
  ASSUME Queue, jobs # <<>>
  PROVE  /\ Len(jobs) \in Nat /\ 1 <= Len(jobs) /\ Head(jobs) = jobs[1]
         /\ Fits(jobs[1], ops, generation, count.rings) /\ jobs[1] \in JobType
<1>1. Len(jobs) \in Nat /\ 1 <= Len(jobs) /\ Head(jobs) = jobs[1]
  BY SeqFacts DEF Queue
<1> QED BY <1>1 DEF Queue, Fits

LEMMA BeginOutgoingStep ==
  ASSUME IInv, BeginOutgoing
  PROVE  IInv'
<1>1. Queue /\ World /\ jobs # <<>> /\ Head(jobs).kind = "scan"
      /\ UNCHANGED <<ops, t3Vars, loopVars, recovered, dials, count>>
  BY DEF IInv, BeginOutgoing, Takes
<1>2. Head(jobs) = jobs[1] /\ Fits(jobs[1], ops, generation, count.rings) /\ jobs[1] \in JobType
  BY <1>1, HeadFacts
<1>3. CASE jobs' = Tail(jobs)
  BY <1>1, <1>3, JobTaken
<1>4. CASE Head(jobs).op # None /\ jobs' = Append(Tail(jobs), Job("validate", Head(jobs).op))
  <2> DEFINE op == jobs[1].op
  <2>1. op \in Requests /\ op \in Nat /\ Holds(jobs[1], op)
    BY <1>1, <1>2, <1>4 DEF Fits, Holds, JobType
  <2>2. Job("validate", op) \in JobType
    BY <1>1, <2>1, JobFacts
  <2>3. Grows(1, Job("validate", op))
    BY <1>1, <1>2, <1>4, <2>2, GrowsFacts DEF Queue
  <2>4. UNCHANGED <<pending, cancelled, generation>> /\ session' = session
    BY <1>1 DEF loopVars
  <2> HIDE DEF op
  <2> QED BY <1>1, <2>1, <2>3, <2>4, JobSubmitted
<1> QED BY <1>3, <1>4 DEF BeginOutgoing

LEMMA StartScanStep ==
  ASSUME IInv, StartScan
  PROVE  IInv'
<1>1. World /\ jobs \in Seq(JobType) /\ jobs' = Append(jobs, Job("scan", None))
      /\ UNCHANGED <<ops, t3Vars, recovered, dials, count>>
      /\ UNCHANGED <<pending, cancelled, generation>> /\ session' = session /\ None \in Nat
  BY DEF IInv, Queue, StartScan, Submit, loopVars, None
<1>2. Job("scan", None) \in JobType
  BY <1>1, JobFacts
<1>3. Grows(0, Job("scan", None))
  BY <1>1, <1>2, GrowsFacts
<1> QED BY <1>1, <1>3, JobSubmitted

LEMMA TakeEndStep ==
  ASSUME IInv, TakeEnd
  PROVE  IInv'
<1>1. Operations(ops) /\ World /\ Queue /\ Reservations /\ Calls
  BY DEF IInv
<1>2. UNCHANGED <<ops, t3Vars, pending, cancelled, generation, recovered, dials, count>> /\ session' = NoSession
  BY DEF TakeEnd
<1>3. CASE session.op # None /\ Begun(ops, session.op) /\ Submit("finish", session.op)
  <2>1. session.op \in Requests /\ session.op \in Nat
    BY <1>1, <1>3 DEF World, Requests
  <2>2. Job("finish", session.op) \in JobType
    BY <1>1, <2>1, JobFacts
  <2>3. Grows(0, Job("finish", session.op))
    BY <1>1, <1>3, <2>2, GrowsFacts DEF Queue, Submit
  <2> QED BY <1>2, <1>3, <2>1, <2>3, JobSubmitted
<1>4. CASE UNCHANGED jobs
  <2>1. UNCHANGED <<ops, ask, threads, pending, cancelled, generation, recovered, dials, count>>
    BY <1>2 DEF t3Vars
  <2>2. /\ session' \in [kind : {"none", "out", "in"}, call : Int, op : Requests \cup {None}, over : BOOLEAN]
        /\ session'.kind = "none" /\ session'.op = None
    BY <1>2 DEF NoSession
  <2>3. World' /\ Steady
    BY <1>1, <2>1, <2>2, StillSteady DEF World
  <2>4. Remains(0)
    BY <1>1, <1>4, RemainsFacts DEF Queue
  <2>5. Queue' /\ Reservations'
    BY <1>1, <2>1, <2>3, <2>4, RemainsQueue
  <2>6. InCall'
    BY <2>2 DEF InCall
  <2>7. \A c \in UnderWay' : c = 0 \/ c \in UnderWay
    BY <2>1, <2>2, <2>4, RemainsUnderWay, UnderWayKept
  <2>8. pending' <= count'.rings
    BY <1>1, <2>1 DEF Calls
  <2> QED BY <2>1, <2>3, <2>5, <2>6, <2>7, <2>8, CallGoesOn
<1> QED BY <1>3, <1>4 DEF TakeEnd, Begun

LEMMA TakeCallStep ==
  ASSUME IInv, TakeCall
  PROVE  IInv'
<1>1. Operations(ops) /\ World /\ Queue /\ Reservations /\ Calls
  BY DEF IInv
<1>2. /\ UNCHANGED <<ops, ask, threads, session, cancelled, generation, recovered, dials, count>>
      /\ pending # 0 /\ pending' = 0 /\ jobs' = Append(jobs, Job("incoming", pending))
  BY DEF TakeCall, t3Vars, Submit
<1> DEFINE new == Job("incoming", pending)
<1>3. pending \in Nat /\ pending > 0 /\ pending <= count.rings
  BY <1>1, <1>2 DEF World, Calls
<1>4. /\ new \in JobType /\ new.kind = "incoming" /\ new.op = pending /\ new.generation = generation
      /\ new.done = FALSE
  BY <1>1, <1>3, JobFacts
<1>5. Grows(0, new)
  BY <1>1, <1>2, <1>4, GrowsFacts DEF Queue
<1> HIDE DEF new
<1>6. World' /\ Steady
  BY <1>1, <1>2, StillSteady DEF World
<1>7. Fits(new, ops', generation', count'.rings)
  BY <1>1, <1>2, <1>3, <1>4 DEF Fits, World
<1>8. \A r \in Requests : ~Holds(new, r)
  BY <1>4 DEF Holds
<1>9. Queue' /\ Reservations'
  BY <1>1, <1>2, <1>4, <1>5, <1>6, <1>7, <1>8, GrowsQueue
<1>10. InCall'
  <2>1. Len(dials) \in Nat
    BY <1>1, LenProperties DEF World
  <2> QED BY <1>1, <1>2, <1>6, <2>1, InCallKept
<1>11. ASSUME NEW c \in UnderWay' PROVE c = 0 \/ c \in UnderWay
  <2>1. /\ c \in Int
        /\ \/ c = pending'
           \/ session'.kind # "none" /\ c = session'.call
           \/ \E i \in 1..Len(jobs') : jobs'[i].kind = "incoming" /\ c = jobs'[i].op
    BY DEF UnderWay
  <2>2. CASE c = pending'
    BY <1>2, <2>2
  <2>3. CASE session'.kind # "none" /\ c = session'.call
    BY <1>2, <2>1, <2>3 DEF UnderWay
  <2>4. ASSUME NEW i \in 1..Len(jobs'), jobs'[i].kind = "incoming", c = jobs'[i].op
        PROVE  c \in UnderWay
    <3>1. Len(jobs') \in Nat
      BY <1>9, SeqFacts DEF Queue
    <3>2. CASE i = Len(jobs')
      BY <1>4, <1>5, <2>1, <2>4, <3>2 DEF Grows, UnderWay
    <3>3. CASE i # Len(jobs')
      <4>1. i \in 1..(Len(jobs') - 1)
        BY <3>1, <3>3
      <4>2. i + 0 \in 1..Len(jobs) /\ jobs'[i] = jobs[i + 0]
        BY <1>5, <4>1 DEF Grows
      <4>3. \E j \in 1..Len(jobs) : jobs[j].kind = "incoming" /\ c = jobs[j].op
        BY <2>4, <4>2
      <4> QED BY <2>1, <4>3 DEF UnderWay
    <3> QED BY <3>2, <3>3
  <2> QED BY <2>1, <2>2, <2>3, <2>4
<1>12. pending' <= count'.rings
  BY <1>1, <1>2 DEF World, Bounds
<1> QED BY <1>2, <1>6, <1>9, <1>10, <1>11, <1>12, CallGoesOn

LEMMA StartIncomingStep ==
  ASSUME IInv, StartIncoming
  PROVE  IInv'
<1>1. Operations(ops) /\ World /\ Queue /\ Reservations /\ Calls
  BY DEF IInv
<1>2. /\ jobs # <<>> /\ Head(jobs).kind = "incoming" /\ jobs' = Tail(jobs)
      /\ UNCHANGED <<ops, t3Vars, pending, cancelled, generation, recovered, dials, count>>
      /\ \/ session' = session
         \/ session' = [kind |-> "in", call |-> Head(jobs).op, op |-> None, over |-> FALSE]
  BY DEF StartIncoming, Takes
<1>3. CASE session' = session
  <2>1. UNCHANGED <<ops, t3Vars, loopVars, recovered, dials, count>>
    BY <1>2, <1>3 DEF loopVars
  <2> QED BY <1>2, <2>1, JobTaken
<1>4. CASE session' = [kind |-> "in", call |-> Head(jobs).op, op |-> None, over |-> FALSE]
  <2> DEFINE c0 == jobs[1].op
  <2>1. /\ Len(jobs) \in Nat /\ 1 <= Len(jobs) /\ Head(jobs) = jobs[1]
        /\ jobs[1].kind = "incoming" /\ c0 \in Nat /\ c0 > 0 /\ c0 <= count.rings
    BY <1>1, <1>2, HeadFacts DEF Fits, JobType
  <2>2. UNCHANGED <<ops, ask, threads, pending, cancelled, generation, recovered, dials, count>>
    BY <1>2 DEF t3Vars
  <2>3. session' = [kind |-> "in", call |-> c0, op |-> None, over |-> FALSE]
    BY <1>4, <2>1
  <2> HIDE DEF c0
  <2>4. /\ session' \in [kind : {"none", "out", "in"}, call : Int, op : Requests \cup {None}, over : BOOLEAN]
        /\ session'.kind = "in" /\ session'.call = c0 /\ session'.op = None
    BY <2>1, <2>3
  <2>5. World' /\ Steady
    BY <1>1, <2>2, <2>4, StillSteady DEF World
  <2>6. Remains(1)
    BY <1>1, <1>2, RemainsFacts DEF Queue
  <2>7. Queue' /\ Reservations'
    BY <1>1, <2>2, <2>5, <2>6, RemainsQueue
  <2>8. Len(dials) \in Nat
    BY <1>1, LenProperties DEF World
  <2>9. InCall'
    BY <2>1, <2>2, <2>4, <2>8 DEF InCall
  <2>10. ASSUME NEW c \in UnderWay' PROVE c \in UnderWay
    <3>1. /\ c \in Int
          /\ \/ c = pending
             \/ c = c0
             \/ \E i \in 1..Len(jobs') : jobs'[i].kind = "incoming" /\ c = jobs'[i].op
      BY <2>2, <2>4 DEF UnderWay
    <3>2. CASE c = pending
      BY <3>1, <3>2 DEF UnderWay
    <3>3. CASE c = c0
      BY <2>1, <3>1, <3>3 DEF UnderWay, c0
    <3>4. CASE \E i \in 1..Len(jobs') : jobs'[i].kind = "incoming" /\ c = jobs'[i].op
      <4>1. \E j \in 1..Len(jobs) : jobs[j].kind = "incoming" /\ c = jobs[j].op
        BY <2>6, <3>4, RemainsUnderWay
      <4> QED BY <3>1, <4>1 DEF UnderWay
    <3> QED BY <3>1, <3>2, <3>3, <3>4
  <2>11. pending' <= count'.rings
    BY <1>1, <2>2 DEF Calls
  <2> QED BY <2>2, <2>5, <2>7, <2>9, <2>10, <2>11, CallGoesOn
<1> QED BY <1>2, <1>3, <1>4

\* The reservation is used up by the call it is for.
LEMMA StartOutgoingStep ==
  ASSUME IInv, StartOutgoing
  PROVE  IInv'
<1>1. Operations(ops) /\ World /\ Queue /\ Reservations /\ Calls
  BY DEF IInv
<1> DEFINE r == Head(jobs).op
           call == [op |-> r, request |-> ops[r].request]
<1>2. /\ jobs # <<>> /\ Head(jobs).kind = "validate" /\ jobs' = Tail(jobs)
      /\ UNCHANGED <<ops, t3Vars, pending, cancelled, generation, recovered, count>>
      /\ \/ UNCHANGED <<session, dials>>
         \/ /\ r # None /\ dials' = Append(dials, call)
            /\ session' = [kind |-> "out", call |-> -Len(dials'), op |-> r, over |-> FALSE]
  BY DEF StartOutgoing, Takes
<1>3. CASE UNCHANGED <<session, dials>>
  <2>1. UNCHANGED <<ops, t3Vars, loopVars, recovered, dials, count>>
    BY <1>2, <1>3 DEF loopVars
  <2> QED BY <1>2, <2>1, JobTaken
<1>4. CASE /\ r # None /\ dials' = Append(dials, call)
           /\ session' = [kind |-> "out", call |-> -Len(dials'), op |-> r, over |-> FALSE]
  <2>1. Len(jobs) \in Nat /\ 1 <= Len(jobs) /\ Head(jobs) = jobs[1] /\ r \in Requests
    BY <1>1, <1>2, <1>4, HeadFacts DEF Fits
  <2>2. Holds(jobs[1], r)
    BY <1>2, <2>1 DEF Holds
  <2>3. /\ Begun(ops, r) /\ ops[r].attempt.run = count.crashes
        /\ \A d \in 1..Len(dials) : dials[d].op # r
    BY <1>1, <2>1, <2>2 DEF Reservations
  <2>4. call \in [op : Requests, request : Requests] /\ call.op = r
    BY <1>1, <2>1 DEF Operations, OperationType
  <2> HIDE DEF call, r
  <2>5. UNCHANGED <<ops, ask, threads, pending, cancelled, generation, recovered, count>>
    BY <1>2 DEF t3Vars
  <2>6. /\ dials' \in Seq([op : Requests, request : Requests]) /\ Len(dials) \in Nat
        /\ Len(dials') = Len(dials) + 1 /\ \A d \in 1..Len(dials) : dials'[d] = dials[d]
        /\ dials'[Len(dials) + 1] = call
    BY <1>1, <1>4, <2>4, SeqFacts DEF World
  <2>7. /\ session' \in [kind : {"none", "out", "in"}, call : Int, op : Requests \cup {None}, over : BOOLEAN]
        /\ session'.kind = "out" /\ session'.call = -Len(dials') /\ session'.op = r
    BY <1>4, <2>1, <2>6
  <2>8. World' /\ Steady
    BY <1>1, <2>5, <2>6, <2>7, StillSteady DEF World
  <2>9. Remains(1)
    BY <1>1, <1>2, RemainsFacts DEF Queue
  <2>10. /\ Queue'
         /\ \A i, j \in 1..Len(jobs'), q \in Requests :
               (Holds(jobs'[i], q) /\ Holds(jobs'[j], q)) => i = j
         /\ \A i \in 1..Len(jobs'), q \in Requests :
               Holds(jobs'[i], q) =>
                 /\ Begun(ops', q) /\ ops'[q].attempt.run = count'.crashes
                 /\ i + 1 \in 1..Len(jobs) /\ Holds(jobs[i + 1], q)
                 /\ \A d \in 1..Len(dials) : dials[d].op # q
    BY <1>1, <2>8, <2>9, RemainsHeld
  <2>11. ASSUME NEW i \in 1..Len(jobs'), NEW q \in Requests, Holds(jobs'[i], q),
                NEW d \in 1..Len(dials')
         PROVE  dials'[d].op # q
    <3>1. Holds(jobs[i + 1], q) /\ i + 1 \in 1..Len(jobs) /\ i + 1 # 1
      BY <2>10, <2>11
    <3>2. q # r
      BY <1>1, <2>1, <2>2, <3>1 DEF Reservations
    <3>3. CASE d = Len(dials) + 1
      BY <2>4, <2>6, <3>2, <3>3
    <3>4. CASE d # Len(dials) + 1
      BY <2>6, <2>10, <2>11, <3>4
    <3> QED BY <3>3, <3>4
  <2>12. \A d \in 1..Len(dials') : Begun(ops', dials'[d].op)
    <3>1. \A d \in 1..Len(dials) : Begun(ops', dials[d].op)
      BY <1>1, <2>8, DialedStay
    <3> QED BY <2>3, <2>4, <2>5, <2>6, <3>1
  <2>13. \A d, e \in 1..Len(dials') : dials'[d].op = dials'[e].op => d = e
    <3> SUFFICES ASSUME NEW d \in 1..Len(dials'), NEW e \in 1..Len(dials'), dials'[d].op = dials'[e].op
                 PROVE  d = e
      OBVIOUS
    <3>1. ASSUME NEW a \in 1..Len(dials')
          PROVE  \/ a = Len(dials) + 1 /\ dials'[a].op = r
                 \/ a \in 1..Len(dials) /\ dials'[a] = dials[a] /\ dials'[a].op # r
      <4>1. CASE a = Len(dials) + 1
        BY <2>4, <2>6, <4>1
      <4>2. CASE a # Len(dials) + 1
        BY <2>3, <2>6, <4>2
      <4> QED BY <4>1, <4>2
    <3> QED BY <1>1, <3>1 DEF Reservations, DialedOnce
  <2>14. Reservations'
    BY <2>10, <2>11, <2>12, <2>13 DEF Reservations, DialedOnce, Holds, Begun
  <2>15. InCall'
    <3>1. session'.call # 0 /\ -Len(dials') <= session'.call /\ session'.call <= count'.rings
      BY <1>1, <2>5, <2>6, <2>7 DEF World
    <3> QED BY <2>3, <2>5, <2>7, <3>1 DEF InCall, Begun
  <2>16. ASSUME NEW c \in UnderWay' PROVE c \in UnderWay \/ c < -Len(dials)
    <3>1. /\ c \in Int
          /\ \/ c = pending
             \/ c = -Len(dials')
             \/ \E i \in 1..Len(jobs') : jobs'[i].kind = "incoming" /\ c = jobs'[i].op
      BY <2>5, <2>7 DEF UnderWay
    <3>2. CASE c = pending
      BY <3>1, <3>2 DEF UnderWay
    <3>3. CASE c = -Len(dials')
      BY <2>6, <3>3
    <3>4. CASE \E i \in 1..Len(jobs') : jobs'[i].kind = "incoming" /\ c = jobs'[i].op
      <4>1. \E j \in 1..Len(jobs) : jobs[j].kind = "incoming" /\ c = jobs[j].op
        BY <2>9, <3>4, RemainsUnderWay
      <4> QED BY <3>1, <4>1 DEF UnderWay
    <3> QED BY <3>1, <3>2, <3>3, <3>4
  <2>17. pending' <= count'.rings /\ Len(dials) <= Len(dials')
    BY <1>1, <2>5, <2>6 DEF Calls
  <2>18. Calls'
    BY <1>1, <2>8, <2>15, <2>16, <2>17, CallsStep
  <2> QED BY <2>5, <2>8, <2>10, <2>14, <2>18, Assemble
<1> QED BY <1>2, <1>3, <1>4

-----------------------------------------------------------------------------
(* T3, crashes, and all steps together.                                    *)

LEMMA T3Step ==
  ASSUME IInv, T3
  PROVE  IInv'
<1>1. Operations(ops) /\ World /\ Queue /\ Reservations /\ Calls
  BY DEF IInv
<1>2. /\ UNCHANGED <<ops, jobs, session, pending, cancelled, generation, recovered, dials>>
      /\ UNCHANGED count \/ Use("losses")
  BY DEF T3, Asks, Closes, LosesThread, loopVars
<1>3. ask' \in [Requests -> {"unasked", "open", "closed"}]
  <2>1. ASSUME Asks \/ Closes PROVE \E r, s : s \in {"open", "closed"} /\ ask' = [ask EXCEPT ![r] = s]
    BY <2>1 DEF Asks, Closes
  <2>2. UNCHANGED ask \/ \E r, s : s \in {"open", "closed"} /\ ask' = [ask EXCEPT ![r] = s]
    BY <2>1 DEF T3, LosesThread
  <2> QED BY <1>1, <2>2 DEF World
<1>4. threads' \in [Threads -> {"alive", "archived", "missing"}]
  <2>1. UNCHANGED threads
        \/ \E t, s : s \in {"archived", "missing"} /\ threads' = [threads EXCEPT ![t] = s]
    BY DEF T3, Asks, Closes, LosesThread
  <2> QED BY <1>1, <2>1 DEF World
<1>5. /\ count' \in [Bounds -> Nat] /\ count'.rings = count.rings /\ count'.crashes = count.crashes
      /\ count.rings \in Nat /\ count.crashes \in Nat
  BY <1>1, <1>2, CountFacts
<1>6. World'
  BY <1>1, <1>2, <1>3, <1>4, <1>5 DEF World, Bounds
<1>7. Steady
  <2>1. AllMove(ops, ops')
    BY <1>2, OpsStay
  <2> QED BY <1>1, <1>2, <1>5, <2>1 DEF Steady, World
<1>8. Remains(0)
  BY <1>1, <1>2, RemainsFacts DEF Queue
<1>9. Queue' /\ Reservations'
  BY <1>1, <1>2, <1>7, <1>8, RemainsQueue
<1>10. InCall'
  <2>1. Len(dials) \in Nat
    BY <1>1, LenProperties DEF World
  <2> QED BY <1>1, <1>2, <1>7, <2>1, InCallKept
<1>11. \A c \in UnderWay' : c = 0 \/ c \in UnderWay
  BY <1>2, <1>8, RemainsUnderWay, UnderWayKept
<1>12. pending' <= count'.rings
  BY <1>1, <1>2, <1>5 DEF Calls
<1> QED BY <1>2, <1>6, <1>7, <1>9, <1>10, <1>11, <1>12, CallGoesOn

LEMMA CrashStep ==
  ASSUME IInv, Crash
  PROVE  IInv'
<1>1. Operations(ops) /\ World /\ Queue /\ Reservations /\ Calls
  BY DEF IInv
<1>2. /\ UNCHANGED <<ops, ask, threads, cancelled, generation, dials>> /\ recovered' = FALSE
      /\ jobs' = <<>> /\ session' = NoSession /\ pending' = 0
  BY DEF Crash, t3Vars
<1>3. /\ count' \in [Bounds -> Nat] /\ count'.crashes = count.crashes + 1 /\ count'.rings = count.rings
      /\ count.crashes \in Nat /\ count.rings \in Nat
  <2>1. "crashes" \in Bounds /\ "rings" \in Bounds /\ "rings" # "crashes" /\ Use("crashes")
    BY DEF Bounds, Crash
  <2>2. count.crashes \in Nat /\ count.rings \in Nat
    BY <1>1 DEF World
  <2> QED BY <1>1, <2>1, <2>2, UseFacts
<1>4. /\ session' \in [kind : {"none", "out", "in"}, call : Int, op : Requests \cup {None}, over : BOOLEAN]
      /\ session'.kind = "none" /\ session'.op = None
  BY <1>2 DEF NoSession
<1>5. World'
  BY <1>1, <1>2, <1>3, <1>4 DEF World, Bounds
<1>6. Operations(ops')
  BY <1>1, <1>2
<1>7. jobs' \in Seq(JobType) /\ Len(jobs') = 0
  BY <1>2, EmptySeq
<1>8. Queue'
  BY <1>7 DEF Queue
<1>9. Reservations'
  BY <1>1, <1>2, <1>7 DEF Reservations, DialedOnce, Begun
<1>10. Calls'
  <2>1. UnderWay' \subseteq {0}
    BY <1>2, <1>4, <1>7 DEF UnderWay
  <2>2. ASSUME NEW r \in Requests
        PROVE  LET a == ops'[r].attempt
               IN  /\ a.run <= count'.crashes /\ -Len(dials') <= a.call /\ a.call <= count'.rings
                   /\ (a.run < count'.crashes /\ a.call # 0) => a.call \notin UnderWay'
    <3>1. ops[r].attempt.run \in Nat
      BY <1>1 DEF Operations, OperationType, AttemptType
    <3>2. /\ ops[r].attempt.run <= count.crashes /\ -Len(dials) <= ops[r].attempt.call
          /\ ops[r].attempt.call <= count.rings
      BY <1>1 DEF Calls
    <3> QED BY <1>2, <1>3, <2>1, <3>1, <3>2
  <2> QED BY <1>2, <1>3, <1>4, <2>2 DEF Calls
<1>11. RestartMadeUp'
  BY <1>2 DEF RestartMadeUp
<1> QED BY <1>5, <1>6, <1>8, <1>9, <1>10, <1>11 DEF IInv, Operations, Sound

\* Only the worker and the voice change operations.
LEMMA OpsStep ==
  ASSUME IInv, [Next]_vars
  PROVE  AllMove(ops, ops')
<1>1. ASSUME Tick \/ Telegram \/ T3 \/ Crash \/ UNCHANGED vars PROVE ops' = ops
  BY <1>1 DEF Tick, Callback, NoCallback, BeginOutgoing, StartOutgoing, StartIncoming, TakeEnd,
    TakeCall, StartScan, Telegram, TextArrives, CallRings, CallerGivesUp, CallEnds, T3, Asks, Closes,
    LosesThread, Crash, vars
<1> QED BY <1>1, OpsStay, WorkerStep, VoiceStep DEF Next

LEMMA Stutter ==
  ASSUME IInv, UNCHANGED vars
  PROVE  IInv'
<1>1. Operations(ops) /\ World /\ Queue /\ Reservations /\ Calls
  BY DEF IInv
<1>2. /\ UNCHANGED <<ops, ask, threads, jobs, session, pending, cancelled, generation, recovered,
                     dials, count>>
  BY DEF vars
<1>3. World' /\ Steady
  BY <1>1, <1>2, StillSteady DEF World
<1>4. Remains(0)
  BY <1>1, <1>2, RemainsFacts DEF Queue
<1>5. Queue' /\ Reservations'
  BY <1>1, <1>2, <1>3, <1>4, RemainsQueue
<1>6. InCall'
  <2>1. Len(dials) \in Nat
    BY <1>1, LenProperties DEF World
  <2> QED BY <1>1, <1>2, <1>3, <2>1, InCallKept
<1>7. \A c \in UnderWay' : c = 0 \/ c \in UnderWay
  BY <1>2, <1>4, RemainsUnderWay, UnderWayKept
<1>8. pending' <= count'.rings
  BY <1>1, <1>2 DEF Calls
<1> QED BY <1>2, <1>3, <1>5, <1>6, <1>7, <1>8, CallGoesOn

LEMMA NoCallbackStep ==
  ASSUME IInv, NoCallback
  PROVE  IInv'
  BY JobTaken DEF NoCallback

LEMMA InitInv ==
  ASSUME Init
  PROVE  IInv
<1>1. Operations(ops)
  BY UnknownIsSound DEF Init, Operations, Sound
<1>2. /\ NoSession \in [kind : {"none", "out", "in"}, call : Int, op : Requests \cup {None}, over : BOOLEAN]
      /\ NoSession.kind = "none" /\ NoSession.op = None
  BY DEF NoSession
<1>3. /\ jobs = <<>> /\ dials = <<>> /\ Len(jobs) = 0 /\ Len(dials) = 0 /\ jobs \in Seq(JobType)
      /\ dials \in Seq([op : Requests, request : Requests])
  BY EmptySeq DEF Init
<1>4. /\ count \in [Bounds -> Nat] /\ count.rings = 0 /\ count.crashes = 0
  BY DEF Init, Bounds
<1>5. World
  BY <1>2, <1>3, <1>4 DEF Init, World, Bounds
<1>6. Queue /\ Reservations
  BY <1>3 DEF Queue, Reservations, DialedOnce
<1>7. Calls
  BY <1>2, <1>3, <1>4, UnknownIsSound DEF Init, Calls
<1>8. RestartMadeUp
  BY DEF Init, RestartMadeUp
<1> QED BY <1>1, <1>5, <1>6, <1>7, <1>8 DEF IInv

LEMMA NextInv ==
  ASSUME IInv, [Next]_vars
  PROVE  IInv'
<1>1. ASSUME Tick PROVE IInv'
  BY <1>1, NoCallbackStep, BeginOutgoingStep, StartOutgoingStep, StartIncomingStep, TakeEndStep,
     TakeCallStep, StartScanStep DEF Tick, Callback
<1>2. ASSUME Telegram PROVE IInv'
  BY <1>2, TextArrivesStep, CallsComeAndGo DEF Telegram
<1> QED BY <1>1, <1>2, WorkerStep, VoiceStep, T3Step, CrashStep, Stutter DEF Next

-----------------------------------------------------------------------------
(* Theorems.                                                               *)

\* The inductive invariant holds in every reachable state.
THEOREM Invariance == Spec => []IInv
<1>1. Init => IInv
  BY InitInv
<1>2. IInv /\ [Next]_vars => IInv'
  BY NextInv
<1> QED BY <1>1, <1>2, PTL DEF Spec

\* Every variable keeps its type, over any number of requests, texts, calls, failures and
\* restarts.
THEOREM TypeCorrect == Spec => []TypeOK
<1>1. IInv => TypeOK
  BY DEF IInv, Operations, World, Queue, TypeOK
<1> QED BY <1>1, Invariance, PTL

\* An operation is dialed at most once in its life, whatever comes between the reservation
\* and the call, and however often the service restarts.
THEOREM OneDial == Spec => []DialedOnce
<1>1. IInv => DialedOnce
  BY DEF IInv, Reservations
<1> QED BY <1>1, Invariance, PTL

\* No call is placed while a text waits for the worker or a call is coming in: the text came
\* in after the job whose reservation the call would use, which is therefore overtaken.
THEOREM CallsYield == Spec => OutgoingYields
<1>1. ASSUME IInv, [Next]_vars, session.kind = "none", session'.kind = "out"
      PROVE  ~Queued("text") /\ pending = 0
  <2>1. session.op = None
    BY <1>1 DEF IInv, Calls
  <2>2. ASSUME Next, ~StartOutgoing PROVE FALSE
    <3>1. session' = session \/ session' = NoSession \/ session.kind # "none"
          \/ session' = [session EXCEPT !.op = session'.op]
          \/ session' = [session EXCEPT !.over = session'.over]
          \/ session' = [kind |-> "in", call |-> Head(jobs).op, op |-> None, over |-> FALSE]
      <4>1. CASE Worker
        BY <4>1 DEF Worker, ScanSucceeds, ScanFails, Validate, Message, Finish, RememberCall, Returns,
          loopVars
      <4>2. CASE Voice
        BY <4>2 DEF Voice, Followup, Converse
      <4>3. CASE Tick
        BY <2>2, <4>3 DEF Tick, Callback, NoCallback, BeginOutgoing, StartIncoming, TakeEnd, TakeCall,
          StartScan, loopVars
      <4>4. CASE Telegram
        <5>1. CASE TextArrives
          <6>1. session' = [session EXCEPT !.over = FALSE]
            BY <1>1, <5>1 DEF TextArrives
          <6>2. session'.over = FALSE
            BY <1>1, <6>1 DEF IInv, World
          <6> QED BY <6>1, <6>2
        <5>2. CASE CallRings
          BY <5>2 DEF CallRings
        <5>3. CASE CallerGivesUp
          <6>1. session' = session \/ session' = [session EXCEPT !.over = TRUE]
            BY <5>3 DEF CallerGivesUp
          <6>2. session' = [session EXCEPT !.over = TRUE] => session'.over = TRUE
            BY <1>1 DEF IInv, World
          <6> QED BY <6>1, <6>2
        <5>4. CASE CallEnds
          BY <5>4 DEF CallEnds
        <5> QED BY <4>4, <5>1, <5>2, <5>3, <5>4 DEF Telegram
      <4>5. CASE T3 \/ Crash
        BY <4>5 DEF T3, Asks, Closes, LosesThread, Crash, loopVars
      <4> QED BY <2>2, <4>1, <4>2, <4>3, <4>4, <4>5 DEF Next
    <3>2. /\ session \in [kind : {"none", "out", "in"}, call : Int, op : Requests \cup {None}, over : BOOLEAN]
          /\ NoSession.kind = "none"
      BY <1>1 DEF IInv, World, NoSession
    <3> QED BY <1>1, <3>1, <3>2
  <2>3. StartOutgoing
    BY <1>1, <2>2 DEF vars
  <2>4. jobs # <<>> /\ Head(jobs).kind = "validate" /\ Head(jobs).generation = generation /\ pending = 0
    BY <1>1, <2>3 DEF StartOutgoing, Takes, Overtaken
  <2>5. /\ Queue /\ Head(jobs) = jobs[1] /\ Len(jobs) \in Nat /\ 1 <= Len(jobs)
    BY <1>1, <2>4, HeadFacts DEF IInv
  <2>6. ASSUME NEW i \in 1..Len(jobs), jobs[i].kind = "text" PROVE FALSE
    <3>1. i # 1
      BY <2>4, <2>5, <2>6
    <3>2. 1 < i /\ 1 \in 1..Len(jobs)
      BY <2>5, <3>1
    <3>3. jobs[1].generation < jobs[i].generation
      BY <2>5, <2>6, <3>2 DEF Queue
    <3>4. jobs[i].generation <= generation /\ jobs[i].generation \in Nat /\ generation \in Nat
      BY <1>1, <2>5 DEF Queue, Fits, JobType, IInv, World
    <3> QED BY <2>4, <2>5, <3>3, <3>4
  <2> QED BY <2>4, <2>6 DEF Queued
<1>2. IInv /\ [Next]_vars => [session.kind = "none" /\ session'.kind = "out" => ~Queued("text") /\ pending = 0]_vars
  BY <1>1
<1> QED BY <1>2, Invariance, PTL DEF Spec, OutgoingYields

\* The message that follows an attempt is neither reserved after a text about the question,
\* not by the step that concludes the attempt and by no later one, nor missing after a
\* restart that owes it.
THEOREM NoticesFit == Spec => NoticeFits
<1>1. IInv => RestartMadeUp
  BY DEF IInv
<1>2. IInv /\ [Next]_vars =>
        [\A r \in Requests :
            ops[r].attempt.suppressed /\ ops'[r].first = "reserved"
              => ops[r].first = "reserved"]_vars
  BY OpsStep DEF AllMove, Moves, Quiet
<1> QED BY <1>1, <1>2, Invariance, PTL DEF Spec, NoticeFits
=============================================================================
